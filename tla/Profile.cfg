SPECIFICATION FairSpec
CONSTANTS
    ann = ann
    bob = bob
    cat = cat
    dog = dog
    Names <- MCNames
    NoName = NoName
    Photos <- MCPhotos
    NoPhoto = NoPhoto
    MaxProfiles = 3
    MaxCalls = 4
INVARIANTS TypeOK BarWhileUploading OneUpload PictureIsUsers NameIsUsers
PROPERTY UploadEnds
CHECK_DEADLOCK FALSE
