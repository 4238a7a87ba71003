--------------------------- MODULE MCProfileUpdate ---------------------------
(* ProfileUpdate with two names and two pictures.                          *)
EXTENDS ProfileUpdate
CONSTANTS ann, bob, cat, dog
MCNames  == {ann, bob}
MCPhotos == {cat, dog}
=============================================================================
