----------------------------- MODULE MCCreator -----------------------------
(* Small instances of Creator for TLC. *)
EXTENDS Creator, TLC

CONSTANTS s1, s2, c1, c2, d1, d2

TwoSetters == {s1, s2}
TwoClosers == {c1, c2}
TwoPresses == {d1, d2}
OneButton == <<"IsPlayEnabled">>
NothingOrAll == {{}, {"thumbnail", "timeline"}}

\* one setter of the metadata, and one that updates something else
MediaAndThumbnail == (s1 :> "media") @@ (s2 :> "thumbnail")
=============================================================================
