--------------------------- MODULE MCEntityStore ---------------------------
(* Two callers; three urls of which two share a registrable domain and one *)
(* has none (its origin is its identifier); one bundled picture.           *)
EXTENDS EntityStore, TLC

MCRegistrableDomain == [u \in Urls |-> IF u = "https://www.example.com"
                                       THEN "example.com"
                                       ELSE IF u = "https://app.example.com"
                                       THEN "example.com" ELSE None]

MCOrigin == [u \in Urls |-> u]

MCSymmetry == Permutations(Callers) \cup Permutations(Profiles)

MCImageHash == [n \in ImageNames |-> "h_pic1"]
=============================================================================
