-------------------------- MODULE MCPublishRunner --------------------------
\* Small instances of PublishRunner for TLC.
EXTENDS PublishRunner, FiniteSets, TLC

CONSTANTS p1, p2, u1, u2, w1, w2

OwnUrls    == p1 :> u1 @@ p2 :> u2
OnePackage == p1 :> u1

AlwaysState == {TRUE}
AnyState    == BOOLEAN
=============================================================================
