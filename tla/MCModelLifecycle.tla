--------------------------- MODULE MCModelLifecycle ---------------------------
\* Instances of ModelLifecycle for TLC: one object, published from either kind
\* of source or from one of them.
EXTENDS ModelLifecycle

Both   == {"remote", "upload"}
Remote == {"remote"}
Upload == {"upload"}

\* The behaviours in which the object is not deleted: a publication that never
\* settles is one of them.
KeptNext == Next /\ life' = "live"
KeptSpec == Init /\ [][KeptNext]_vars /\ DeletionFairness /\ PublicationFairness
===============================================================================
