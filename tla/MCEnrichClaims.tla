--------------------------- MODULE MCEnrichClaims ---------------------------
(* The instances of MCEnrich, for the statements of EnrichClaims.          *)
EXTENDS MCEnrich, EnrichClaims

\* One record per way of stating a level beside a status.
StatingRecords ==
  { [Blank EXCEPT !.Severity = s, !.responseStatus = st, !.ResponseCode = c, !.pino = p] :
      s \in {"", "Error", "D2"}, st \in {Absent, 200, 404}, c \in {Absent, 200, 500},
      p \in {Absent, 50} }

MCClaimLines ==
  << { Json(f) : f \in StatingRecords } \cup
     { Json([f EXCEPT !.log = TRUE]) : f \in StatingRecords } \cup
     Described \cup TextLines \cup { Json([Blank EXCEPT !.log = TRUE]) },
     EmbeddedLevels \cup Described \cup TextLines >>
=============================================================================
