---------------------------- MODULE EnrichClaims ----------------------------
(***************************************************************************)
(* Statements the repository makes about fillResult in its README, doc     *)
(* comments and test comments, taken at their word.  Each is an invariant  *)
(* the code does not have; the README beside this module says what happens *)
(* instead.                                                                *)
(***************************************************************************)
EXTENDS Enrich

Finished(i) == frames[i].at = "done"

\* README.md:153-155: "This [the benign list] is the only place the package
\* overrides a level the line states outright".  A record without embedded
\* lines that spells a level finishes at that level or at the benign WARN4.
OnlyBenignListOverridesLevel ==
  \A i \in DOMAIN frames :
    LET fr == frames[i]
        stated == SeverityFromText(fr.line.f.Severity).text
    IN  (Finished(i) /\ JsonAt(i) /\ fr.lifted = <<>> /\ stated # NoText)
        => \/ fr.res.Severity = stated
           \/ BenignError(fr.res.SourceContext, fr.res.Message)

\* enrich.go:786-787: "The caller applies the enclosing envelope's own values
\* afterwards, so an authoritative top-level scalar still wins over a lifted
\* one."  The level is such a scalar: a record that embeds a line and spells a
\* level, and reports no status of any kind, finishes at its own level.
EnvelopeLevelWins ==
  \A i \in DOMAIN frames :
    LET fr == frames[i]
        f  == fr.line.f
        stated == SeverityFromText(f.Severity).text
    IN  ( /\ Finished(i) /\ JsonAt(i) /\ fr.lifted # <<>> /\ stated # NoText
          /\ {f.response, f.httpStatusCode, f.responseStatus, f.GrpcStatusNumber,
              f.ResponseCode, f.resultCode} = {Absent} )
        => \/ fr.res.Severity = stated
           \/ BenignError(fr.res.SourceContext, fr.res.Message)

\* enrich_test.go:861-862: "The Docker json-file envelope has no metadata of
\* its own; everything the embedded line carries is lifted".
EverythingCarriedIsLifted ==
  \A i \in DOMAIN frames :
    LET fr == frames[i]
    IN  (Finished(i) /\ JsonAt(i) /\ Len(fr.lifted) = 1 /\ Silent(fr.line.f)
         /\ fr.line.f.ResourceID = NoText /\ fr.line.f.EventCategory = NoText)
        => \A x \in LiftedFields \cup {"ResourceID", "ResourceGroupID", "EventCategory"} :
             fr.res[x] = fr.lifted[1].res[x]

=============================================================================
