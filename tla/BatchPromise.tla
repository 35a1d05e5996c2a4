---------------------------- MODULE BatchPromise ----------------------------
(* What one crawl of every source promises: the enabled sources of the       *)
(* settings and then the roster's sites are asked in their order, each once; *)
(* each answers with different pages, at most its limit, or is reported as   *)
(* failed; and it ends when all of them were asked, the roster, which may be *)
(* unreadable, as a whole or not at all.  It raises only without a source.   *)
EXTENDS Naturals, Sequences

CONSTANTS
  Pages,
  Asked,    \* of each batch: the names and limits of its sources and of its
            \* roster's sites, and the limit that holds without any source
  Failed    \* the count of a source that failed

VARIABLES
  batch,
  reports,  \* name and count of each that was asked
  items,    \* the pages they answered with
  noted,    \* the sites of the roster noted as crawled
  status    \* "open", "done" or "raised"

pledgeVars == <<batch, reports, items, noted, status>>

\* The lists of different pages, at most so many.
Harvest(limit) ==
  {got \in UNION {[1..n -> Pages] : n \in 0..limit} :
     \A i, j \in DOMAIN got : got[i] = got[j] => i = j}

Sources == Asked[batch].sources
Roster  == Asked[batch].roster
OfRoster == Len(reports) >= Len(Sources)
Turn == LET n == Len(reports) + 1
        IN  IF OfRoster THEN Roster[n - Len(Sources)] ELSE Sources[n]

Init ==
  /\ reports = <<>> /\ items = <<>> /\ noted = {}
  /\ status = "open"

\* One more of them is asked.
AskNext ==
  /\ status = "open" /\ Len(reports) < Len(Sources) + Len(Roster)
  /\ Len(reports') = Len(reports) + 1
  /\ UNCHANGED <<batch, status>>

Answer ==
  /\ AskNext
  /\ \E got \in Harvest(Turn.limit) :
       /\ reports' = Append(reports, [name |-> Turn.name, count |-> Len(got)])
       /\ items' = items \o got
  /\ noted' = noted \/ (OfRoster /\ noted' = noted \cup {Turn.name})

Fail ==
  /\ AskNext
  /\ reports' = Append(reports, [name |-> Turn.name, count |-> Failed])
  /\ UNCHANGED <<items, noted>>

\* No source is enabled: one crawl of the base alone, which may raise.
Unasked == status = "open" /\ Sources = <<>> /\ reports = <<>> /\ items = <<>>

Alone ==
  /\ Unasked
  /\ items' \in Harvest(Asked[batch].alone)
  /\ UNCHANGED <<batch, reports, noted, status>>

Raise ==
  /\ status' = "raised"
  /\ Unasked
  /\ UNCHANGED <<batch, reports, items, noted>>

End ==
  /\ status' = "done"
  /\ status = "open" /\ Len(reports) \in {Len(Sources), Len(Sources) + Len(Roster)}
  /\ UNCHANGED <<batch, reports, items, noted>>

Next == Answer \/ Fail \/ Alone \/ Raise \/ End

Spec == Init /\ [][Next]_pledgeVars
=============================================================================
