----------------------------- MODULE ClaimHandoff -----------------------------
(***************************************************************************)
(* Jira issues that the Hives of an Apiary share: who claims them, and how *)
(* they are handed to another Hive.                                        *)
(*                                                                         *)
(* The Keeper stores claims and handoffs, and answers each request of a    *)
(* member in one transaction (federation.rs, federation_handoffs.rs).  A   *)
(* member writes down what it means to do before it asks the Keeper or     *)
(* Jira (federation_jira_claims.rs, federation_handoff_reconciliation.rs)  *)
(* and takes it phase by phase in passes that nothing keeps apart: one on  *)
(* a timer, one for each announcement and one for each local change        *)
(* (swarm-api/src/lib.rs).  A pass copies the rows it works on when it     *)
(* begins a stage; a row then moves only from the phase the copy has.      *)
(*                                                                         *)
(* Abstracted: time is whether the two minutes of a reservation are over;  *)
(* the delay of a retry is left out, a pass begins whenever it likes; rows *)
(* are taken in any order, not by age; the earlier stages of a pass (the   *)
(* catalog, stewardships, shared tasks) succeed, and the Keeper accepts a  *)
(* member's credentials.                                                   *)
(***************************************************************************)
EXTENDS FiniteSets, Naturals

CONSTANTS
    Hives,          \* the members; the Keeper's own store is not one of them
    Issues,         \* of one promoted project
    Claims,         \* bound: identities of claims
    Handoffs,       \* bound: identities of handoffs
    Passes,         \* bound: passes that may run at once
    HiveOf,         \* the Hive each pass belongs to
    Claimants,      \* bound: <<Hive, issue>> that operators pick
    Offers,         \* bound: <<from, to>> that operators offer and accept
    Persons,        \* bound: assignees that somebody sets in Jira itself
    Refusable,      \* bound: Hives whose account Jira may refuse
    Removable,      \* bound: issues that Jira may no longer show
    MaxFaults,      \* bound: passes cut off, answers lost, changes in Jira
    None

ASSUME HandoffAssumption ==
    /\ HiveOf \in [Passes -> Hives]
    /\ Claimants \subseteq Hives \X Issues
    /\ Offers \subseteq Hives \X Hives
    /\ Refusable \subseteq Hives /\ Removable \subseteq Issues
    /\ MaxFaults \in Nat
    /\ None \notin Hives \union Issues \union Claims

VARIABLES
    claims,         \* apiary_federation_claims
    lapsed,         \* claims whose two minutes are over
    handoffs,       \* apiary_federation_claim_handoffs
    rows,           \* federation_jira_claim_intents, the newest of each issue
    journal,        \* federation_handoff_intents, at the target of each handoff
    imported,       \* issues each Hive has a linked task for
    assignee,       \* whom Jira has each issue assigned to
    refused,        \* Hives whose account Jira refuses
    missing,        \* issues that Jira does not show
    pass,           \* how far each pass is
    assigned,       \* history: issues Jira confirmed as each Hive's operator's
    faults

keeper == <<claims, lapsed, handoffs>>
member == <<rows, journal, imported>>
access == <<refused, missing>>
jira == <<assignee, assigned, access>>
vars == <<keeper, member, jira, pass, faults>>

ClaimPhases == {"queued", "reserved", "jira_assigned", "confirmed"}
HandoffPhases == {"accepted", "jira_assigned", "keeper_confirmed"}

Idle == [step |-> "idle", left |-> {}, job |-> None]

Init ==
    /\ claims = [c \in Claims |-> [state |-> "none", issue |-> None, home |-> None]]
    /\ lapsed = {}
    /\ handoffs = [x \in Handoffs |->
                     [state |-> "none", claim |-> None, source |-> None, target |-> None]]
    /\ rows = [h \in Hives |-> [i \in Issues |->
                [issue |-> i, nth |-> 0, phase |-> "none", claim |-> None]]]
    /\ journal = [x \in Handoffs |-> "none"]
    /\ imported = [h \in Hives |-> {}]
    /\ assignee = [i \in Issues |-> None]
    /\ refused = {} /\ missing = {}
    /\ pass = [p \in Passes |-> Idle]
    /\ assigned = [h \in Hives |-> {}]
    /\ faults = 0

-----------------------------------------------------------------------------
(* A pass of a Hive.                                                       *)

Hive(p) == HiveOf[p]
Job(p) == pass[p].job

End(p) == pass' = [pass EXCEPT ![p] = Idle]
Work(p, step, job) ==
    pass' = [pass EXCEPT ![p] = [step |-> step, left |-> pass[p].left, job |-> job]]

\* One of the jobs of a stage is next.  The pass ends with its last handoff.
Load(p, step, jobs) ==
    \/ \E job \in jobs :
         pass' = [pass EXCEPT ![p] = [step |-> step, left |-> jobs \ {job}, job |-> job]]
    \/ /\ jobs = {}
       /\ IF step = "handoffs" THEN End(p) ELSE Work(p, step, None)

NextJob(p, step) == Load(p, step, pass[p].left)

PendingClaims(h) == {rows[h][i] : i \in {j \in Issues : rows[h][j].phase \in ClaimPhases}}
PendingHandoffs(h, intents) ==
    {[handoff |-> x, phase |-> intents[x]] :
        x \in {y \in Handoffs : handoffs[y].target = h /\ intents[y] \in HandoffPhases}}

BeginPass(p) ==
    /\ pass[p] = Idle
    /\ Load(p, "claims", PendingClaims(Hive(p)))
    /\ UNCHANGED <<keeper, member, jira, faults>>

\* The API restarts, or the Keeper or Jira cannot be reached: what was in hand
\* is retried by a later pass.
GiveUp(p) ==
    /\ pass[p] # Idle
    /\ faults < MaxFaults
    /\ faults' = faults + 1
    /\ End(p)
    /\ UNCHANGED <<keeper, member, jira>>

\* The request was carried out, but its answer never comes.
AnswerLost(p) ==
    /\ faults < MaxFaults
    /\ faults' = faults + 1
    /\ End(p)
    /\ UNCHANGED member

Row(p) == rows[Hive(p)][Job(p).issue]

\* The intent of the job in hand moves on, and the pass' copy with it, if it is
\* still where the pass thinks it is.  If not, the whole pass fails.
Moves(p, row, copy) ==
    IF Row(p).nth = Job(p).nth /\ Row(p).phase = Job(p).phase
      THEN /\ rows' = [rows EXCEPT ![Hive(p)][Job(p).issue] = row]
           /\ IF copy.phase = "complete" THEN NextJob(p, "claims") ELSE Work(p, "claims", copy)
      ELSE End(p) /\ UNCHANGED rows

Advance(p, phase) ==
    Moves(p, [Row(p) EXCEPT !.phase = phase], [Job(p) EXCEPT !.phase = phase])

\* The same, with the claim that it stands for from now on.
AdvanceWith(p, phase, claim) ==
    Moves(p, [Row(p) EXCEPT !.phase = phase, !.claim = claim],
             [Job(p) EXCEPT !.phase = phase, !.claim = claim])

\* An operator has to look at it; this takes it from any unfinished phase.
Attention(p, next) ==
    IF Row(p).nth = Job(p).nth /\ Row(p).phase \in ClaimPhases
      THEN /\ rows' = [rows EXCEPT ![Hive(p)][Job(p).issue].phase = "attention"]
           /\ next
      ELSE End(p) /\ UNCHANGED rows

InHand(p, step, phase) ==
    /\ pass[p].step = step /\ Job(p) # None
    /\ Job(p).phase = phase

-----------------------------------------------------------------------------
(* Claims.                                                                 *)

\* An operator picks an issue from the list of unassigned ones, which may be
\* older than an assignment, for an issue that has no unfinished intent.
QueueClaim(h, i) ==
    /\ <<h, i>> \in Claimants
    /\ rows[h][i].phase \in {"none", "complete"}
    /\ rows[h][i].nth = 0 \/ assignee[i] = None
    /\ rows' = [rows EXCEPT ![h][i] =
                  [issue |-> i, nth |-> @.nth + 1, phase |-> "queued", claim |-> None]]
    /\ UNCHANGED <<keeper, journal, imported, jira, pass, faults>>

\* Two minutes have passed since the claim was reserved.  (Bound: while enough
\* identities are left for what is reserved after it.)
Lapse(c) ==
    /\ claims[c].state # "none"
    /\ claims[c].state = "reserved" =>
         Cardinality({d \in Claims : claims[d].state = "none"}) >= Cardinality(Issues)
    /\ lapsed' = lapsed \union {c}
    /\ UNCHANGED <<claims, handoffs, member, jira, pass, faults>>

Expired(i) ==
    {c \in lapsed : claims[c].issue = i /\ claims[c].state = "reserved"}
ActiveClaims(i) ==
    {c \in Claims \ Expired(i) :
        claims[c].issue = i /\ claims[c].state \in {"reserved", "confirmed"}}
Expire(i) == [c \in Claims |-> IF c \in Expired(i) THEN [claims[c] EXCEPT !.state = "expired"]
                                                   ELSE claims[c]]

\* The Keeper's answer is the active claim, or a new one; only with a new one is
\* the transaction committed that expired the old ones.
Reserve(h, i, c) ==
    \/ /\ c \in ActiveClaims(i)
       /\ claims[c].home = h
       /\ UNCHANGED claims
    \/ /\ ActiveClaims(i) = {}
       /\ \E d \in Claims : claims[d].state = "none"
       /\ c = CHOOSE d \in Claims : claims[d].state = "none"
       /\ claims' = [Expire(i) EXCEPT ![c] = [state |-> "reserved", issue |-> i, home |-> h]]

ReserveClaim(p) ==
    /\ InHand(p, "claims", "queued")
    /\ LET h == Hive(p)
           i == Job(p).issue
       IN  \/ \E c \in Claims :
                /\ Reserve(h, i, c)
                \* Its two minutes may be over although it was confirmed.
                /\ \/ c \notin lapsed /\ AdvanceWith(p, "reserved", c) /\ UNCHANGED faults
                   \/ c \in lapsed /\ End(p) /\ UNCHANGED <<rows, faults>>
                   \/ AnswerLost(p)
           \/ /\ \E c \in ActiveClaims(i) : claims[c].home # h
              /\ Attention(p, NextJob(p, "claims"))
              /\ UNCHANGED <<claims, faults>>
    /\ UNCHANGED <<lapsed, handoffs, journal, imported, jira>>

\* Mistake: a claim whose reservation is over is left where it is.
ResetNothing(p) ==
    /\ InHand(p, "claims", "reserved")
    /\ Job(p).claim \in lapsed
    /\ End(p)
    /\ UNCHANGED <<keeper, member, jira, faults>>

\* The pass goes by the time at which it began, which may be long ago.
ResetExpired(p) ==
    /\ InHand(p, "claims", "reserved")
    /\ Job(p).claim \in lapsed
    /\ Row(p).claim \in lapsed => AdvanceWith(p, "queued", None)
    /\ Row(p).claim \notin lapsed => End(p) /\ UNCHANGED rows
    /\ UNCHANGED <<keeper, journal, imported, jira, faults>>

\* Jira lets this Hive see the issue.
Shows(p, i) == Hive(p) \notin refused /\ i \notin missing

\* An operator has to look at a claim for which Jira refuses the account, which
\* ends the pass, or does not return the issue.
Withheld(p) ==
    \/ Hive(p) \in refused /\ Attention(p, End(p))
    \/ /\ Hive(p) \notin refused /\ Job(p).issue \in missing
       /\ Attention(p, NextJob(p, "claims"))

\* Jira is asked who has the issue, and whose account this is.
ReadIssue(p) ==
    /\ InHand(p, "claims", "reserved")
    /\ LET h == Hive(p)
           i == Job(p).issue
           who == assignee[i]
       IN  \/ /\ Shows(p, i) /\ who = None
              /\ Work(p, "assign", Job(p))
              /\ UNCHANGED <<rows, assigned>>
           \/ /\ Shows(p, i) /\ who = h
              /\ assigned' = [assigned EXCEPT ![h] = @ \union {i}]
              /\ Advance(p, "jira_assigned")
           \/ /\ Shows(p, i) /\ who \notin {None, h}
              /\ Attention(p, NextJob(p, "claims"))
              /\ UNCHANGED assigned
           \/ Withheld(p) /\ UNCHANGED assigned
    /\ UNCHANGED <<keeper, journal, imported, assignee, access, faults>>

\* Mistake: an assignment that was not answered counts as made.
AssignUnanswered(p) ==
    /\ InHand(p, "assign", "reserved")
    /\ \/ /\ assignee' = [assignee EXCEPT ![Job(p).issue] = Hive(p)]
          /\ assigned' = [assigned EXCEPT ![Hive(p)] = @ \union {Job(p).issue}]
       \/ UNCHANGED <<assignee, assigned>>
    /\ Advance(p, "jira_assigned")
    /\ UNCHANGED <<keeper, journal, imported, access, faults>>

\* An issue that is gone by now cannot be assigned, which Jira answers like a
\* refusal.
AssignIssue(p) ==
    /\ InHand(p, "assign", "reserved")
    /\ \/ /\ Shows(p, Job(p).issue)
          /\ assignee' = [assignee EXCEPT ![Job(p).issue] = Hive(p)]
          /\ \/ /\ assigned' = [assigned EXCEPT ![Hive(p)] = @ \union {Job(p).issue}]
                /\ Advance(p, "jira_assigned")
                /\ UNCHANGED faults
             \/ AnswerLost(p) /\ UNCHANGED assigned
       \/ /\ ~Shows(p, Job(p).issue)
          /\ Attention(p, End(p))
          /\ UNCHANGED <<assignee, assigned, faults>>
    /\ UNCHANGED <<keeper, journal, imported, access>>

\* Mistake: whatever the Keeper says, the claim is taken to be confirmed.
ConfirmAnyway(p) ==
    /\ InHand(p, "claims", "jira_assigned")
    /\ LET c == Job(p).claim
       IN  claims' = IF /\ claims[c].home = Hive(p)
                        /\ claims[c].state = "reserved" /\ c \notin lapsed
                     THEN [claims EXCEPT ![c].state = "confirmed"] ELSE claims
    /\ Advance(p, "confirmed")
    /\ UNCHANGED <<lapsed, handoffs, journal, imported, jira, faults>>

ConfirmClaim(p) ==
    /\ InHand(p, "claims", "jira_assigned")
    /\ LET h == Hive(p)
           c == Job(p).claim
           open == claims[c].state = "reserved" /\ c \notin lapsed
       IN  \/ /\ claims[c].home = h
              /\ open \/ claims[c].state = "confirmed"
              /\ claims' = [claims EXCEPT ![c].state = "confirmed"]
              /\ \/ Advance(p, "confirmed") /\ UNCHANGED faults
                 \/ AnswerLost(p)
           \/ /\ claims[c].home = h
              /\ ~open /\ claims[c].state # "confirmed"
              /\ claims' = [claims EXCEPT ![c].state = IF @ = "reserved" THEN "expired" ELSE @]
              /\ \/ Attention(p, End(p)) /\ UNCHANGED faults
                 \/ AnswerLost(p)
           \/ /\ claims[c].home # h
              /\ Attention(p, NextJob(p, "claims"))
              /\ UNCHANGED <<claims, faults>>
    /\ UNCHANGED <<lapsed, handoffs, journal, imported, jira>>

\* The local task is made before the row says so, and making it again is nothing.
ImportClaim(p) ==
    /\ InHand(p, "claims", "confirmed")
    /\ \/ /\ Shows(p, Job(p).issue)
          /\ imported' = [imported EXCEPT ![Hive(p)] = @ \union {Job(p).issue}]
          /\ Advance(p, "complete")
       \/ Withheld(p) /\ UNCHANGED imported
    /\ UNCHANGED <<keeper, journal, jira, faults>>

-----------------------------------------------------------------------------
(* Handoffs at the Keeper.                                                 *)

ActiveHandoffs(c) ==
    {x \in Handoffs : handoffs[x].claim = c /\ handoffs[x].state \in {"offered", "accepted"}}

\* Mistake: a claim may be offered again while somebody has accepted it.
OfferAgain(x, c, to) ==
    /\ claims[c].state = "confirmed"
    /\ <<claims[c].home, to>> \in Offers /\ to # claims[c].home
    /\ \E y \in Handoffs : handoffs[y].state = "none"
    /\ x = CHOOSE y \in Handoffs : handoffs[y].state = "none"
    /\ handoffs' = [handoffs EXCEPT ![x] =
                      [state |-> "offered", claim |-> c, source |-> claims[c].home, target |-> to]]
    /\ UNCHANGED <<claims, lapsed, member, jira, pass, faults>>

Offer(x, c, to) ==
    /\ claims[c].state = "confirmed"
    /\ <<claims[c].home, to>> \in Offers /\ to # claims[c].home
    /\ ActiveHandoffs(c) = {}
    /\ \E y \in Handoffs : handoffs[y].state = "none"
    /\ x = CHOOSE y \in Handoffs : handoffs[y].state = "none"
    /\ handoffs' = [handoffs EXCEPT ![x] =
                      [state |-> "offered", claim |-> c, source |-> claims[c].home, target |-> to]]
    /\ UNCHANGED <<claims, lapsed, member, jira, pass, faults>>

\* The target's answer: the Keeper stores it, then the Hive journals it, unless
\* the answer is lost or the API stops in between.
Accept(x) ==
    /\ handoffs[x].state = "offered"
    /\ handoffs' = [handoffs EXCEPT ![x].state = "accepted"]
    /\ \/ journal' = [journal EXCEPT ![x] = "accepted"] /\ UNCHANGED faults
       \/ /\ faults < MaxFaults /\ faults' = faults + 1
          /\ UNCHANGED journal
    /\ UNCHANGED <<claims, lapsed, rows, imported, jira, pass>>

\* Mistake: an accepted handoff may still be cancelled.
WithdrawAccepted(x) ==
    /\ handoffs[x].state \in {"offered", "accepted"}
    /\ handoffs' = [handoffs EXCEPT ![x].state = "closed"]
    /\ UNCHANGED <<claims, lapsed, member, jira, pass, faults>>

\* Declined by the target or cancelled by the source.
Withdraw(x) ==
    /\ handoffs[x].state = "offered"
    /\ handoffs' = [handoffs EXCEPT ![x].state = "closed"]
    /\ UNCHANGED <<claims, lapsed, member, jira, pass, faults>>

-----------------------------------------------------------------------------
(* Handoffs in a pass, after its claims.                                   *)

Visible(h) ==
    {x \in Handoffs : handoffs[x].state = "accepted" /\ h \in {handoffs[x].source, handoffs[x].target}}

Journaled(new) ==
    [x \in Handoffs |-> IF x \in new /\ journal[x] = "none" THEN "accepted" ELSE journal[x]]

\* The Keeper lists what this Hive offered too.  An accepted handoff of its own
\* cannot be journaled, and what cannot be journaled fails the whole pass.
ListHandoffs(p) ==
    /\ pass[p].step = "claims" /\ Job(p) = None /\ pass[p].left = {}
    /\ LET mine == {x \in Visible(Hive(p)) : handoffs[x].target = Hive(p)}
       IN  \/ /\ mine = Visible(Hive(p))
              /\ journal' = Journaled(mine)
              /\ Load(p, "handoffs", PendingHandoffs(Hive(p), Journaled(mine)))
           \/ /\ mine # Visible(Hive(p))
              /\ \E before \in SUBSET mine : journal' = Journaled(before)
              /\ End(p)
    /\ UNCHANGED <<keeper, rows, imported, jira, faults>>

AdvanceHandoff(p, phase) ==
    LET x == Job(p).handoff
    IN  IF journal[x] = Job(p).phase
          THEN /\ journal' = [journal EXCEPT ![x] = phase]
               /\ IF phase = "complete" THEN NextJob(p, "handoffs")
                  ELSE Work(p, "handoffs", [Job(p) EXCEPT !.phase = phase])
          ELSE End(p) /\ UNCHANGED journal

\* An operator has to look at the handoff in hand, if it is unfinished.
HandoffAttention(p) ==
    LET x == Job(p).handoff
    IN  IF journal[x] \in HandoffPhases
          THEN journal' = [journal EXCEPT ![x] = "attention"] /\ NextJob(p, "handoffs")
          ELSE End(p) /\ UNCHANGED journal

HandedOver(x) == claims[handoffs[x].claim].issue

\* Mistake: a pass goes on to the next handoff when Jira shows no issue.
HandoffWithheldAside(p) ==
    \/ Hive(p) \in refused /\ End(p) /\ UNCHANGED journal
    \/ /\ Hive(p) \notin refused /\ HandedOver(Job(p).handoff) \in missing
       /\ NextJob(p, "handoffs") /\ UNCHANGED journal

\* An issue that Jira does not return asks for an operator.  A refused account
\* fails the pass, and the handoff is tried again for ever.
HandoffWithheld(p) ==
    \/ Hive(p) \in refused /\ End(p) /\ UNCHANGED journal
    \/ /\ Hive(p) \notin refused /\ HandedOver(Job(p).handoff) \in missing
       /\ HandoffAttention(p)

\* Whoever has it now, it is assigned to the target's operator.
AssignHandoff(p) ==
    /\ InHand(p, "handoffs", "accepted")
    /\ LET i == HandedOver(Job(p).handoff)
       IN  \/ /\ Shows(p, i)
              /\ assignee' = [assignee EXCEPT ![i] = Hive(p)]
              /\ \/ /\ assigned' = [assigned EXCEPT ![Hive(p)] = @ \union {i}]
                    /\ AdvanceHandoff(p, "jira_assigned")
                    /\ UNCHANGED faults
                 \/ AnswerLost(p) /\ UNCHANGED assigned
           \/ HandoffWithheld(p) /\ UNCHANGED <<assignee, assigned, faults>>
    /\ UNCHANGED <<keeper, rows, imported, access>>

\* The Keeper moves the home in the transaction that completes the handoff.
Complete(x) ==
    LET c == handoffs[x].claim
    IN  /\ handoffs' = [handoffs EXCEPT ![x].state = "completed"]
        /\ claims' = [claims EXCEPT ![c].home = handoffs[x].target]

ConfirmHandoff(p) ==
    /\ InHand(p, "handoffs", "jira_assigned")
    /\ LET x == Job(p).handoff
           c == handoffs[x].claim
           done == handoffs[x].state = "completed"
           may == /\ handoffs[x].state = "accepted"
                  /\ claims[c].state = "confirmed"
                  /\ claims[c].home = handoffs[x].source
       IN  \/ /\ may \/ done
              /\ may => Complete(x)
              /\ done => UNCHANGED <<claims, handoffs>>
              /\ \/ AdvanceHandoff(p, "keeper_confirmed") /\ UNCHANGED faults
                 \/ AnswerLost(p)
           \/ /\ ~may /\ ~done
              /\ HandoffAttention(p)
              /\ UNCHANGED <<claims, handoffs, faults>>
    /\ UNCHANGED <<lapsed, rows, imported, jira>>

ImportHandoff(p) ==
    /\ InHand(p, "handoffs", "keeper_confirmed")
    /\ LET i == HandedOver(Job(p).handoff)
       IN  \/ /\ Shows(p, i)
              /\ imported' = [imported EXCEPT ![Hive(p)] = @ \union {i}]
              /\ AdvanceHandoff(p, "complete")
           \/ HandoffWithheld(p) /\ UNCHANGED imported
    /\ UNCHANGED <<keeper, rows, jira, faults>>

\* Somebody assigns the issue in Jira itself.
Person(i, who) ==
    /\ assignee[i] # who
    /\ faults < MaxFaults
    /\ faults' = faults + 1
    /\ assignee' = [assignee EXCEPT ![i] = who]
    /\ UNCHANGED <<keeper, member, assigned, access, pass>>

\* Jira begins to refuse an account or to hide an issue, or is set right again.
Withhold ==
    /\ faults < MaxFaults
    /\ faults' = faults + 1
    /\ \/ \E h \in Refusable : refused' = refused \union {h} /\ UNCHANGED missing
       \/ \E i \in Removable : missing' = missing \union {i} /\ UNCHANGED refused
    /\ UNCHANGED <<keeper, member, assignee, assigned, pass>>

SetRight ==
    /\ \/ \E h \in refused : refused' = refused \ {h} /\ UNCHANGED missing
       \/ \E i \in missing : missing' = missing \ {i} /\ UNCHANGED refused
    /\ UNCHANGED <<keeper, member, assignee, assigned, pass, faults>>

-----------------------------------------------------------------------------
ClaimStep(p) ==
    \/ BeginPass(p)
    \/ ReserveClaim(p) \/ ResetExpired(p) \/ ReadIssue(p) \/ AssignIssue(p)
    \/ ConfirmClaim(p) \/ ImportClaim(p)

HandoffStep(p) ==
    \/ ListHandoffs(p)
    \/ AssignHandoff(p) \/ ConfirmHandoff(p) \/ ImportHandoff(p)

Step(p) == ClaimStep(p) \/ HandoffStep(p)

Next ==
    \/ \E p \in Passes : Step(p) \/ GiveUp(p)
    \/ \E h \in Hives, i \in Issues : QueueClaim(h, i)
    \/ \E c \in Claims : Lapse(c)
    \/ \E x \in Handoffs, c \in Claims, to \in Hives : Offer(x, c, to)
    \/ \E x \in Handoffs : Accept(x) \/ Withdraw(x)
    \/ \E i \in Issues, who \in Persons : Person(i, who)
    \/ Withhold \/ SetRight

Spec == Init /\ [][Next]_vars

\* A pass of each Hive begins every minute, and some pass of it goes on.
FairSpec ==
    Spec /\ \A h \in Hives : WF_vars(\E p \in Passes : Hive(p) = h /\ Step(p))

-----------------------------------------------------------------------------
Phases == ClaimPhases \union {"none", "complete", "attention"}
ClaimJobs == [issue : Issues, nth : Nat, phase : ClaimPhases, claim : Claims \union {None}]
HandoffJobs == [handoff : Handoffs, phase : HandoffPhases]
Jobs == ClaimJobs \union HandoffJobs

\* The Keeper's tables, the members' journals and every pass stay within what
\* the schemas and the code allow, and the journal of a handoff is only ever
\* kept where it was accepted.
TypeOK ==
    /\ claims \in [Claims -> [state : {"none", "reserved", "confirmed", "expired"},
                              issue : Issues \union {None}, home : Hives \union {None}]]
    /\ lapsed \subseteq Claims
    /\ handoffs \in [Handoffs ->
          [state : {"none", "offered", "accepted", "completed", "closed"},
           claim : Claims \union {None},
           source : Hives \union {None}, target : Hives \union {None}]]
    /\ rows \in [Hives -> [Issues -> [issue : Issues, nth : Nat, phase : Phases,
                                      claim : Claims \union {None}]]]
    /\ journal \in [Handoffs -> HandoffPhases \union {"none", "complete", "attention"}]
    /\ imported \in [Hives -> SUBSET Issues]
    /\ assigned \in [Hives -> SUBSET Issues]
    /\ assignee \in [Issues -> Hives \union Persons \union {None}]
    /\ refused \subseteq Hives /\ missing \subseteq Issues
    /\ pass \in [Passes -> [step : {"idle", "claims", "assign", "handoffs"},
                            left : SUBSET Jobs, job : Jobs \union {None}]]
    /\ faults \in 0..MaxFaults
    /\ \A x \in Handoffs :
         journal[x] # "none" => handoffs[x].state \in {"accepted", "completed"}

\* A Hive becomes the home of an issue only after Jira said that the issue is
\* its operator's (ADR 0032, "Move the Swarm home before Jira assignment" is
\* rejected), though answers of both are lost and passes overtake each other.
JiraBeforeHome ==
    \A c \in Claims :
        claims[c].state = "confirmed" => claims[c].issue \in assigned[claims[c].home]

\* The home of c is, or was until it handed it over, h.
WasHome(h, c) ==
    /\ claims[c].state = "confirmed"
    /\ \/ claims[c].home = h
       \/ \E x \in Handoffs : /\ handoffs[x].state = "completed"
                              /\ handoffs[x].claim = c /\ handoffs[x].source = h

\* A Hive has a task for a shared issue only if the Keeper made it the home of
\* that issue (ADR 0027: no import "merely because one HTTP response was lost").
ImportedWasHome ==
    \A h \in Hives : \A i \in imported[h] :
        \E c \in Claims : claims[c].issue = i /\ WasHome(h, c)

\* What the tables of the Keeper say of each issue.
Owning(i) == {c \in Claims : claims[c].issue = i /\ claims[c].state = "confirmed"}
Leaving(i) == {x \in Handoffs : handoffs[x].state = "accepted" /\ handoffs[x].claim \in Owning(i)}

HomeOf == [i \in Issues |-> IF Owning(i) = {} THEN None
                            ELSE claims[CHOOSE c \in Owning(i) : TRUE].home]
HeirOf == [i \in Issues |-> IF Leaving(i) = {} THEN None
                            ELSE handoffs[CHOOSE x \in Leaving(i) : TRUE].target]

Promise == INSTANCE SharedHome WITH home <- HomeOf, heir <- HeirOf

\* Reservations, journals and lost answers come down to the promise: a home is
\* never lost and never anybody's but the heir's, and an heir stays the heir.
KeepsHome == Promise!Spec

\* The Hive was handed an issue that it still means to claim: the Keeper answers
\* with a claim whose two minutes are over, and no pass gets beyond that.
Unclaimable(h, i) == rows[h][i].phase = "queued" /\ HomeOf[i] = h

\* Every other claim is carried to its end, or to an operator, whatever outage
\* and whichever other pass comes in between (ADR 0027, exact retries resume).
ClaimsEnd ==
    \A h \in Hives, i \in Issues :
        rows[h][i].phase = "queued"
          ~> rows[h][i].phase \in {"complete", "attention"} \/ Unclaimable(h, i)

\* Accepted at the Keeper and nobody asked, or in the target's journal.
Unfinished(x) ==
    \/ handoffs[x].state = "accepted" /\ journal[x] # "attention"
    \/ journal[x] \in HandoffPhases

\* An accepted handoff reaches its target, whatever outage and whichever other
\* pass comes in between, while Jira does not refuse the target's account.  It
\* asks for an operator only when Jira does not show the issue (lib.rs:10387,
\* 10477), and it may be stuck behind a claim of that kind of the target.  (With
\* handoffs in one direction: see AcceptedFinishes.)
HandoffsEnd ==
    \A x \in Handoffs :
        Unfinished(x)
          ~> \/ journal[x] = "complete"
             \/ journal[x] = "attention" /\ HandedOver(x) \in missing
             \/ handoffs[x].target \in refused
             \/ \E h \in Hives, i \in Issues : handoffs[x].target = h /\ Unclaimable(h, i)

\* An accepted handoff finishes or asks for an operator (ADR 0032, "An accepted
\* handoff that cannot finish requires operator attention").
AcceptedFinishes ==
    \A x \in Handoffs :
        handoffs[x].state = "accepted" ~> journal[x] \in {"complete", "attention"}
=============================================================================
