---------------------------- MODULE MessageDelivery ----------------------------
(***************************************************************************)
(* Messages about tasks, written into workers' terminals.                  *)
(*                                                                         *)
(* A message and its delivery row are stored together (message_delivery.rs, *)
(* ADR 0067).  One pass at a time, under the delivery lock, claims what is *)
(* queued, groups it by terminal and submits the groups side by side       *)
(* (coordination_delivery.rs): it looks at the screen, writes the text,    *)
(* waits until it is drawn, presses Enter up to three times, and looks     *)
(* whether the provider took it.  The results are stored once every group  *)
(* has one.  Nothing tells whether a request that was not answered in ten  *)
(* seconds still arrives, so what is in doubt is left to Queen.            *)
(*                                                                         *)
(* Abstracted: the operator's engagement stands for every hold (cooldown,  *)
(* presence policy, other active work); fewer messages wait than one pass  *)
(* claims; a screen shows what the prompt holds, though a folded paste may *)
(* hide whose text it is; a turn begins only when a prompt is submitted.   *)
(***************************************************************************)
EXTENDS FiniteSets, Naturals

CONSTANTS
    Messages,       \* numbered in the order they are sent
    Workers,
    To,             \* whom each message is for
    Reviews,        \* bound: the review requests, which may be superseded
    Closable,       \* bound: the messages whose task may close
    Engaged,        \* bound: the terminals an operator uses
    Enters,         \* how often Enter is pressed before it is given up (3)
    MaxRetries,     \* bound: retries Queen asks for, of each message
    MaxFaults       \* bound: passes cut off, results not stored, reads that fail

ASSUME DeliveryAssumption ==
    /\ Messages \subseteq Nat
    /\ To \in [Messages -> Workers]
    /\ Reviews \subseteq Messages /\ Closable \subseteq Messages
    /\ Engaged \subseteq Workers
    /\ Enters \in Nat \ {0}
    /\ MaxRetries \in [Messages -> Nat] /\ MaxFaults \in Nat

VARIABLES
    rows,       \* task_message_deliveries
    closed,     \* messages whose task is finished
    noticed,    \* the claim Queen saw of each message in doubt, or 0
    pass,       \* how far the pass that holds the delivery lock is
    job,        \* its group for each terminal
    terminal,   \* what each worker's terminal shows and who has it
    stray,      \* requests to a terminal that nobody waits for any more
    written,    \* history: how often each text reached a prompt
    taken,      \* history: messages a provider has taken
    retried,    \* history: how often Queen asked for a retry
    faults

store == <<rows, closed, noticed, retried>>
work == <<pass, job>>
screen == <<terminal, stray, written, taken>>
vars == <<store, work, screen, faults>>

Doubtful == {"uncertain", "rejected"}
States == {"unsent", "queued", "dispatching", "delivered", "cancelled", "resolved"}
          \union Doubtful
Results == {"delivered", "queued", "uncertain", "rejected"}

(* claim: which of the claims that ended in doubt; the code draws a fresh  *)
(* identity for every claim, and only those that ended so are compared.    *)
Rows == [state : States, superseded : BOOLEAN, claim : Nat]

Stages == {"none", "check", "baseline", "writing", "render", "entering", "look", "settled"}
(* gone: the session the group was claimed for has ended.                  *)
NoJob == [at |-> "none", group |-> {}, enters |-> Enters, gone |-> FALSE, result |-> "queued"]
Jobs == [at : Stages, group : SUBSET Messages, enters : 1..Enters, gone : BOOLEAN,
         result : Results]

(* open: coordination's text that waits in the prompt; held: the operator  *)
(* has control, or a draft of somebody else's is in the prompt.            *)
Blank == [up |-> TRUE, held |-> FALSE, busy |-> FALSE, open |-> {}]
Terminals == [up : BOOLEAN, held : BOOLEAN, busy : BOOLEAN, open : SUBSET Messages]
Strays == [text : SUBSET Messages, enter : BOOLEAN]
NoStray == [text |-> {}, enter |-> FALSE]

(* The marker of a group is the identity of its first message.             *)
Marker(group) == CHOOSE m \in group : \A n \in group : m <= n

Init ==
    /\ rows = [m \in Messages |-> [state |-> "unsent", superseded |-> FALSE, claim |-> 0]]
    /\ closed = {} /\ noticed = [m \in Messages |-> 0]
    /\ pass = "idle" /\ job = [w \in Workers |-> NoJob]
    /\ terminal = [w \in Workers |-> Blank] /\ stray = [w \in Workers |-> NoStray]
    /\ written = [m \in Messages |-> 0] /\ taken = {}
    /\ retried = [m \in Messages |-> 0] /\ faults = 0

-----------------------------------------------------------------------------
(* The queue.                                                              *)

(* insert_task_message.                                                    *)
Send(m) ==
    /\ rows[m].state = "unsent"
    /\ \A n \in Messages : n < m => rows[n].state # "unsent"
    /\ rows' = [rows EXCEPT ![m].state = "queued"]
    /\ UNCHANGED <<closed, noticed, retried, work, screen, faults>>

(* cancel_queued_review: bytes in flight cannot be recalled.               *)
Superseded(row) ==
    [row EXCEPT !.state = IF row.state = "queued" THEN "cancelled" ELSE row.state,
                !.superseded = TRUE]

Supersede(m) ==
    /\ m \in Reviews
    /\ rows[m].state \in {"queued", "dispatching"} \union Doubtful
    /\ rows' = [rows EXCEPT ![m] = Superseded(rows[m])]
    /\ UNCHANGED <<closed, noticed, retried, work, screen, faults>>

(* The task is completed, abandoned or removed.                            *)
Close(m) ==
    /\ m \in Closable \ closed
    /\ closed' = closed \union {m}
    /\ UNCHANGED <<rows, noticed, retried, work, screen, faults>>

(* Queen reads what needs reconciliation (task_message_attention) ...      *)
Notice(m) ==
    /\ rows[m].state \in Doubtful
    /\ noticed' = [noticed EXCEPT ![m] = rows[m].claim]
    /\ noticed' # noticed
    /\ UNCHANGED <<rows, closed, retried, work, screen, faults>>

(* ... and later retries it or closes it, if it is still the claim she saw *)
(* (reconcile_task_message).                                               *)
Reconcile(m, retry) ==
    /\ noticed[m] # 0
    /\ noticed' = [noticed EXCEPT ![m] = 0]
    /\ IF /\ rows[m].claim = noticed[m]
          /\ rows[m].state \in Doubtful
          /\ retry => ~rows[m].superseded
       THEN /\ rows' = [rows EXCEPT ![m].state = IF retry THEN "queued" ELSE "resolved"]
            /\ retry => retried[m] < MaxRetries[m]
            /\ retried' = IF retry THEN [retried EXCEPT ![m] = @ + 1] ELSE retried
       ELSE UNCHANGED <<rows, retried>>
    /\ UNCHANGED <<closed, work, screen, faults>>

\* Mistake: every claim that ends is taken for one Queen must look at.
FinishedInDoubt(row, result) ==
    [row EXCEPT !.state = IF result = "queued" /\ row.superseded THEN "cancelled" ELSE result,
                !.claim = @ + 1]

\* Mistake: a deferral forgets that the message was superseded meanwhile.
FinishedAnyway(row, result) ==
    [row EXCEPT !.state = result, !.claim = IF result \in Doubtful THEN @ + 1 ELSE @]

(* What a row becomes with a result (finish_task_message): a deferral of   *)
(* what has been superseded cancels it.                                    *)
Finished(row, result) ==
    [row EXCEPT !.state = IF result = "queued" /\ row.superseded THEN "cancelled" ELSE result,
                !.claim = IF result \in Doubtful THEN @ + 1 ELSE @]

-----------------------------------------------------------------------------
(* The pass.                                                               *)

\* Mistake: what a pass that was cut off had claimed is left as it is.
RecoverNothing ==
    /\ pass = "idle"
    /\ pass' = "claiming"
    /\ UNCHANGED <<store, job, screen, faults>>

(* recover_task_message_claims: holding the lock, no other pass can still  *)
(* be submitting what is marked as dispatching.                            *)
Recover ==
    /\ pass = "idle"
    /\ pass' = "claiming"
    /\ rows' = [m \in Messages |-> IF rows[m].state = "dispatching"
                                   THEN Finished(rows[m], "uncertain") ELSE rows[m]]
    /\ UNCHANGED <<closed, noticed, retried, job, screen, faults>>

\* Mistake: a message waits for the ones before it, also for those in doubt.
ClaimableInOrder(w) ==
    {m \in Messages \ closed :
        /\ rows[m].state = "queued" /\ To[m] = w /\ terminal[w].up
        /\ \A n \in Messages : n < m => rows[n].state \in {"delivered", "cancelled", "resolved", "queued"}}

(* claim_task_messages, and the groups by terminal.  What can never arrive *)
(* is cancelled first.                                                     *)
Claimable(w) ==
    {m \in Messages \ closed : rows[m].state = "queued" /\ To[m] = w /\ terminal[w].up}

Claim ==
    /\ pass = "claiming"
    /\ pass' = "submitting"
    /\ job' = [w \in Workers |->
                  IF Claimable(w) = {} THEN NoJob
                  ELSE [NoJob EXCEPT !.at = "check", !.group = Claimable(w)]]
    /\ rows' = [m \in Messages |->
                  IF rows[m].state # "queued" THEN rows[m]
                  ELSE IF m \in closed THEN [rows[m] EXCEPT !.state = "cancelled"]
                  ELSE IF m \in Claimable(To[m]) THEN [rows[m] EXCEPT !.state = "dispatching"]
                  ELSE rows[m]]
    /\ UNCHANGED <<closed, noticed, retried, screen, faults>>

Goes(w, stage) == job' = [job EXCEPT ![w].at = stage]
Settles(w, result) == job' = [job EXCEPT ![w].at = "settled", ![w].result = result]

(* task_message_claim_can_submit of every member.                          *)
CanSubmit(w) ==
    /\ terminal[w].up /\ ~terminal[w].held /\ ~job[w].gone
    /\ \A m \in job[w].group : rows[m].state = "dispatching" /\ ~rows[m].superseded

Check(w) ==
    /\ job[w].at = "check"
    /\ IF CanSubmit(w) THEN Goes(w, "baseline") ELSE Settles(w, "queued")
    /\ UNCHANGED <<store, pass, screen, faults>>

(* delivery_baseline: only an empty resting prompt is written to.  One     *)
(* that holds the group's marker is only submitted.                        *)
Ours(w) == Marker(job[w].group) \in terminal[w].open
Occupied(w) == terminal[w].open # {}

Baseline(w) ==
    /\ job[w].at = "baseline"
    /\ CASE job[w].gone -> Settles(w, "rejected")
         [] ~job[w].gone /\ terminal[w].busy -> Settles(w, "queued")
         [] ~job[w].gone /\ ~terminal[w].busy /\ Ours(w) ->
               Goes(w, "entering") \/ Settles(w, "queued")
         [] ~job[w].gone /\ ~terminal[w].busy /\ ~Ours(w) /\ Occupied(w) -> Settles(w, "queued")
         [] OTHER -> Goes(w, "writing")
    /\ UNCHANGED <<store, pass, screen, faults>>

(* The evidence or the screen cannot be read, or not in ten seconds.       *)
ReadFails(w) ==
    /\ faults < MaxFaults
    /\ \/ job[w].at = "check" /\ Settles(w, "rejected")
       \/ job[w].at = "baseline" /\ \E result \in {"queued", "uncertain"} : Settles(w, result)
    /\ faults' = faults + 1
    /\ UNCHANGED <<store, pass, screen>>

(* The engine answers the write: refused while the operator has control.   *)
WriteAnswered(w) ==
    /\ job[w].at = "writing"
    /\ IF job[w].gone \/ terminal[w].held
       THEN /\ Settles(w, IF job[w].gone THEN "rejected" ELSE "queued")
            /\ UNCHANGED screen
       ELSE /\ Goes(w, "render")
            /\ terminal' = [terminal EXCEPT ![w].open = @ \union job[w].group]
            /\ written' = [m \in Messages |-> IF m \in job[w].group THEN written[m] + 1 ELSE written[m]]
            /\ UNCHANGED <<stray, taken>>
    /\ UNCHANGED <<store, pass, faults>>

(* What an unanswered request leaves behind: it never arrives, or it will  *)
(* (bound: one stray text and one stray Enter per terminal).               *)
LeftBehind(w) ==
    CASE job[w].gone -> {stray[w]}
      [] ~job[w].gone /\ job[w].at = "writing" /\ stray[w].text = {} ->
            {stray[w], [stray[w] EXCEPT !.text = job[w].group]}
      [] ~job[w].gone /\ job[w].at = "entering" -> {stray[w], [stray[w] EXCEPT !.enter = TRUE]}
      [] OTHER -> {stray[w]}

\* Mistake: a write that was not answered is taken for one that did not arrive.
UnansweredDefers(w) ==
    /\ job[w].at \in {"writing", "entering"}
    /\ \E left \in LeftBehind(w) : stray' = [stray EXCEPT ![w] = left]
    /\ Settles(w, "queued")
    /\ UNCHANGED <<store, pass, terminal, written, taken, faults>>

(* Ten seconds pass, or the connection fails.                              *)
Unanswered(w) ==
    /\ job[w].at \in {"writing", "entering"}
    /\ \E left \in LeftBehind(w) : stray' = [stray EXCEPT ![w] = left]
    /\ Settles(w, "uncertain")
    /\ UNCHANGED <<store, pass, terminal, written, taken, faults>>

(* observe_stable_marker: the marker shows, in the prompt or above it.     *)
Render(w) ==
    /\ job[w].at = "render"
    /\ \/ ~job[w].gone /\ Goes(w, "entering")
       \/ job[w].gone /\ Settles(w, "rejected")
       \/ Settles(w, "uncertain")
    /\ UNCHANGED <<store, pass, screen, faults>>

(* What the prompt holds is submitted and becomes a turn.                  *)
Submitted(w) ==
    /\ terminal' = [terminal EXCEPT ![w].open = {}, ![w].busy = @ \/ Occupied(w)]
    /\ taken' = taken \union terminal[w].open
    /\ UNCHANGED <<stray, written>>

(* The engine answers Enter; a provider that is still drawing swallows it. *)
EnterAnswered(w) ==
    /\ job[w].at = "entering"
    /\ IF job[w].gone \/ terminal[w].held
       THEN Settles(w, "uncertain") /\ UNCHANGED screen
       ELSE Goes(w, "look") /\ (Submitted(w) \/ UNCHANGED screen)
    /\ UNCHANGED <<store, pass, faults>>

(* observe_terminal_submission, and the retries of submit_rendered_message. *)
Look(w) ==
    /\ job[w].at = "look"
    /\ \/ Settles(w, "uncertain")
       \/ /\ ~job[w].gone
          /\ terminal[w].busy \/ ~Ours(w)
          /\ Settles(w, "delivered")
       \/ /\ ~job[w].gone /\ ~terminal[w].busy
          /\ job[w].enters > 1
          /\ job' = [job EXCEPT ![w].at = "entering", ![w].enters = @ - 1]
    /\ UNCHANGED <<store, pass, screen, faults>>

AllSettled == pass = "submitting" /\ \A w \in Workers : job[w].at \in {"none", "settled"}

Unlisted(m) ==
    LET rest == job[To[m]].group \ {m}
    IN  job' = [job EXCEPT ![To[m]] = IF rest = {} THEN NoJob
                                      ELSE [job[To[m]] EXCEPT !.group = rest]]

(* finish_task_message, for each member of each group; it may fail.        *)
Finish(m) ==
    /\ AllSettled
    /\ m \in job[To[m]].group
    /\ rows' = IF rows[m].state = "dispatching"
               THEN [rows EXCEPT ![m] = Finished(rows[m], job[To[m]].result)] ELSE rows
    /\ Unlisted(m)
    /\ UNCHANGED <<closed, noticed, retried, pass, screen, faults>>

FinishFails(m) ==
    /\ AllSettled
    /\ m \in job[To[m]].group
    /\ faults < MaxFaults
    /\ faults' = faults + 1
    /\ Unlisted(m)
    /\ UNCHANGED <<store, pass, screen>>

EndPass ==
    /\ pass = "submitting" /\ \A w \in Workers : job[w].at = "none"
    /\ pass' = "idle"
    /\ UNCHANGED <<store, job, screen, faults>>

(* The API restarts, or whoever awaited the pass gave up: its requests to  *)
(* the engine may still arrive.                                            *)
CutOff ==
    /\ pass # "idle"
    /\ faults < MaxFaults
    /\ faults' = faults + 1
    /\ pass' = "idle" /\ job' = [w \in Workers |-> NoJob]
    /\ stray' \in {s \in [Workers -> Strays] : \A w \in Workers : s[w] \in LeftBehind(w)}
    /\ UNCHANGED <<store, terminal, written, taken>>

-----------------------------------------------------------------------------
(* The terminals.                                                          *)

(* A request nobody waits for is carried out.                              *)
StrayText(w) ==
    /\ stray[w].text # {}
    /\ stray' = [stray EXCEPT ![w].text = {}]
    /\ IF terminal[w].held THEN UNCHANGED <<terminal, written>>
       ELSE /\ terminal' = [terminal EXCEPT ![w].open = @ \union stray[w].text]
            /\ written' = [m \in Messages |-> IF m \in stray[w].text THEN written[m] + 1 ELSE written[m]]
    /\ UNCHANGED <<store, work, taken, faults>>

StrayEnter(w) ==
    /\ stray[w].enter
    /\ stray' = [stray EXCEPT ![w].enter = FALSE]
    /\ IF terminal[w].held THEN UNCHANGED <<terminal, taken>>
       ELSE /\ terminal' = [terminal EXCEPT ![w].open = {}, ![w].busy = @ \/ Occupied(w)]
            /\ taken' = taken \union terminal[w].open
    /\ UNCHANGED <<store, work, written, faults>>

(* The operator takes the terminal, submits and lets it go.                *)
Operator(w) ==
    /\ w \in Engaged /\ terminal[w].up
    /\ \/ /\ terminal' = [terminal EXCEPT ![w].held = ~@]
          /\ UNCHANGED taken
       \/ /\ terminal[w].held
          /\ terminal' = [terminal EXCEPT ![w].open = {}, ![w].busy = TRUE]
          /\ taken' = taken \union terminal[w].open
    /\ UNCHANGED <<store, work, stray, written, faults>>

TurnEnds(w) ==
    /\ terminal[w].busy
    /\ terminal' = [terminal EXCEPT ![w].busy = FALSE]
    /\ UNCHANGED <<store, work, stray, written, taken, faults>>

(* The session ends, and what was in its prompt or on the way with it.     *)
Exit(w) ==
    /\ terminal[w].up
    /\ terminal' = [terminal EXCEPT ![w] = [Blank EXCEPT !.up = FALSE]]
    /\ stray' = [stray EXCEPT ![w] = NoStray]
    /\ job' = [job EXCEPT ![w].gone = @ \/ job[w].at # "none"]
    /\ UNCHANGED <<store, pass, written, taken, faults>>

Start(w) ==
    /\ ~terminal[w].up
    /\ terminal' = [terminal EXCEPT ![w] = Blank]
    /\ UNCHANGED <<store, work, stray, written, taken, faults>>

-----------------------------------------------------------------------------
Submitting(w) ==
    \/ Check(w) \/ Baseline(w) \/ WriteAnswered(w) \/ Unanswered(w)
    \/ Render(w) \/ EnterAnswered(w) \/ Look(w)

Next ==
    \/ \E m \in Messages :
        \/ Send(m) \/ Supersede(m) \/ Close(m) \/ Notice(m)
        \/ \E retry \in BOOLEAN : Reconcile(m, retry)
        \/ Finish(m) \/ FinishFails(m)
    \/ Recover \/ Claim \/ EndPass \/ CutOff
    \/ \E w \in Workers :
        \/ Submitting(w) \/ ReadFails(w)
        \/ StrayText(w) \/ StrayEnter(w)
        \/ Operator(w) \/ TurnEnds(w) \/ Exit(w) \/ Start(w)

(* The coordination tick starts a pass again and again, and every wait in  *)
(* a pass has a timeout.                                                   *)
Fairness ==
    /\ WF_vars(Recover) /\ WF_vars(Claim) /\ WF_vars(EndPass)
    /\ \A w \in Workers : WF_vars(Submitting(w))
    /\ \A m \in Messages : WF_vars(Finish(m))

Spec == Init /\ [][Next]_vars /\ Fairness

-----------------------------------------------------------------------------
(* Properties.                                                             *)

(* Every variable keeps its type, and a group holds what is for its        *)
(* terminal.                                                               *)
TypeOK ==
    /\ rows \in [Messages -> Rows]
    /\ closed \subseteq Messages
    /\ noticed \in [Messages -> Nat]
    /\ \A m \in Messages : rows[m].claim <= retried[m] + 1 /\ noticed[m] <= rows[m].claim
    /\ pass \in {"idle", "claiming", "submitting"}
    /\ job \in [Workers -> Jobs]
    /\ \A w \in Workers : \A m \in job[w].group : To[m] = w
    /\ terminal \in [Workers -> Terminals]
    /\ stray \in [Workers -> Strays]
    /\ written \in [Messages -> Nat]
    /\ taken \subseteq Messages
    /\ retried \in [Messages -> Nat] /\ \A m \in Messages : retried[m] <= MaxRetries[m]
    /\ faults \in 0..MaxFaults

(* A text is written again only when Queen asked for it: not after a       *)
(* restart, a lost answer, a result that was not stored or a write that    *)
(* arrives late (ADR 0067: ambiguity is never an automatic retry).         *)
NoUnaskedReplay == \A m \in Messages : written[m] <= 1 + retried[m]

(* What was superseded is never queued again, whether it was queued, being *)
(* written or in doubt when it happened.                                   *)
SupersededStays == \A m \in Messages : rows[m].superseded => rows[m].state # "queued"

(* No claim is stranded: also one whose pass was cut off, or whose result  *)
(* could not be stored, comes out of dispatching.                          *)
ClaimsEnd ==
    \A m \in Messages : rows[m].state = "dispatching" ~> rows[m].state # "dispatching"

(* No message waits for ever for a terminal that is free.                  *)
Free(w) == terminal[w].up /\ ~terminal[w].held /\ ~terminal[w].busy /\ ~Occupied(w)
FreeGetsMessages ==
    \A m \in Messages : []<>~(rows[m].state = "queued" /\ Free(To[m]))

(* What is recorded as delivered was taken by a provider.  The code does   *)
(* not keep this: a prompt that still holds an earlier, unsent message is  *)
(* submitted for a group that has grown since.                             *)
DeliveredWasTaken == \A m \in Messages : rows[m].state = "delivered" => m \in taken
=============================================================================
