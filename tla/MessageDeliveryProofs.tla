------------------------- MODULE MessageDeliveryProofs -------------------------
(***************************************************************************)
(* Proofs that MessageDelivery writes no text again unless Queen asked for *)
(* it, for any messages, workers, terminals, retries and faults.           *)
(*                                                                         *)
(* A text may be written once, and once more for each retry.  Such a       *)
(* permit is held by the queued row, then by the job up to the write, then *)
(* perhaps by a request that was left behind; every step hands it on,      *)
(* spends it or loses it, and only a retry adds one.                       *)
(***************************************************************************)
EXTENDS MessageDelivery, TLAPS

BeforeWrite(j) ==
    \/ j.at \in {"check", "baseline", "writing"}
    \/ j.at = "settled" /\ j.result = "queued"

MayWrite(m) ==
    \/ rows[m].state \in {"unsent", "queued"}
    \/ m \in job[To[m]].group /\ BeforeWrite(job[To[m]])

Left(m) == m \in stray[To[m]].text

Permits ==
    \A m \in Messages :
        /\ written[m] <= 1 + retried[m]
        /\ MayWrite(m) \/ Left(m) => written[m] <= retried[m]
        /\ MayWrite(m) /\ Left(m) => written[m] < retried[m]

(* A group holds claimed messages of its terminal, and only during a pass. *)
GroupsClaimed ==
    /\ \A w \in Workers :
        /\ job[w].at = "none" => job[w].group = {}
        /\ pass # "submitting" => job[w].at = "none"
        /\ \A m \in job[w].group : rows[m].state = "dispatching" /\ To[m] = w

StraysAddressed == \A w \in Workers : \A m \in stray[w].text : To[m] = w

(* A message that has not ended in doubt since its last retry has had no   *)
(* more doubtful claims than retries.                                      *)
ClaimsCounted ==
    \A m \in Messages :
        rows[m].state \in {"unsent", "queued", "dispatching"} => rows[m].claim <= retried[m]

SupersededEnds ==
    \A m \in Messages : rows[m].superseded => rows[m].state \notin {"unsent", "queued"}

Inv ==
    /\ TypeOK /\ GroupsClaimed /\ StraysAddressed
    /\ ClaimsCounted /\ SupersededEnds /\ Permits

-----------------------------------------------------------------------------
(* What a step can do with the permit of one message.                      *)

Same(m) == written'[m] = written[m] /\ retried'[m] = retried[m]

Loses(m) == Same(m) /\ (MayWrite(m)' => MayWrite(m)) /\ (Left(m)' => Left(m))
HandsOn(m) == Same(m) /\ MayWrite(m) /\ ~MayWrite(m)' /\ ~Left(m)
Writes(m) ==
    /\ retried'[m] = retried[m] /\ written'[m] = written[m] + 1
    /\ MayWrite(m) /\ ~MayWrite(m)' /\ (Left(m)' => Left(m))
Lands(m) ==
    /\ retried'[m] = retried[m] /\ written'[m] = written[m] + 1
    /\ Left(m) /\ ~Left(m)' /\ (MayWrite(m)' => MayWrite(m))
Retries(m) ==
    /\ retried'[m] = retried[m] + 1 /\ written'[m] = written[m]
    /\ ~MayWrite(m) /\ (Left(m)' => Left(m))

LEMMA PermitsKept ==
    ASSUME Permits, written \in [Messages -> Nat], retried \in [Messages -> Nat],
           \A m \in Messages : Loses(m) \/ HandsOn(m) \/ Writes(m) \/ Lands(m) \/ Retries(m)
    PROVE  Permits'
<1> SUFFICES ASSUME NEW m \in Messages
    PROVE  /\ written'[m] <= 1 + retried'[m]
           /\ MayWrite(m)' \/ Left(m)' => written'[m] <= retried'[m]
           /\ MayWrite(m)' /\ Left(m)' => written'[m] < retried'[m]
  BY DEF Permits
<1>1. /\ written[m] \in Nat /\ retried[m] \in Nat
      /\ written[m] <= 1 + retried[m]
      /\ MayWrite(m) \/ Left(m) => written[m] <= retried[m]
      /\ MayWrite(m) /\ Left(m) => written[m] < retried[m]
  BY DEF Permits
<1> QED BY <1>1 DEF Loses, HandsOn, Writes, Lands, Retries, Same

-----------------------------------------------------------------------------
(* A job that goes on, alone.                                              *)

OthersStay(w) == \A v \in Workers \ {w} : job'[v] = job[v]

JobStep(w) ==
    /\ job' \in [Workers -> Jobs] /\ OthersStay(w)
    /\ job'[w].group = job[w].group
    /\ job[w].at # "none" /\ job'[w].at # "none"

LEMMA Gone ==
    ASSUME job \in [Workers -> Jobs], NEW w \in Workers, NEW stage \in Stages \ {"none"},
           job[w].at # "none", Goes(w, stage)
    PROVE  JobStep(w) /\ job'[w].at = stage
BY DEF Goes, JobStep, OthersStay, Jobs

LEMMA Settled ==
    ASSUME job \in [Workers -> Jobs], NEW w \in Workers, NEW result \in Results,
           job[w].at # "none", Settles(w, result)
    PROVE  JobStep(w) /\ job'[w].at = "settled" /\ job'[w].result = result
BY DEF Goes, Settles, JobStep, OthersStay, Jobs, Stages

(* The group, and with it the rows it claims, is the same after the step.  *)
LEMMA GroupsStay ==
    ASSUME Inv, NEW w \in Workers, JobStep(w), UNCHANGED <<rows, pass>>
    PROVE  GroupsClaimed' /\ \A m \in Messages : job'[To[m]].group = job[To[m]].group
<1>1. \A v \in Workers : job'[v].group = job[v].group /\ (job'[v].at = "none" <=> job[v].at = "none")
  BY DEF JobStep, OthersStay
<1> QED BY <1>1, DeliveryAssumption DEF Inv, GroupsClaimed, JobStep

(* A step of a job that neither writes nor leaves a request behind.        *)
Quiet(w) ==
    /\ JobStep(w) /\ (BeforeWrite(job'[w]) => BeforeWrite(job[w]))
    /\ UNCHANGED <<rows, closed, noticed, retried, pass, written>>
    /\ terminal' \in [Workers -> Terminals] /\ taken' \subseteq Messages
    /\ stray' \in [Workers -> Strays]
    /\ \A v \in Workers : stray'[v].text = stray[v].text
    /\ faults' \in 0..MaxFaults

LEMMA QuietKeepsInv ==
    ASSUME Inv, NEW w \in Workers, Quiet(w)
    PROVE  Inv'
<1>1. GroupsClaimed' /\ \A m \in Messages : job'[To[m]].group = job[To[m]].group
  BY GroupsStay DEF Quiet
<1>2. TypeOK'
  <2>1. \A v \in Workers : \A m \in job'[v].group : To[m] = v
    BY DEF Inv, GroupsClaimed, Quiet, JobStep, OthersStay
  <2> QED BY <2>1 DEF Inv, TypeOK, Quiet, JobStep
<1>3. StraysAddressed' /\ ClaimsCounted' /\ SupersededEnds'
  BY DEF Inv, Quiet, StraysAddressed, ClaimsCounted, SupersededEnds
<1>4. \A m \in Messages : Loses(m)
  <2> TAKE m \in Messages
  <2>1. BeforeWrite(job'[To[m]]) => BeforeWrite(job[To[m]])
    BY DeliveryAssumption DEF Quiet, JobStep, OthersStay
  <2> QED BY <1>1, <2>1, DeliveryAssumption DEF Loses, Same, MayWrite, Left, BeforeWrite, Quiet
<1>5. Permits'
  BY <1>4, PermitsKept DEF Inv, TypeOK
<1> QED BY <1>1, <1>2, <1>3, <1>5 DEF Inv

-----------------------------------------------------------------------------
(* The pass.                                                               *)

LEMMA CheckKeepsInv ==
    ASSUME Inv, NEW w \in Workers, Check(w)
    PROVE  Inv'
<1>1. JobStep(w) /\ BeforeWrite(job[w])
  <2>1. CASE Goes(w, "baseline")
    BY <2>1, Gone DEF Inv, TypeOK, Check, Stages, BeforeWrite
  <2>2. CASE Settles(w, "queued")
    BY <2>2, Settled DEF Inv, TypeOK, Check, Results, BeforeWrite
  <2> QED BY <2>1, <2>2 DEF Check
<1>2. Quiet(w)
  BY <1>1 DEF Quiet, Check, Inv, TypeOK, store, screen
<1> QED BY <1>2, QuietKeepsInv

LEMMA BaselineKeepsInv ==
    ASSUME Inv, NEW w \in Workers, Baseline(w)
    PROVE  Inv'
<1>1. \/ \E result \in Results : Settles(w, result)
      \/ \E stage \in {"entering", "writing"} : Goes(w, stage)
  BY DEF Baseline, Results
<1>2. JobStep(w) /\ BeforeWrite(job[w])
  <2>1. ASSUME NEW result \in Results, Settles(w, result) PROVE JobStep(w)
    BY <2>1, Settled DEF Inv, TypeOK, Baseline
  <2>2. ASSUME NEW stage \in {"entering", "writing"}, Goes(w, stage) PROVE JobStep(w)
    BY <2>2, Gone DEF Inv, TypeOK, Baseline, Stages
  <2> QED BY <1>1, <2>1, <2>2 DEF Baseline, BeforeWrite
<1>3. Quiet(w)
  BY <1>2 DEF Quiet, Baseline, Inv, TypeOK, store, screen
<1> QED BY <1>3, QuietKeepsInv

LEMMA ReadFailsKeepsInv ==
    ASSUME Inv, NEW w \in Workers, ReadFails(w)
    PROVE  Inv'
<1>1. JobStep(w) /\ BeforeWrite(job[w])
  <2>1. PICK result \in Results : Settles(w, result) /\ job[w].at \in {"check", "baseline"}
    BY DEF ReadFails, Results
  <2> QED BY <2>1, Settled DEF Inv, TypeOK, BeforeWrite
<1>2. faults' \in 0..MaxFaults
  BY DeliveryAssumption DEF ReadFails, Inv, TypeOK
<1>3. Quiet(w)
  BY <1>1, <1>2 DEF Quiet, ReadFails, Inv, TypeOK, store, screen
<1> QED BY <1>3, QuietKeepsInv

LEMMA RenderKeepsInv ==
    ASSUME Inv, NEW w \in Workers, Render(w)
    PROVE  Inv'
<1>1. JobStep(w) /\ ~BeforeWrite(job'[w])
  <2>1. CASE Goes(w, "entering")
    BY <2>1, Gone DEF Inv, TypeOK, Render, Stages, BeforeWrite
  <2>2. CASE \E result \in {"rejected", "uncertain"} : Settles(w, result)
    BY <2>2, Settled DEF Inv, TypeOK, Render, Results, BeforeWrite
  <2> QED BY <2>1, <2>2 DEF Render
<1>2. Quiet(w)
  BY <1>1 DEF Quiet, Render, Inv, TypeOK, store, screen
<1> QED BY <1>2, QuietKeepsInv

LEMMA LookKeepsInv ==
    ASSUME Inv, NEW w \in Workers, Look(w)
    PROVE  Inv'
<1>1. JobStep(w) /\ ~BeforeWrite(job'[w])
  <2>1. CASE \E result \in {"delivered", "uncertain"} : Settles(w, result)
    BY <2>1, Settled DEF Inv, TypeOK, Look, Results, BeforeWrite
  <2>2. CASE /\ job[w].enters > 1
             /\ job' = [job EXCEPT ![w].at = "entering", ![w].enters = @ - 1]
    <3>1. /\ job[w] \in Jobs /\ job[w].enters - 1 \in 1..Enters /\ "entering" \in Stages
      BY <2>2, DeliveryAssumption DEF Inv, TypeOK, Jobs, Stages
    <3>2. [job[w] EXCEPT !.at = "entering", !.enters = @ - 1] \in Jobs
      BY <3>1 DEF Jobs
    <3> QED BY <2>2, <3>1, <3>2 DEF Inv, TypeOK, Look, JobStep, OthersStay, Jobs, BeforeWrite
  <2> QED BY <2>1, <2>2 DEF Look
<1>2. Quiet(w)
  BY <1>1 DEF Quiet, Look, Inv, TypeOK, store, screen
<1> QED BY <1>2, QuietKeepsInv

(* Submitting a prompt moves its text on, no permit.                       *)
LEMMA SubmittedScreen ==
    ASSUME Inv, NEW w \in Workers, Submitted(w)
    PROVE  terminal' \in [Workers -> Terminals] /\ taken' \subseteq Messages
<1>1. terminal[w] \in Terminals /\ Occupied(w) \in BOOLEAN
  BY DEF Inv, TypeOK, Occupied
<1>2. [terminal[w] EXCEPT !.open = {}, !.busy = @ \/ Occupied(w)] \in Terminals
  BY <1>1 DEF Terminals
<1> QED BY <1>1, <1>2 DEF Inv, TypeOK, Submitted, Terminals

LEMMA EnterAnsweredKeepsInv ==
    ASSUME Inv, NEW w \in Workers, EnterAnswered(w)
    PROVE  Inv'
<1>1. JobStep(w) /\ ~BeforeWrite(job'[w])
  <2>1. CASE Goes(w, "look")
    BY <2>1, Gone DEF Inv, TypeOK, EnterAnswered, Stages, BeforeWrite
  <2>2. CASE Settles(w, "uncertain")
    BY <2>2, Settled DEF Inv, TypeOK, EnterAnswered, Results, BeforeWrite
  <2> QED BY <2>1, <2>2 DEF EnterAnswered
<1>2. /\ terminal' \in [Workers -> Terminals] /\ taken' \subseteq Messages
      /\ UNCHANGED <<stray, written>>
  <2>1. CASE Submitted(w)
    BY <2>1, SubmittedScreen DEF Submitted
  <2>2. CASE UNCHANGED screen
    BY <2>2 DEF Inv, TypeOK, screen
  <2> QED BY <2>1, <2>2 DEF EnterAnswered
<1>3. Quiet(w)
  BY <1>1, <1>2 DEF Quiet, EnterAnswered, Inv, TypeOK, store
<1> QED BY <1>3, QuietKeepsInv

(* The write spends the permits of its group.                              *)
LEMMA WriteAnsweredKeepsInv ==
    ASSUME Inv, NEW w \in Workers, WriteAnswered(w)
    PROVE  Inv'
<1>1. CASE job[w].gone \/ terminal[w].held
  <2>1. PICK result \in Results : Settles(w, result) /\ UNCHANGED screen
    BY <1>1 DEF WriteAnswered, Results
  <2>2. JobStep(w) /\ BeforeWrite(job[w])
    BY <2>1, Settled DEF Inv, TypeOK, WriteAnswered, BeforeWrite
  <2>3. Quiet(w)
    BY <2>1, <2>2 DEF Quiet, WriteAnswered, Inv, TypeOK, store, screen
  <2> QED BY <2>3, QuietKeepsInv
<1>2. CASE ~(job[w].gone \/ terminal[w].held)
  <2>1. /\ Goes(w, "render")
        /\ terminal' = [terminal EXCEPT ![w].open = @ \union job[w].group]
        /\ written' = [m \in Messages |-> IF m \in job[w].group THEN written[m] + 1 ELSE written[m]]
        /\ UNCHANGED <<rows, closed, noticed, retried, pass, stray, taken, faults>>
    BY <1>2 DEF WriteAnswered, store
  <2>2. JobStep(w) /\ job'[w].at = "render" /\ BeforeWrite(job[w])
    BY <2>1, Gone DEF Inv, TypeOK, WriteAnswered, Stages, BeforeWrite
  <2>3. GroupsClaimed' /\ \A m \in Messages : job'[To[m]].group = job[To[m]].group
    BY <2>1, <2>2, GroupsStay
  <2>4. TypeOK'
    <3>1. terminal[w] \in Terminals /\ job[w].group \subseteq Messages
      BY DEF Inv, TypeOK, Jobs
    <3>2. [terminal[w] EXCEPT !.open = @ \union job[w].group] \in Terminals
      BY <3>1 DEF Terminals
    <3>3. terminal' \in [Workers -> Terminals]
      BY <2>1, <3>2 DEF Inv, TypeOK, Terminals
    <3>4. written' \in [Messages -> Nat]
      BY <2>1 DEF Inv, TypeOK
    <3>5. \A v \in Workers : \A m \in job'[v].group : To[m] = v
      BY <2>3 DEF GroupsClaimed
    <3> QED BY <2>1, <2>2, <3>3, <3>4, <3>5 DEF Inv, TypeOK, JobStep
  <2>5. StraysAddressed' /\ ClaimsCounted' /\ SupersededEnds'
    BY <2>1 DEF Inv, StraysAddressed, ClaimsCounted, SupersededEnds
  <2>6. \A m \in Messages : Loses(m) \/ Writes(m)
    <3> TAKE m \in Messages
    <3>1. CASE m \in job[w].group
      <4>1. To[m] = w /\ rows[m].state = "dispatching"
        BY <3>1 DEF Inv, GroupsClaimed
      <4>2. Writes(m)
        BY <2>1, <2>2, <3>1, <4>1 DEF Writes, MayWrite, Left, BeforeWrite
      <4> QED BY <4>2
    <3>2. CASE m \notin job[w].group
      <4>1. To[m] # w => job'[To[m]] = job[To[m]]
        BY <2>2, DeliveryAssumption DEF JobStep, OthersStay
      <4>2. Loses(m)
        BY <2>1, <2>3, <3>2, <4>1 DEF Loses, Same, MayWrite, Left
      <4> QED BY <4>2
    <3> QED BY <3>1, <3>2
  <2>7. Permits'
    BY <2>6, PermitsKept DEF Inv, TypeOK
  <2> QED BY <2>3, <2>4, <2>5, <2>7 DEF Inv
<1> QED BY <1>1, <1>2

(* What an unanswered request leaves behind: at most the text of a write,  *)
(* where none was before.                                                  *)
LEMMA LeavesText ==
    ASSUME Inv, NEW w \in Workers, NEW left \in LeftBehind(w)
    PROVE  /\ left \in Strays
           /\ \/ left.text = stray[w].text
              \/ job[w].at = "writing" /\ stray[w].text = {} /\ left.text = job[w].group
<1>1. stray[w] \in Strays /\ job[w].group \subseteq Messages
  BY DEF Inv, TypeOK, Jobs
<1>2. /\ [stray[w] EXCEPT !.text = job[w].group] \in Strays
      /\ [stray[w] EXCEPT !.text = job[w].group].text = job[w].group
      /\ [stray[w] EXCEPT !.enter = TRUE] \in Strays
      /\ [stray[w] EXCEPT !.enter = TRUE].text = stray[w].text
  BY <1>1 DEF Strays
<1> QED BY <1>1, <1>2 DEF LeftBehind

(* An unanswered write hands its permits to what it leaves behind.         *)
LEMMA UnansweredKeepsInv ==
    ASSUME Inv, NEW w \in Workers, Unanswered(w)
    PROVE  Inv'
<1>1. PICK left \in LeftBehind(w) : stray' = [stray EXCEPT ![w] = left]
  BY DEF Unanswered
<1>2. /\ JobStep(w) /\ ~BeforeWrite(job'[w])
      /\ UNCHANGED <<rows, closed, noticed, retried, pass, terminal, written, taken, faults>>
  BY Settled DEF Inv, TypeOK, Unanswered, Results, BeforeWrite, store
<1>3. GroupsClaimed' /\ \A m \in Messages : job'[To[m]].group = job[To[m]].group
  BY <1>2, GroupsStay
<1>4. TypeOK'
  <2>1. stray' \in [Workers -> Strays]
    BY <1>1, LeavesText DEF Inv, TypeOK
  <2>2. \A v \in Workers : \A m \in job'[v].group : To[m] = v
    BY <1>3 DEF GroupsClaimed
  <2> QED BY <1>2, <2>1, <2>2 DEF Inv, TypeOK, JobStep
<1>5. stray'[w].text = left.text /\ \A v \in Workers \ {w} : stray'[v] = stray[v]
  BY <1>1 DEF Inv, TypeOK
<1>6. StraysAddressed'
  BY <1>1, <1>5, LeavesText DEF Inv, StraysAddressed, GroupsClaimed
<1>7. ClaimsCounted' /\ SupersededEnds'
  BY <1>2 DEF Inv, ClaimsCounted, SupersededEnds
<1>8. \A m \in Messages : Loses(m) \/ HandsOn(m)
  <2> TAKE m \in Messages
  <2>1. CASE To[m] # w
    BY <1>2, <1>5, <2>1, DeliveryAssumption
    DEF Loses, Same, MayWrite, Left, JobStep, OthersStay
  <2>2. CASE To[m] = w /\ m \notin job[w].group
    <3>1. MayWrite(m)' <=> MayWrite(m)
      BY <1>2, <1>3, <2>2 DEF MayWrite
    <3>2. Left(m)' => Left(m)
      BY <1>5, <2>2, LeavesText DEF Left
    <3> QED BY <1>2, <3>1, <3>2 DEF Loses, Same
  <2>3. CASE To[m] = w /\ m \in job[w].group
    <3>1. rows[m].state = "dispatching" /\ ~MayWrite(m)'
      BY <1>2, <2>3 DEF Inv, GroupsClaimed, MayWrite
    <3>2. CASE left.text = stray[w].text
      <4>1. Loses(m)
        BY <1>2, <1>5, <2>3, <3>1, <3>2 DEF Loses, Same, Left
      <4> QED BY <4>1
    <3>3. CASE job[w].at = "writing" /\ stray[w].text = {}
      <4>1. HandsOn(m)
        BY <1>2, <2>3, <3>1, <3>3 DEF HandsOn, Same, MayWrite, Left, BeforeWrite
      <4> QED BY <4>1
    <3> QED BY <3>2, <3>3, LeavesText
  <2> QED BY <2>1, <2>2, <2>3
<1>9. Permits'
  BY <1>8, PermitsKept DEF Inv, TypeOK
<1> QED BY <1>3, <1>4, <1>6, <1>7, <1>9 DEF Inv

(* The results are stored.                                                 *)
LEMMA UnlistedJob ==
    ASSUME Inv, AllSettled, NEW m \in Messages, m \in job[To[m]].group, Unlisted(m)
    PROVE  /\ job' \in [Workers -> Jobs]
           /\ job[To[m]].at = "settled"
           /\ \A w \in Workers :
                 /\ job'[w].group = job[w].group \ {m}
                 /\ job'[w].at = "none" => job'[w].group = {}
                 /\ job'[w].group # {} => job'[w].at = job[w].at /\ job'[w].result = job[w].result
<1> DEFINE w == To[m]
           rest == job[w].group \ {m}
<1>1. /\ w \in Workers /\ job[w] \in Jobs
      /\ job[w].at = "settled"
  BY DeliveryAssumption DEF Inv, TypeOK, AllSettled, GroupsClaimed
<1>2. [job[w] EXCEPT !.group = rest] \in Jobs
  BY <1>1 DEF Jobs
<1>3. NoJob \in Jobs /\ NoJob.group = {}
  BY DeliveryAssumption DEF NoJob, Jobs, Stages, Results
<1>4. job' = [job EXCEPT ![w] = IF rest = {} THEN NoJob ELSE [job[w] EXCEPT !.group = rest]]
  BY DEF Unlisted
<1>5. job' \in [Workers -> Jobs]
  BY <1>1, <1>2, <1>3, <1>4 DEF Inv, TypeOK
<1>6. ASSUME NEW v \in Workers, v # w
      PROVE  /\ job'[v] = job[v] /\ job[v].group = job[v].group \ {m}
             /\ job[v].at = "none" => job[v].group = {}
  <2>1. m \notin job[v].group
    BY <1>6 DEF Inv, TypeOK
  <2> QED BY <1>4, <1>6, <2>1 DEF Inv, TypeOK, GroupsClaimed
<1>7. CASE rest = {}
  <2>1. job'[w] = NoJob
    BY <1>1, <1>4, <1>7 DEF Inv, TypeOK
  <2> QED BY <1>1, <1>3, <1>5, <1>6, <1>7, <2>1
<1>8. CASE rest # {}
  <2>1. /\ job'[w] = [job[w] EXCEPT !.group = rest]
        /\ job'[w].group = rest
        /\ job'[w].at = "settled" /\ job'[w].result = job[w].result
    BY <1>1, <1>4, <1>8 DEF Inv, TypeOK, Jobs
  <2>2. /\ job'[w].group = job[w].group \ {m}
        /\ job'[w].at = "none" => job'[w].group = {}
        /\ job'[w].group # {} => job'[w].at = job[w].at /\ job'[w].result = job[w].result
    BY <1>1, <2>1
  <2> HIDE DEF w, rest
  <2> QED BY <1>1, <1>5, <1>6, <2>2 DEF w
<1> QED BY <1>7, <1>8

(* What a stored result makes of a claimed row.                            *)
LEMMA FinishedRow ==
    ASSUME NEW row \in Rows, NEW result \in Results
    PROVE  LET after == Finished(row, result)
           IN  /\ after \in Rows
               /\ after.superseded = row.superseded
               /\ after.state \notin {"unsent", "dispatching"}
               /\ after.state = "queued" => result = "queued" /\ ~row.superseded /\ after.claim = row.claim
               /\ after.claim = row.claim \/ after.claim = row.claim + 1
<1> DEFINE state == IF result = "queued" /\ row.superseded THEN "cancelled" ELSE result
           claim == IF result \in Doubtful THEN row.claim + 1 ELSE row.claim
<1>1. /\ state \in States \ {"unsent", "dispatching"}
      /\ state = "queued" => result = "queued" /\ ~row.superseded
      /\ row.claim \in Nat /\ row.superseded \in BOOLEAN /\ claim \in Nat
      /\ claim = row.claim \/ claim = row.claim + 1
      /\ result = "queued" => claim = row.claim
  BY DEF Rows, Results, States, Doubtful
<1>2. Finished(row, result) = [row EXCEPT !.state = state, !.claim = claim]
  BY DEF Finished
<1> HIDE DEF state, claim
<1> QED BY <1>1, <1>2 DEF Rows

LEMMA FinishKeepsInv ==
    ASSUME Inv, NEW m \in Messages, Finish(m)
    PROVE  Inv'
<1> DEFINE result == job[To[m]].result
           after == Finished(rows[m], result)
<1>1. /\ m \in job[To[m]].group /\ To[m] \in Workers /\ rows[m].state = "dispatching"
      /\ rows[m] \in Rows /\ result \in Results
  BY DeliveryAssumption DEF Inv, TypeOK, GroupsClaimed, Finish, Jobs
<1>2. /\ rows' = [rows EXCEPT ![m] = after]
      /\ UNCHANGED <<closed, noticed, retried, pass, terminal, stray, written, taken, faults>>
  BY <1>1 DEF Finish, screen
<1>3. /\ after \in Rows /\ after.superseded = rows[m].superseded
      /\ after.state \notin {"unsent", "dispatching"}
      /\ after.state = "queued" => result = "queued" /\ ~rows[m].superseded /\ after.claim = rows[m].claim
      /\ after.claim = rows[m].claim \/ after.claim = rows[m].claim + 1
  BY <1>1, FinishedRow
<1> HIDE DEF after
<1>4. rows'[m] = after /\ \A n \in Messages \ {m} : rows'[n] = rows[n]
  BY <1>2 DEF Inv, TypeOK
<1>5. /\ job' \in [Workers -> Jobs] /\ job[To[m]].at = "settled"
      /\ \A w \in Workers :
            /\ job'[w].group = job[w].group \ {m}
            /\ job'[w].at = "none" => job'[w].group = {}
            /\ job'[w].group # {} => job'[w].at = job[w].at /\ job'[w].result = job[w].result
  BY UnlistedJob DEF Finish
<1>6. GroupsClaimed'
  BY <1>2, <1>4, <1>5 DEF Inv, GroupsClaimed, Finish, AllSettled
<1>7. ClaimsCounted' /\ SupersededEnds'
  BY <1>1, <1>2, <1>3, <1>4 DEF Inv, ClaimsCounted, SupersededEnds
<1>8. TypeOK'
  <2>1. rows' \in [Messages -> Rows]
    BY <1>2, <1>3 DEF Inv, TypeOK
  <2>2. \A n \in Messages : rows'[n].claim <= retried'[n] + 1 /\ noticed'[n] <= rows'[n].claim
    <3>1. /\ rows[m].claim \in Nat /\ retried[m] \in Nat /\ rows[m].claim <= retried[m]
          /\ noticed[m] <= rows[m].claim
      BY <1>1 DEF Inv, TypeOK, ClaimsCounted, Rows
    <3> QED BY <1>2, <1>3, <1>4, <3>1 DEF Inv, TypeOK
  <2>3. \A w \in Workers : \A n \in job'[w].group : To[n] = w
    BY <1>6 DEF GroupsClaimed
  <2> QED BY <1>2, <1>5, <2>1, <2>2, <2>3 DEF Inv, TypeOK
<1>9. \A n \in Messages : Loses(n)
  <2> TAKE n \in Messages
  <2>1. CASE n = m
    <3>1. MayWrite(m)' => MayWrite(m)
      BY <1>1, <1>3, <1>4, <1>5 DEF MayWrite, BeforeWrite
    <3> QED BY <1>2, <2>1, <3>1 DEF Loses, Same, Left
  <2>2. CASE n # m
    <3>1. MayWrite(n)' => MayWrite(n)
      BY <1>4, <1>5, <2>2, DeliveryAssumption DEF MayWrite, BeforeWrite
    <3> QED BY <1>2, <3>1 DEF Loses, Same, Left
  <2> QED BY <2>1, <2>2
<1>10. Permits' /\ StraysAddressed'
  BY <1>2, <1>9, PermitsKept DEF Inv, TypeOK, StraysAddressed
<1> QED BY <1>6, <1>7, <1>8, <1>10 DEF Inv

LEMMA FinishFailsKeepsInv ==
    ASSUME Inv, NEW m \in Messages, FinishFails(m)
    PROVE  Inv'
<1>1. /\ job' \in [Workers -> Jobs]
      /\ \A w \in Workers :
            /\ job'[w].group = job[w].group \ {m}
            /\ job'[w].at = "none" => job'[w].group = {}
            /\ job'[w].group # {} => job'[w].at = job[w].at /\ job'[w].result = job[w].result
  BY UnlistedJob DEF FinishFails
<1>2. /\ UNCHANGED <<rows, closed, noticed, retried, pass, terminal, stray, written, taken>>
      /\ faults' \in 0..MaxFaults
  BY DeliveryAssumption DEF FinishFails, store, screen, Inv, TypeOK
<1>3. GroupsClaimed'
  BY <1>1, <1>2 DEF Inv, GroupsClaimed, FinishFails, AllSettled
<1>4. TypeOK' /\ StraysAddressed' /\ ClaimsCounted' /\ SupersededEnds'
  BY <1>1, <1>2 DEF Inv, TypeOK, StraysAddressed, ClaimsCounted, SupersededEnds
<1>5. \A n \in Messages : Loses(n)
  BY <1>1, <1>2, DeliveryAssumption DEF Loses, Same, MayWrite, Left, BeforeWrite
<1>6. Permits'
  BY <1>5, PermitsKept DEF Inv, TypeOK
<1> QED BY <1>3, <1>4, <1>6 DEF Inv

LEMMA EndPassKeepsInv ==
    ASSUME Inv, EndPass
    PROVE  Inv'
<1>1. UNCHANGED <<store, job, screen, faults>> /\ pass' = "idle"
      /\ \A w \in Workers : job[w].at = "none"
  BY DEF EndPass
<1>2. TypeOK' /\ GroupsClaimed' /\ StraysAddressed' /\ ClaimsCounted' /\ SupersededEnds'
  BY <1>1 DEF Inv, TypeOK, GroupsClaimed, StraysAddressed, ClaimsCounted, SupersededEnds, store, screen
<1>3. \A m \in Messages : Loses(m)
  BY <1>1 DEF Loses, Same, MayWrite, Left, store, screen
<1> QED BY <1>2, <1>3, PermitsKept DEF Inv, TypeOK

(* A pass that is cut off forgets its groups; what it had asked for may    *)
(* still arrive.                                                           *)
LEMMA CutOffKeepsInv ==
    ASSUME Inv, CutOff
    PROVE  Inv'
<1>1. /\ pass' = "idle" /\ job' = [w \in Workers |-> NoJob] /\ faults' \in 0..MaxFaults
      /\ UNCHANGED <<rows, closed, noticed, retried, terminal, written, taken>>
  BY DeliveryAssumption DEF CutOff, store, Inv, TypeOK
<1>2. stray' \in [Workers -> Strays] /\ \A w \in Workers : stray'[w] \in LeftBehind(w)
  BY DEF CutOff
<1>3. NoJob \in Jobs /\ NoJob.group = {} /\ NoJob.at = "none"
  BY DeliveryAssumption DEF NoJob, Jobs, Stages, Results
<1>4. \A w \in Workers : job'[w].group = {} /\ job'[w].at = "none"
  BY <1>1, <1>3
<1>5. GroupsClaimed' /\ TypeOK' /\ ClaimsCounted' /\ SupersededEnds'
  BY <1>1, <1>2, <1>3, <1>4 DEF Inv, GroupsClaimed, TypeOK, ClaimsCounted, SupersededEnds
<1>6. \A w \in Workers :
        \/ stray'[w].text = stray[w].text
        \/ job[w].at = "writing" /\ stray[w].text = {} /\ stray'[w].text = job[w].group
  BY <1>2, LeavesText
<1>7. StraysAddressed'
  BY <1>6 DEF Inv, StraysAddressed, GroupsClaimed
<1>8. \A m \in Messages : Loses(m) \/ HandsOn(m)
  <2> TAKE m \in Messages
  <2>1. To[m] \in Workers /\ (MayWrite(m)' => rows[m].state \in {"unsent", "queued"})
    BY <1>1, <1>4, DeliveryAssumption DEF MayWrite
  <2>2. CASE stray'[To[m]].text = stray[To[m]].text
    BY <1>1, <2>1, <2>2 DEF Loses, Same, MayWrite, Left
  <2>3. CASE m \notin stray'[To[m]].text
    BY <1>1, <2>1, <2>3 DEF Loses, Same, MayWrite, Left
  <2>4. CASE /\ job[To[m]].at = "writing" /\ stray[To[m]].text = {}
             /\ m \in job[To[m]].group
    <3>1. rows[m].state = "dispatching"
      BY <2>1, <2>4 DEF Inv, GroupsClaimed
    <3> QED BY <1>1, <2>1, <2>4, <3>1 DEF HandsOn, Same, MayWrite, Left, BeforeWrite
  <2> QED BY <1>6, <2>1, <2>2, <2>3, <2>4
<1>9. Permits'
  BY <1>8, PermitsKept DEF Inv, TypeOK
<1> QED BY <1>5, <1>7, <1>9 DEF Inv

(* What was left as dispatching becomes uncertain: its permit is gone.     *)
LEMMA RecoverKeepsInv ==
    ASSUME Inv, Recover
    PROVE  Inv'
<1>1. /\ pass = "idle" /\ pass' = "claiming"
      /\ rows' = [m \in Messages |-> IF rows[m].state = "dispatching"
                                     THEN Finished(rows[m], "uncertain") ELSE rows[m]]
      /\ UNCHANGED <<closed, noticed, retried, job, terminal, stray, written, taken, faults>>
  BY DEF Recover, screen
<1>2. \A w \in Workers : job[w].at = "none" /\ job[w].group = {}
  BY <1>1 DEF Inv, GroupsClaimed
<1>3. ASSUME NEW m \in Messages
      PROVE  /\ rows'[m] \in Rows /\ rows'[m].superseded = rows[m].superseded
             /\ rows'[m].state \in {"unsent", "queued"} => rows'[m] = rows[m]
             /\ rows'[m].state # "dispatching"
             /\ rows'[m].claim <= retried[m] + 1 /\ noticed[m] <= rows'[m].claim
  <2>1. /\ rows[m] \in Rows /\ rows[m].claim \in Nat /\ retried[m] \in Nat
        /\ rows[m].claim <= retried[m] + 1 /\ noticed[m] <= rows[m].claim
    BY DEF Inv, TypeOK, Rows
  <2>2. CASE rows[m].state = "dispatching"
    <3> DEFINE after == Finished(rows[m], "uncertain")
    <3>1. rows'[m] = after
      BY <1>1, <2>2
    <3>2. /\ after \in Rows /\ after.superseded = rows[m].superseded
          /\ after.state \notin {"unsent", "queued", "dispatching"}
          /\ after.claim = rows[m].claim \/ after.claim = rows[m].claim + 1
      BY <2>1, FinishedRow DEF Results
    <3>3. rows[m].claim <= retried[m]
      BY <2>2 DEF Inv, ClaimsCounted
    <3> HIDE DEF after
    <3>4. noticed[m] \in Nat /\ rows'[m].claim = after.claim
      BY <3>1 DEF Inv, TypeOK
    <3>5. rows'[m].claim <= retried[m] + 1 /\ noticed[m] <= rows'[m].claim
      BY <2>1, <3>2, <3>3, <3>4
    <3> QED BY <3>1, <3>2, <3>5
  <2>3. CASE rows[m].state # "dispatching"
    BY <1>1, <2>1, <2>3
  <2> QED BY <2>2, <2>3
<1>4. rows' \in [Messages -> Rows]
  BY <1>1, <1>3
<1>5. TypeOK' /\ GroupsClaimed' /\ StraysAddressed' /\ ClaimsCounted' /\ SupersededEnds'
  BY <1>1, <1>2, <1>3, <1>4
  DEF Inv, TypeOK, GroupsClaimed, StraysAddressed, ClaimsCounted, SupersededEnds
<1>6. \A m \in Messages : Loses(m)
  BY <1>1, <1>2, <1>3, DeliveryAssumption DEF Loses, Same, MayWrite, Left
<1> QED BY <1>5, <1>6, PermitsKept DEF Inv, TypeOK

(* A claim hands the permits of the rows to the jobs.                      *)
LEMMA ClaimKeepsInv ==
    ASSUME Inv, Claim
    PROVE  Inv'
<1>1. /\ pass' = "submitting"
      /\ UNCHANGED <<closed, noticed, retried, terminal, stray, written, taken, faults>>
  BY DEF Claim, screen
<1>2. ASSUME NEW w \in Workers
      PROVE  /\ job'[w] \in Jobs /\ job'[w].group = Claimable(w)
             /\ job'[w].at = "none" => job'[w].group = {}
  <2>1. NoJob \in Jobs /\ NoJob.group = {} /\ "check" \in Stages
    BY DeliveryAssumption DEF NoJob, Jobs, Stages, Results
  <2>2. Claimable(w) \subseteq Messages
    BY DEF Claimable
  <2>3. LET j == [NoJob EXCEPT !.at = "check", !.group = Claimable(w)]
        IN  j \in Jobs /\ j.group = Claimable(w) /\ j.at = "check"
    BY <2>1, <2>2 DEF Jobs
  <2> QED BY <2>1, <2>3 DEF Claim
<1>3. ASSUME NEW m \in Messages
      PROVE  /\ rows'[m] \in Rows /\ rows'[m].superseded = rows[m].superseded
             /\ rows'[m].claim = rows[m].claim
             /\ rows[m].state # "queued" => rows'[m] = rows[m]
             /\ rows[m].state = "queued" /\ m \in Claimable(To[m]) => rows'[m].state = "dispatching"
             /\ rows'[m].state = "queued" => rows[m].state = "queued"
             /\ rows'[m].state = "unsent" => rows[m].state = "unsent"
             /\ rows'[m].state = "dispatching" => rows[m].state \in {"queued", "dispatching"}
  <2>1. rows[m] \in Rows
    BY DEF Inv, TypeOK
  <2>2. ASSUME NEW state \in {"cancelled", "dispatching"}
        PROVE  LET after == [rows[m] EXCEPT !.state = state]
               IN  /\ after \in Rows /\ after.superseded = rows[m].superseded
                   /\ after.claim = rows[m].claim /\ after.state = state
    BY <2>1 DEF Rows, States
  <2>3. rows'[m] = IF rows[m].state # "queued" THEN rows[m]
                   ELSE IF m \in closed THEN [rows[m] EXCEPT !.state = "cancelled"]
                   ELSE IF m \in Claimable(To[m]) THEN [rows[m] EXCEPT !.state = "dispatching"]
                   ELSE rows[m]
    BY DEF Claim
  <2>4. m \in Claimable(To[m]) => m \notin closed
    BY DEF Claimable
  <2> QED BY <2>1, <2>2, <2>3, <2>4
<1>4. rows' \in [Messages -> Rows] /\ job' \in [Workers -> Jobs]
  BY <1>2, <1>3 DEF Claim
<1>5. \A w \in Workers : \A m \in Claimable(w) : m \in Messages /\ To[m] = w /\ rows[m].state = "queued"
  BY DEF Claimable
<1>6. GroupsClaimed'
  <2>1. \A w \in Workers : \A m \in Claimable(w) : rows'[m].state = "dispatching" /\ To[m] = w
    BY <1>3, <1>5
  <2>2. \A w \in Workers : job'[w].group = Claimable(w) /\ (job'[w].at = "none" => job'[w].group = {})
    BY <1>2
  <2> QED BY <1>1, <2>1, <2>2 DEF GroupsClaimed
<1>7. TypeOK'
  <2>1. \A w \in Workers : \A m \in job'[w].group : To[m] = w
    BY <1>2, <1>5
  <2>2. \A m \in Messages : rows'[m].claim <= retried'[m] + 1 /\ noticed'[m] <= rows'[m].claim
    BY <1>1, <1>3 DEF Inv, TypeOK
  <2> QED BY <1>1, <1>4, <2>1, <2>2 DEF Inv, TypeOK
<1>8. StraysAddressed' /\ SupersededEnds'
  BY <1>1, <1>3 DEF Inv, StraysAddressed, SupersededEnds
<1>9. ClaimsCounted'
  BY <1>1, <1>3 DEF Inv, ClaimsCounted
<1>10. \A m \in Messages : Loses(m)
  BY <1>1, <1>2, <1>3, <1>5, DeliveryAssumption DEF Loses, Same, MayWrite, Left
<1> QED BY <1>6, <1>7, <1>8, <1>9, <1>10, PermitsKept DEF Inv, TypeOK

-----------------------------------------------------------------------------
(* The terminals.                                                          *)

(* A write that arrives late spends the permits that were left with it.    *)
LEMMA StrayTextKeepsInv ==
    ASSUME Inv, NEW w \in Workers, StrayText(w)
    PROVE  Inv'
<1>1. /\ stray' = [stray EXCEPT ![w].text = {}]
      /\ UNCHANGED <<rows, closed, noticed, retried, pass, job, taken, faults>>
  BY DEF StrayText, store, work
<1>2. stray[w] \in Strays /\ terminal[w] \in Terminals
  BY DEF Inv, TypeOK
<1>3. /\ stray' \in [Workers -> Strays] /\ stray'[w].text = {}
      /\ \A v \in Workers \ {w} : stray'[v] = stray[v]
  BY <1>1, <1>2 DEF Inv, TypeOK, Strays
<1>4. terminal' \in [Workers -> Terminals] /\ written' \in [Messages -> Nat]
  <2>1. [terminal[w] EXCEPT !.open = @ \union stray[w].text] \in Terminals
    BY <1>2 DEF Terminals, Strays
  <2>2. /\ terminal \in [Workers -> Terminals] /\ written \in [Messages -> Nat]
        /\ \A m \in Messages : written[m] + 1 \in Nat
    BY DEF Inv, TypeOK
  <2>3. CASE terminal[w].held
    BY <2>2, <2>3 DEF StrayText
  <2>4. CASE ~terminal[w].held
    <3>1. terminal' = [terminal EXCEPT ![w] = [terminal[w] EXCEPT !.open = @ \union stray[w].text]]
      BY <2>4 DEF StrayText
    <3>2. written' = [m \in Messages |-> IF m \in stray[w].text THEN written[m] + 1 ELSE written[m]]
      BY <2>4 DEF StrayText
    <3>3. terminal' \in [Workers -> Terminals]
      BY <2>1, <2>2, <3>1
    <3>4. written' \in [Messages -> Nat]
      BY <2>2, <3>2
    <3> QED BY <3>3, <3>4
  <2> QED BY <2>3, <2>4
<1>5. TypeOK' /\ GroupsClaimed' /\ StraysAddressed' /\ ClaimsCounted' /\ SupersededEnds'
  BY <1>1, <1>3, <1>4 DEF Inv, TypeOK, GroupsClaimed, StraysAddressed, ClaimsCounted, SupersededEnds
<1>6. \A m \in Messages : Loses(m) \/ Lands(m)
  <2> TAKE m \in Messages
  <2>1. (MayWrite(m)' <=> MayWrite(m)) /\ (Left(m)' => Left(m))
    BY <1>1, <1>3, DeliveryAssumption DEF MayWrite, Left
  <2>2. CASE written'[m] = written[m]
    BY <1>1, <2>1, <2>2 DEF Loses, Same
  <2>3. CASE m \in stray[w].text /\ written'[m] = written[m] + 1
    <3>1. To[m] = w
      BY <2>3 DEF Inv, StraysAddressed
    <3> QED BY <1>1, <1>3, <2>1, <2>3, <3>1 DEF Lands, Left
  <2> QED BY <2>2, <2>3 DEF StrayText
<1> QED BY <1>5, <1>6, PermitsKept DEF Inv, TypeOK

(* Whatever else happens at a terminal: no text is written.                *)
ScreenOnly ==
    /\ UNCHANGED <<rows, closed, noticed, retried, pass, job, written, faults>>
    /\ terminal' \in [Workers -> Terminals] /\ taken' \subseteq Messages
    /\ stray' \in [Workers -> Strays]
    /\ \A v \in Workers : stray'[v].text \subseteq stray[v].text

LEMMA ScreenOnlyKeepsInv ==
    ASSUME Inv, ScreenOnly
    PROVE  Inv'
<1>1. TypeOK' /\ GroupsClaimed' /\ StraysAddressed' /\ ClaimsCounted' /\ SupersededEnds'
  BY DEF ScreenOnly, Inv, TypeOK, GroupsClaimed, StraysAddressed, ClaimsCounted, SupersededEnds
<1>2. \A m \in Messages : Loses(m)
  BY DeliveryAssumption DEF ScreenOnly, Loses, Same, MayWrite, Left
<1> QED BY <1>1, <1>2, PermitsKept DEF Inv, TypeOK

LEMMA TerminalKeepsInv ==
    ASSUME Inv, NEW w \in Workers, StrayEnter(w) \/ Operator(w) \/ TurnEnds(w) \/ Start(w)
    PROVE  Inv'
<1>1. terminal[w] \in Terminals /\ terminal[w].open \subseteq Messages /\ stray[w] \in Strays
  BY DEF Inv, TypeOK, Terminals
<1>2. stray' \in [Workers -> Strays] /\ \A v \in Workers : stray'[v].text = stray[v].text
  <2>1. CASE StrayEnter(w)
    BY <1>1, <2>1 DEF StrayEnter, Inv, TypeOK, Strays
  <2> QED BY <2>1 DEF Operator, TurnEnds, Start, Inv, TypeOK
<1>3. terminal' \in [Workers -> Terminals] /\ taken' \subseteq Messages
  <2>1. CASE StrayEnter(w)
    <3>1. [terminal[w] EXCEPT !.open = {}, !.busy = @ \/ Occupied(w)] \in Terminals
      BY <1>1 DEF Terminals, Occupied
    <3> QED BY <1>1, <2>1, <3>1 DEF StrayEnter, Inv, TypeOK
  <2>2. CASE Operator(w)
    <3>1. /\ [terminal[w] EXCEPT !.held = ~@] \in Terminals
          /\ [terminal[w] EXCEPT !.open = {}, !.busy = TRUE] \in Terminals
      BY <1>1 DEF Terminals
    <3>2. /\ terminal' \in [Workers -> Terminals]
          /\ taken' = taken \/ taken' = taken \union terminal[w].open
      <4>1. CASE terminal' = [terminal EXCEPT ![w].held = ~@] /\ UNCHANGED taken
        BY <3>1, <4>1 DEF Inv, TypeOK
      <4>2. CASE /\ terminal' = [terminal EXCEPT ![w].open = {}, ![w].busy = TRUE]
                 /\ taken' = taken \union terminal[w].open
        BY <3>1, <4>2 DEF Inv, TypeOK
      <4> QED BY <2>2, <4>1, <4>2 DEF Operator
    <3> QED BY <1>1, <3>2 DEF Inv, TypeOK
  <2>3. CASE TurnEnds(w)
    <3>1. [terminal[w] EXCEPT !.busy = FALSE] \in Terminals
      BY <1>1 DEF Terminals
    <3> QED BY <2>3, <3>1 DEF TurnEnds, Inv, TypeOK
  <2>4. CASE Start(w)
    <3>1. Blank \in Terminals
      BY DEF Blank, Terminals
    <3> QED BY <2>4, <3>1 DEF Start, Inv, TypeOK
  <2> QED BY <2>1, <2>2, <2>3, <2>4
<1>4. UNCHANGED <<rows, closed, noticed, retried, pass, job, written, faults>>
  BY DEF StrayEnter, Operator, TurnEnds, Start, store, work
<1> QED BY <1>2, <1>3, <1>4, ScreenOnlyKeepsInv DEF ScreenOnly

LEMMA ExitKeepsInv ==
    ASSUME Inv, NEW w \in Workers, Exit(w)
    PROVE  Inv'
<1> DEFINE ended == [job[w] EXCEPT !.gone = job[w].gone \/ job[w].at # "none"]
<1>1. /\ job[w] \in Jobs /\ job[w].gone \in BOOLEAN
      /\ [Blank EXCEPT !.up = FALSE] \in Terminals /\ NoStray \in Strays /\ NoStray.text = {}
  BY DEF Inv, TypeOK, Jobs, Blank, Terminals, NoStray, Strays
<1>2. /\ ended \in Jobs /\ ended.at = job[w].at /\ ended.group = job[w].group
      /\ ended.result = job[w].result
  BY <1>1 DEF Jobs
<1>3. job' = [job EXCEPT ![w] = ended]
  BY DEF Exit
<1> HIDE DEF ended
<1>4. /\ job' \in [Workers -> Jobs]
      /\ \A v \in Workers : /\ job'[v].at = job[v].at /\ job'[v].group = job[v].group
                            /\ job'[v].result = job[v].result
  BY <1>2, <1>3 DEF Inv, TypeOK
<1>5. /\ UNCHANGED <<rows, closed, noticed, retried, pass, written, taken, faults>>
      /\ terminal' \in [Workers -> Terminals] /\ stray' \in [Workers -> Strays]
      /\ \A v \in Workers : stray'[v].text \subseteq stray[v].text
  BY <1>1 DEF Exit, store, Inv, TypeOK
<1>6. TypeOK'
  BY <1>4, <1>5 DEF Inv, TypeOK
<1>7. GroupsClaimed'
  BY <1>4, <1>5 DEF Inv, GroupsClaimed
<1>8. StraysAddressed'
  BY <1>5 DEF Inv, StraysAddressed
<1>9. ClaimsCounted' /\ SupersededEnds'
  BY <1>5 DEF Inv, ClaimsCounted, SupersededEnds
<1>10. \A m \in Messages : Loses(m)
  BY <1>4, <1>5, DeliveryAssumption DEF Loses, Same, MayWrite, Left, BeforeWrite
<1> QED BY <1>6, <1>7, <1>8, <1>9, <1>10, PermitsKept DEF Inv, TypeOK

-----------------------------------------------------------------------------
(* The queue.                                                              *)

(* Of the steps of the queue only a retry adds a permit.                   *)
Queues(m, row) == row.state = "queued" => rows[m].state \in {"unsent", "queued"}
Requeues(m, row) ==
    /\ rows[m].state \in Doubtful /\ row.state = "queued"
    /\ retried' = [retried EXCEPT ![m] = @ + 1]

LEMMA QueueKeepsInv ==
    ASSUME Inv, NEW m \in Messages, NEW row \in Rows,
           rows' = [rows EXCEPT ![m] = row],
           UNCHANGED <<work, screen, faults>>, closed' \subseteq Messages,
           (retried' = retried /\ Queues(m, row)) \/ Requeues(m, row),
           noticed' \in [Messages -> Nat],
           \A n \in Messages : retried'[n] <= MaxRetries[n],
           \A n \in Messages : noticed'[n] <= rows'[n].claim,
           row.claim = rows[m].claim,
           row.state = "dispatching" <=> rows[m].state = "dispatching",
           row.state = "unsent" => rows[m].state = "unsent",
           row.superseded => row.state \notin {"unsent", "queued"}
    PROVE  Inv'
<1>1. /\ rows' \in [Messages -> Rows] /\ rows'[m] = row
      /\ \A n \in Messages \ {m} : rows'[n] = rows[n]
  BY DEF Inv, TypeOK
<1>2. /\ retried \in [Messages -> Nat] /\ retried[m] \in Nat /\ rows[m].claim \in Nat
      /\ rows[m].claim <= retried[m] + 1
  BY DEF Inv, TypeOK, Rows
<1>3. /\ retried' \in [Messages -> Nat]
      /\ \A n \in Messages \ {m} : retried'[n] = retried[n]
      /\ \/ retried'[m] = retried[m] /\ Queues(m, row)
         \/ retried'[m] = retried[m] + 1 /\ rows[m].state \in Doubtful /\ row.state = "queued"
  BY <1>2 DEF Requeues
<1>4. UNCHANGED <<pass, job, terminal, stray, written, taken, faults>>
  BY DEF work, screen
<1>5. GroupsClaimed' /\ StraysAddressed' /\ SupersededEnds'
  BY <1>1, <1>4 DEF Inv, GroupsClaimed, StraysAddressed, SupersededEnds
<1>6. ClaimsCounted'
  <2>1. row.state \in {"unsent", "queued", "dispatching"} => row.claim <= retried'[m]
    BY <1>2, <1>3 DEF Inv, ClaimsCounted, Queues
  <2> QED BY <1>1, <1>3, <2>1 DEF Inv, ClaimsCounted
<1>7. TypeOK'
  <2>1. \A n \in Messages : rows'[n].claim <= retried'[n] + 1
    BY <1>1, <1>2, <1>3 DEF Inv, TypeOK
  <2> QED BY <1>1, <1>3, <1>4, <2>1 DEF Inv, TypeOK
<1>8. \A n \in Messages : Loses(n) \/ Retries(n)
  <2> TAKE n \in Messages
  <2>1. CASE n # m
    BY <1>1, <1>3, <1>4, <2>1 DEF Loses, Same, MayWrite, Left
  <2>2. CASE n = m /\ retried'[m] = retried[m] /\ Queues(m, row)
    BY <1>1, <1>4, <2>2 DEF Loses, Same, MayWrite, Left, Queues
  <2>3. CASE n = m /\ retried'[m] = retried[m] + 1 /\ rows[m].state \in Doubtful
    <3>1. ~MayWrite(m)
      BY <2>3, DeliveryAssumption DEF MayWrite, Doubtful, Inv, GroupsClaimed
    <3> QED BY <1>4, <2>3, <3>1 DEF Retries, Left
  <2> QED BY <1>3, <2>1, <2>2, <2>3
<1> QED BY <1>5, <1>6, <1>7, <1>8, <1>4, PermitsKept DEF Inv, TypeOK

(* The types the steps of the queue start from.                            *)
LEMMA RowTypes ==
    ASSUME Inv, NEW m \in Messages
    PROVE  /\ rows[m] \in Rows /\ rows[m].claim \in Nat /\ noticed[m] <= rows[m].claim
           /\ \A state \in States, superseded \in BOOLEAN :
                LET row == [rows[m] EXCEPT !.state = state, !.superseded = superseded]
                IN  /\ row \in Rows /\ row.state = state
                    /\ row.superseded = superseded /\ row.claim = rows[m].claim
BY DEF Inv, TypeOK, Rows

LEMMA NoticedTypes ==
    ASSUME Inv
    PROVE  /\ noticed \in [Messages -> Nat]
           /\ \A n \in Messages : rows[n].claim \in Nat /\ noticed[n] <= rows[n].claim
BY DEF Inv, TypeOK, Rows

LEMMA SendKeepsInv ==
    ASSUME Inv, NEW m \in Messages, Send(m)
    PROVE  Inv'
<1> DEFINE row == [rows[m] EXCEPT !.state = "queued", !.superseded = FALSE]
<1>1. rows[m].superseded = FALSE /\ rows[m].state = "unsent"
  BY DEF Send, Inv, TypeOK, Rows, SupersededEnds
<1>2. /\ row \in Rows /\ row.state = "queued" /\ row.superseded = FALSE
      /\ row.claim = rows[m].claim
  <2>1. "queued" \in States
    BY DEF States
  <2> QED BY <2>1, RowTypes
<1>3. row = [rows[m] EXCEPT !.state = "queued"]
  BY <1>1, RowTypes DEF Rows
<1>4. rows' = [rows EXCEPT ![m] = row] /\ UNCHANGED <<closed, noticed, retried, work, screen, faults>>
  BY <1>3 DEF Send
<1> HIDE DEF row
<1>5. \A n \in Messages : noticed'[n] <= rows'[n].claim
  BY <1>2, <1>4 DEF Inv, TypeOK
<1> QED BY <1>1, <1>2, <1>4, <1>5, QueueKeepsInv DEF Queues, Inv, TypeOK

LEMMA SupersedeKeepsInv ==
    ASSUME Inv, NEW m \in Messages, Supersede(m)
    PROVE  Inv'
<1> DEFINE state == IF rows[m].state = "queued" THEN "cancelled" ELSE rows[m].state
           row == [rows[m] EXCEPT !.state = state, !.superseded = TRUE]
<1>1. /\ state \in States \ {"unsent", "queued"}
      /\ state = "dispatching" <=> rows[m].state = "dispatching"
  BY RowTypes DEF Supersede, States, Doubtful
<1> HIDE DEF state
<1>2. /\ row \in Rows /\ row.state = state /\ row.superseded = TRUE
      /\ row.claim = rows[m].claim
  BY <1>1, RowTypes
<1>3. rows' = [rows EXCEPT ![m] = row] /\ UNCHANGED <<closed, noticed, retried, work, screen, faults>>
  BY DEF Supersede, Superseded, state
<1> HIDE DEF row
<1>4. \A n \in Messages : noticed'[n] <= rows'[n].claim
  BY <1>2, <1>3 DEF Inv, TypeOK
<1> QED BY <1>1, <1>2, <1>3, <1>4, QueueKeepsInv DEF Queues, Inv, TypeOK

LEMMA ReconcileKeepsInv ==
    ASSUME Inv, NEW m \in Messages, NEW retry \in BOOLEAN, Reconcile(m, retry)
    PROVE  Inv'
<1>1. /\ noticed' = [noticed EXCEPT ![m] = 0]
      /\ UNCHANGED <<closed, work, screen, faults>>
  BY DEF Reconcile
<1>2. CASE UNCHANGED <<rows, retried>>
  <2>1. UNCHANGED <<pass, job, terminal, stray, written, taken, faults, closed, rows, retried>>
    BY <1>1, <1>2 DEF work, screen
  <2>2. noticed' \in [Messages -> Nat] /\ \A n \in Messages : noticed'[n] <= rows'[n].claim
    BY <1>1, <2>1, NoticedTypes
  <2>3. TypeOK' /\ GroupsClaimed' /\ StraysAddressed' /\ ClaimsCounted' /\ SupersededEnds'
    BY <2>1, <2>2 DEF Inv, TypeOK, GroupsClaimed, StraysAddressed, ClaimsCounted, SupersededEnds
  <2>4. \A n \in Messages : Loses(n)
    BY <2>1 DEF Loses, Same, MayWrite, Left
  <2> QED BY <2>3, <2>4, PermitsKept DEF Inv, TypeOK
<1>3. CASE /\ rows[m].state \in Doubtful /\ (retry => ~rows[m].superseded)
           /\ rows' = [rows EXCEPT ![m].state = IF retry THEN "queued" ELSE "resolved"]
           /\ retry => retried[m] < MaxRetries[m]
           /\ retried' = IF retry THEN [retried EXCEPT ![m] = @ + 1] ELSE retried
  <2> DEFINE state == IF retry THEN "queued" ELSE "resolved"
             row == [rows[m] EXCEPT !.state = state, !.superseded = rows[m].superseded]
  <2>1. state \in States /\ (state = "queued" <=> retry) /\ state \notin {"unsent", "dispatching"}
    BY DEF States
  <2>2. rows' = [rows EXCEPT ![m] = row]
    BY <1>3, RowTypes DEF Rows
  <2> HIDE DEF state
  <2>3. rows[m].superseded \in BOOLEAN
    BY RowTypes DEF Rows
  <2>4. /\ row \in Rows /\ row.state = state /\ row.superseded = rows[m].superseded
        /\ row.claim = rows[m].claim
    <3>1. rows[m] \in Rows
      BY DEF Inv, TypeOK
    <3> QED BY <2>1, <2>3, <3>1 DEF Rows
  <2> HIDE DEF row
  <2>5. noticed' \in [Messages -> Nat] /\ \A n \in Messages : noticed'[n] <= rows'[n].claim
    <3>1. \A n \in Messages : rows'[n].claim = rows[n].claim
      BY <2>2, <2>4 DEF Inv, TypeOK
    <3> QED BY <1>1, <3>1, NoticedTypes
  <2>6. \A n \in Messages : retried'[n] <= MaxRetries[n]
    <3>1. /\ retried \in [Messages -> Nat] /\ \A n \in Messages : retried[n] <= MaxRetries[n]
          /\ \A n \in Messages : MaxRetries[n] \in Nat
      BY DeliveryAssumption DEF Inv, TypeOK
    <3>2. CASE retry /\ retried' = [retried EXCEPT ![m] = @ + 1] /\ retried[m] < MaxRetries[m]
      BY <3>1, <3>2
    <3>3. CASE retried' = retried
      BY <3>1, <3>3
    <3> QED BY <1>3, <3>2, <3>3
  <2>7. (retried' = retried /\ Queues(m, row)) \/ Requeues(m, row)
    BY <1>3, <2>1, <2>4 DEF Queues, Requeues
  <2>8. rows[m].state \notin {"unsent", "dispatching"}
    BY <1>3 DEF Doubtful
  <2>9. closed' \subseteq Messages
    BY <1>1 DEF Inv, TypeOK
  <2>10. /\ row.state = "dispatching" <=> rows[m].state = "dispatching"
         /\ row.state = "unsent" => rows[m].state = "unsent"
         /\ row.superseded => row.state \notin {"unsent", "queued"}
    BY <1>3, <2>1, <2>4, <2>8
  <2> QED BY <1>1, <2>2, <2>4, <2>5, <2>6, <2>7, <2>9, <2>10, QueueKeepsInv
<1> QED BY <1>2, <1>3 DEF Reconcile

(* A task that closes, and what Queen reads, change no row.                *)
LEMMA NotedKeepsInv ==
    ASSUME Inv, NEW m \in Messages, Close(m) \/ Notice(m)
    PROVE  Inv'
<1>1. UNCHANGED <<pass, job, terminal, stray, written, taken, faults, rows, retried>>
  BY DEF Close, Notice, work, screen
<1>2. closed' \subseteq Messages
  BY DEF Close, Notice, Inv, TypeOK
<1>3. noticed' \in [Messages -> Nat] /\ \A n \in Messages : noticed'[n] <= rows'[n].claim
  <2>1. noticed' = noticed \/ noticed' = [noticed EXCEPT ![m] = rows[m].claim]
    BY DEF Close, Notice
  <2> QED BY <1>1, <2>1, NoticedTypes
<1>4. TypeOK' /\ GroupsClaimed' /\ StraysAddressed' /\ ClaimsCounted' /\ SupersededEnds'
  BY <1>1, <1>2, <1>3 DEF Inv, TypeOK, GroupsClaimed, StraysAddressed, ClaimsCounted, SupersededEnds
<1>5. \A n \in Messages : Loses(n)
  BY <1>1 DEF Loses, Same, MayWrite, Left
<1> QED BY <1>4, <1>5, PermitsKept DEF Inv, TypeOK

-----------------------------------------------------------------------------
(* The theorems.                                                           *)

LEMMA InitInv == Init => Inv
<1> SUFFICES ASSUME Init PROVE Inv
  OBVIOUS
<1>1. /\ [state |-> "unsent", superseded |-> FALSE, claim |-> 0] \in Rows
      /\ NoJob \in Jobs /\ Blank \in Terminals /\ NoStray \in Strays
  BY DeliveryAssumption
  DEF Rows, States, NoJob, Jobs, Stages, Results, Blank, Terminals, NoStray, Strays
<1>2. \A m \in Messages : MaxRetries[m] >= 0 /\ 0 \in 0..0
  BY DeliveryAssumption
<1>3. TypeOK
  <2>1. \A w \in Workers : job[w].group = {}
    BY DEF Init, NoJob
  <2>2. faults \in 0..MaxFaults
    BY DeliveryAssumption DEF Init
  <2> QED BY <1>1, <1>2, <2>1, <2>2 DEF Init, TypeOK
<1>4. GroupsClaimed /\ StraysAddressed /\ ClaimsCounted /\ SupersededEnds
  BY DEF Init, NoJob, NoStray, GroupsClaimed, StraysAddressed, ClaimsCounted, SupersededEnds
<1>5. Permits
  BY DeliveryAssumption DEF Init, NoStray, Permits, Left
<1> QED BY <1>3, <1>4, <1>5 DEF Inv

LEMMA NextKeepsInv == Inv /\ [Next]_vars => Inv'
<1> SUFFICES ASSUME Inv, [Next]_vars PROVE Inv'
  OBVIOUS
<1>1. ASSUME NEW m \in Messages,
             \/ Send(m) \/ Supersede(m) \/ Close(m) \/ Notice(m)
             \/ \E retry \in BOOLEAN : Reconcile(m, retry)
             \/ Finish(m) \/ FinishFails(m)
      PROVE  Inv'
  BY <1>1, SendKeepsInv, SupersedeKeepsInv, NotedKeepsInv, ReconcileKeepsInv,
     FinishKeepsInv, FinishFailsKeepsInv
<1>2. CASE Recover \/ Claim \/ EndPass \/ CutOff
  BY <1>2, RecoverKeepsInv, ClaimKeepsInv, EndPassKeepsInv, CutOffKeepsInv
<1>3. ASSUME NEW w \in Workers, Submitting(w) \/ ReadFails(w)
      PROVE  Inv'
  BY <1>3, CheckKeepsInv, BaselineKeepsInv, WriteAnsweredKeepsInv, UnansweredKeepsInv,
     RenderKeepsInv, EnterAnsweredKeepsInv, LookKeepsInv, ReadFailsKeepsInv DEF Submitting
<1>4. ASSUME NEW w \in Workers,
             StrayText(w) \/ StrayEnter(w) \/ Operator(w) \/ TurnEnds(w) \/ Exit(w) \/ Start(w)
      PROVE  Inv'
  BY <1>4, StrayTextKeepsInv, TerminalKeepsInv, ExitKeepsInv
<1>5. CASE UNCHANGED vars
  <2>1. UNCHANGED <<rows, closed, noticed, pass, job, terminal, stray, written, taken, retried, faults>>
    BY <1>5 DEF vars, store, work, screen
  <2>2. TypeOK' /\ GroupsClaimed' /\ StraysAddressed' /\ ClaimsCounted' /\ SupersededEnds'
    BY <2>1 DEF Inv, TypeOK, GroupsClaimed, StraysAddressed, ClaimsCounted, SupersededEnds
  <2>3. \A m \in Messages : Loses(m)
    BY <2>1 DEF Loses, Same, MayWrite, Left
  <2> QED BY <2>2, <2>3, PermitsKept DEF Inv, TypeOK
<1> QED BY <1>1, <1>2, <1>3, <1>4, <1>5 DEF Next

(* The invariant of the permits holds in every reachable state.            *)
THEOREM PermitInvariant == Spec => []Inv
<1> QED BY InitInv, NextKeepsInv, PTL DEF Spec

(* Every variable keeps its type, and a group holds what is for its        *)
(* terminal (submit_task_message_groups).                                  *)
THEOREM DeliveryTypes == Spec => []TypeOK
<1>1. Inv => TypeOK
  BY DEF Inv
<1> QED BY <1>1, PermitInvariant, PTL

(* No text reaches a prompt more often than once and once more for every   *)
(* retry Queen asked for (finish_task_message, recover_task_message_claims *)
(* and reconcile_task_message), whatever is lost, late or cut off.         *)
THEOREM NeverUnasked == Spec => []NoUnaskedReplay
<1>1. Inv => NoUnaskedReplay
  BY DEF Inv, Permits, NoUnaskedReplay
<1> QED BY <1>1, PermitInvariant, PTL

(* What cancel_queued_review superseded is never queued again.             *)
THEOREM SupersededNeverQueued == Spec => []SupersededStays
<1>1. Inv => SupersededStays
  BY DEF Inv, TypeOK, SupersededEnds, SupersededStays
<1> QED BY <1>1, PermitInvariant, PTL
=============================================================================
