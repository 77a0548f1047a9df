-------------------------- MODULE ClaimHandoffProofs --------------------------
(***************************************************************************)
(* Theorems about ClaimHandoff, for any members, issues, claims, handoffs  *)
(* and passes.                                                             *)
(*                                                                         *)
(* What a row, a journal entry or a pass' copy of one says is true of the  *)
(* Keeper and of Jira, and stays true: the Keeper forgets no claim it      *)
(* made, Jira's word is remembered, and who was the home of an issue has   *)
(* been it for ever (Grows).  So a copy may be as old as it likes.  From   *)
(* that, and from the Keeper's one active claim per issue and one active   *)
(* handoff per claim, follow the properties and the refinement.            *)
(***************************************************************************)
EXTENDS ClaimHandoff, TLAPS

-----------------------------------------------------------------------------
(* What is once true of the Keeper and of Jira.                            *)

\* The Keeper made claim c, for issue i.
Known(c, i) == c \in Claims /\ claims[c].state # "none" /\ claims[c].issue = i

\* Jira said that the issue is assigned to the operator of h.
Has(h, i) == i \in assigned[h]

\* The Keeper made h the home of the issue.
Was(h, i) == \E c \in Claims : claims[c].issue = i /\ WasHome(h, c)

\* The handoff was accepted, for h and an issue i.
Going(h, x, i) ==
    /\ x \in Handoffs /\ handoffs[x].state \in {"accepted", "completed"}
    /\ handoffs[x].target = h
    /\ Known(handoffs[x].claim, i)

Done(x) == handoffs[x].state = "completed"

-----------------------------------------------------------------------------
(* The parts of the inductive invariant.                                   *)

Open == {"reserved", "confirmed"}
Active == {"offered", "accepted"}

ClaimsSound ==
    /\ \A c \in Claims :
         claims[c].state # "none" => claims[c].issue \in Issues /\ claims[c].home \in Hives
    /\ \A c, d \in Claims :
         claims[c].state \in Open /\ claims[d].state \in Open
           /\ claims[c].issue = claims[d].issue => c = d
    /\ JiraBeforeHome

HandoffSound(x) ==
    /\ handoffs[x].claim \in Claims
    /\ handoffs[x].source \in Hives /\ handoffs[x].target \in Hives
    /\ claims[handoffs[x].claim].state = "confirmed"
    /\ handoffs[x].state \in Active =>
         /\ claims[handoffs[x].claim].home = handoffs[x].source
         /\ handoffs[x].source # handoffs[x].target
    /\ handoffs[x].state = "completed" => WasHome(handoffs[x].target, handoffs[x].claim)

HandoffsSound ==
    /\ \A x \in Handoffs :
         handoffs[x].state \in {"offered", "accepted", "completed"} => HandoffSound(x)
    /\ \A x, y \in Handoffs :
         handoffs[x].state \in Active /\ handoffs[y].state \in Active
           /\ handoffs[x].claim = handoffs[y].claim => x = y

\* What a claim intent of h, or a copy of it, says.
CopySound(h, r) ==
    /\ r.phase \in {"reserved", "jira_assigned", "confirmed"} => Known(r.claim, r.issue)
    /\ r.phase \in {"jira_assigned", "confirmed"} => Has(h, r.issue)
    /\ r.phase = "confirmed" => Was(h, r.issue)

\* What the intent of h for a handoff says.
IntentSound(h, x, phase) ==
    \E i \in Issues :
        /\ Going(h, x, i)
        /\ phase \in {"jira_assigned", "keeper_confirmed"} => Has(h, i)
        /\ phase = "keeper_confirmed" => Done(x)

RowsSound ==
    \A h \in Hives, i \in Issues : rows[h][i].issue = i /\ CopySound(h, rows[h][i])

JournalSound ==
    \A x \in Handoffs : journal[x] # "none" => IntentSound(handoffs[x].target, x, journal[x])

JobSound(h, step, job) ==
    \/ step \in {"claims", "assign"} /\ job \in ClaimJobs /\ CopySound(h, job)
    \/ step = "handoffs" /\ job \in HandoffJobs /\ IntentSound(h, job.handoff, job.phase)

PassOK(h, q) ==
    /\ \A job \in q.left : JobSound(h, q.step, job)
    /\ q.job # None => JobSound(h, q.step, q.job)

PassSound == \A p \in Passes : PassOK(Hive(p), pass[p])

KeeperSound == ClaimsSound /\ HandoffsSound
MemberSound == RowsSound /\ JournalSound /\ PassSound /\ ImportedWasHome
IInv == TypeOK /\ KeeperSound /\ MemberSound

Grows ==
    /\ \A c, i : Known(c, i) => Known(c, i)'
    /\ \A h \in Hives : \A i \in Issues : Has(h, i) => Has(h, i)'
    /\ \A h \in Hives : \A c \in Claims : WasHome(h, c) => WasHome(h, c)'
    /\ \A h, x, i : Going(h, x, i) => Going(h, x, i)'
    /\ \A h, x, i : Going(h, x, i) /\ Done(x) => Done(x)'

-----------------------------------------------------------------------------
(* What copies say lasts.                                                  *)

\* What a row or a copy of it says is still true after any step that only adds
\* to what the Keeper and Jira have said.
LEMMA CopiesLast ==
    ASSUME Grows
    PROVE  \A h \in Hives : \A r : r.issue \in Issues /\ CopySound(h, r) => CopySound(h, r)'
<1> SUFFICES ASSUME NEW h \in Hives, NEW r, r.issue \in Issues, CopySound(h, r)
             PROVE  CopySound(h, r)'
    OBVIOUS
<1>1. \A c, i : Known(c, i) => Known(c, i)'
    BY DEF Grows
<1>2. Has(h, r.issue) => Has(h, r.issue)'
    BY DEF Grows
<1>3. Was(h, r.issue) => Was(h, r.issue)'
    <2>1. ASSUME NEW c \in Claims, claims[c].issue = r.issue, WasHome(h, c)
          PROVE  WasHome(h, c)' /\ claims'[c].issue = r.issue
        <3>1. WasHome(h, c)'
            BY <2>1 DEF Grows
        <3>2. Known(c, r.issue)
            BY <2>1 DEF Known, WasHome
        <3> QED BY <3>1, <3>2, <1>1 DEF Known
    <2> QED BY <2>1 DEF Was
<1> QED BY <1>1, <1>2, <1>3 DEF CopySound

\* So does what the intent for a handoff says.
LEMMA IntentsLast ==
    ASSUME Grows
    PROVE  \A h \in Hives : \A x, phase :
               IntentSound(h, x, phase) => IntentSound(h, x, phase)'
<1> SUFFICES ASSUME NEW h \in Hives, NEW x, NEW phase, IntentSound(h, x, phase)
             PROVE  IntentSound(h, x, phase)'
    OBVIOUS
<1>1. PICK i \in Issues :
        /\ Going(h, x, i)
        /\ phase \in {"jira_assigned", "keeper_confirmed"} => Has(h, i)
        /\ phase = "keeper_confirmed" => Done(x)
    BY DEF IntentSound
<1>2. Going(h, x, i)'
    BY <1>1 DEF Grows
<1>3. Has(h, i) => Has(h, i)'
    BY DEF Grows
<1>4. Done(x) => Done(x)'
    BY <1>1 DEF Grows
<1> QED BY <1>1, <1>2, <1>3, <1>4 DEF IntentSound

\* And so does what a pass has in hand.
LEMMA JobsLast ==
    ASSUME Grows
    PROVE  \A h \in Hives : \A step, job : JobSound(h, step, job) => JobSound(h, step, job)'
<1> SUFFICES ASSUME NEW h \in Hives, NEW step, NEW job, JobSound(h, step, job)
             PROVE  JobSound(h, step, job)'
    OBVIOUS
<1>1. job \in ClaimJobs /\ CopySound(h, job) => CopySound(h, job)'
    BY CopiesLast DEF ClaimJobs
<1>2. IntentSound(h, job.handoff, job.phase) => IntentSound(h, job.handoff, job.phase)'
    BY IntentsLast
<1> QED BY <1>1, <1>2 DEF JobSound

-----------------------------------------------------------------------------
(* How the member's state moves.                                           *)

LEMMA RowsKeep ==
    ASSUME Grows, RowsSound, UNCHANGED rows
    PROVE  RowsSound'
BY CopiesLast DEF RowsSound

LEMMA RowsMove ==
    ASSUME Grows, RowsSound, TypeOK, NEW h \in Hives, NEW i \in Issues, NEW row,
           rows' = [rows EXCEPT ![h][i] = row],
           row.issue = i, CopySound(h, row)'
    PROVE  RowsSound'
<1> SUFFICES ASSUME NEW g \in Hives, NEW j \in Issues
             PROVE  (rows[g][j].issue = j /\ CopySound(g, rows[g][j]))'
    BY DEF RowsSound
<1> PICK r : r = rows'[g][j]
    OBVIOUS
<1>1. r = IF g = h /\ j = i THEN row ELSE rows[g][j]
    BY DEF TypeOK
<1>2. r.issue = j /\ CopySound(g, r)'
    BY <1>1, CopiesLast DEF RowsSound
<1> QED BY <1>2 DEF CopySound, Known, Has, Was, WasHome

LEMMA JournalKeep ==
    ASSUME Grows, JournalSound, HandoffsSound, TypeOK, UNCHANGED journal
    PROVE  JournalSound'
<1> SUFFICES ASSUME NEW x \in Handoffs, journal'[x] # "none"
             PROVE  IntentSound(handoffs[x].target, x, journal[x])'
    BY DEF JournalSound
<1> PICK h, phase : h = handoffs[x].target /\ phase = journal[x]
    OBVIOUS
<1>1. IntentSound(h, x, phase)
    BY DEF JournalSound
<1>2. h \in Hives
    BY <1>1 DEF IntentSound, Going, HandoffsSound, HandoffSound
<1>3. IntentSound(h, x, phase)'
    BY <1>1, <1>2, IntentsLast
<1>4. handoffs'[x].target = h
    BY <1>3 DEF IntentSound, Going
<1> QED BY <1>3, <1>4 DEF IntentSound, Going, Known, Has, Done

LEMMA JournalMove ==
    ASSUME Grows, JournalSound, HandoffsSound, TypeOK,
           NEW x \in Handoffs, NEW h \in Hives, NEW phase,
           journal' = [journal EXCEPT ![x] = phase],
           IntentSound(h, x, phase)'
    PROVE  JournalSound'
<1> SUFFICES ASSUME NEW y \in Handoffs, journal'[y] # "none"
             PROVE  IntentSound(handoffs[y].target, y, journal[y])'
    BY DEF JournalSound
<1>1. CASE y = x
    <2>1. journal'[y] = phase /\ handoffs'[y].target = h
        BY <1>1 DEF TypeOK, IntentSound, Going
    <2> QED BY <1>1, <2>1 DEF IntentSound, Going, Known, Has, Done
<1>2. CASE y # x
    <2> PICK g, old : g = handoffs[y].target /\ old = journal[y]
        OBVIOUS
    <2>1. IntentSound(g, y, old) /\ journal'[y] = old
        BY <1>2 DEF JournalSound, TypeOK
    <2>2. g \in Hives
        BY <2>1 DEF IntentSound, Going, HandoffsSound, HandoffSound
    <2>3. IntentSound(g, y, old)'
        BY <2>1, <2>2, IntentsLast
    <2>4. handoffs'[y].target = g
        BY <2>3 DEF IntentSound, Going
    <2> QED BY <2>1, <2>3, <2>4 DEF IntentSound, Going, Known, Has, Done
<1> QED BY <1>1, <1>2

LEMMA PassesLast ==
    ASSUME Grows
    PROVE  \A h \in Hives : \A q : PassOK(h, q) => PassOK(h, q)'
BY JobsLast DEF PassOK

\* A record that is what a pass will be, and sound then, makes the pass sound.
LEMMA PassSubst ==
    ASSUME NEW h, NEW p, NEW q, q = pass'[p], PassOK(h, q)'
    PROVE  PassOK(h, pass[p])'
BY DEF PassOK, JobSound, CopySound, IntentSound, Known, Has, Was, WasHome, Going, Done

LEMMA PassKeep ==
    ASSUME Grows, PassSound, HandoffAssumption, UNCHANGED pass
    PROVE  PassSound'
<1> SUFFICES ASSUME NEW p \in Passes
             PROVE  PassOK(Hive(p), pass[p])'
    BY DEF PassSound
<1> PICK h, q : h = Hive(p) /\ q = pass[p]
    OBVIOUS
<1>1. h \in Hives /\ PassOK(h, q)
    BY DEF PassSound, Hive, HandoffAssumption
<1>2. PassOK(h, q)'
    BY <1>1, PassesLast
<1>3. PassOK(h, pass[p])'
    BY <1>2, PassSubst
<1> QED BY <1>3 DEF Hive

LEMMA PassMove ==
    ASSUME Grows, PassSound, TypeOK, HandoffAssumption, NEW p \in Passes, NEW q,
           pass' = [pass EXCEPT ![p] = q],
           PassOK(HiveOf[p], q)'
    PROVE  PassSound'
<1> SUFFICES ASSUME NEW o \in Passes
             PROVE  PassOK(Hive(o), pass[o])'
    BY DEF PassSound
<1> PICK h, r : h = HiveOf[o] /\ r = pass'[o]
    OBVIOUS
<1>1. PassOK(h, r)'
    <2>1. CASE o = p
        BY <2>1 DEF TypeOK
    <2>2. CASE o # p
        <3>1. PassOK(h, r) /\ h \in Hives
            BY <2>2 DEF TypeOK, PassSound, Hive, HandoffAssumption
        <3> QED BY <3>1, PassesLast
    <2> QED BY <2>1, <2>2
<1>2. PassOK(h, pass[o])'
    BY <1>1, PassSubst
<1> QED BY <1>2 DEF Hive

-----------------------------------------------------------------------------
(* The Keeper.                                                             *)

\* Jira may say more while the Keeper's store stays as it is.
LEMMA KeeperKeep ==
    ASSUME TypeOK, KeeperSound, UNCHANGED keeper,
           \A h \in Hives : assigned[h] \subseteq assigned'[h]
    PROVE  Grows /\ KeeperSound'
<1>1. Grows
    BY DEF Grows, Known, Has, WasHome, Going, Done, keeper
<1>2. ClaimsSound'
    <2>1. JiraBeforeHome'
        BY DEF KeeperSound, ClaimsSound, JiraBeforeHome, keeper
    <2> QED BY <2>1 DEF KeeperSound, ClaimsSound, keeper
<1>3. HandoffsSound'
    BY DEF KeeperSound, HandoffsSound, HandoffSound, WasHome, keeper
<1> QED BY <1>1, <1>2, <1>3 DEF KeeperSound

\* A claim may change its state, but keeps its issue and its home, and stays
\* confirmed.
LEMMA ClaimsMove ==
    ASSUME TypeOK, KeeperSound, UNCHANGED <<handoffs, assigned>>,
           \A c \in Claims : claims[c].state # "none" =>
             /\ claims'[c].state # "none"
             /\ claims'[c].issue = claims[c].issue /\ claims'[c].home = claims[c].home
             /\ claims[c].state = "confirmed" => claims'[c].state = "confirmed",
           ClaimsSound'
    PROVE  Grows /\ KeeperSound'
<1>1. \A h : \A c \in Claims : WasHome(h, c) => WasHome(h, c)'
    BY DEF WasHome
<1>2. Grows
    BY <1>1 DEF Grows, Known, Has, Going, Done
<1>3. HandoffsSound'
    BY <1>1 DEF KeeperSound, HandoffsSound, HandoffSound, Active, WasHome
<1> QED BY <1>2, <1>3 DEF KeeperSound

\* A reservation that is over makes room for another one.
LEMMA ReserveSound ==
    ASSUME TypeOK, KeeperSound, NEW h \in Hives, NEW i \in Issues, NEW c \in Claims,
           Reserve(h, i, c), UNCHANGED <<handoffs, assigned>>
    PROVE  Grows /\ KeeperSound' /\ Known(c, i)'
<1>1. CASE c \in ActiveClaims(i) /\ UNCHANGED claims
    <2>1. Known(c, i)
        BY <1>1 DEF ActiveClaims, Known
    <2>2. ClaimsSound'
        BY <1>1 DEF KeeperSound, ClaimsSound, JiraBeforeHome
    <2>3. Grows /\ KeeperSound'
        BY <1>1, <2>2, ClaimsMove
    <2> QED BY <2>1, <2>3 DEF Grows
<1>2. CASE /\ ActiveClaims(i) = {}
           /\ \E d \in Claims : claims[d].state = "none"
           /\ c = CHOOSE d \in Claims : claims[d].state = "none"
           /\ claims' = [Expire(i) EXCEPT ![c] = [state |-> "reserved", issue |-> i, home |-> h]]
    <2>1. claims[c].state = "none"
        BY <1>2
    <2>2. /\ claims'[c] = [state |-> "reserved", issue |-> i, home |-> h]
          /\ \A d \in Claims \ {c} :
               /\ claims'[d].issue = claims[d].issue /\ claims'[d].home = claims[d].home
               /\ claims'[d].state = IF d \in Expired(i) THEN "expired" ELSE claims[d].state
        BY <1>2 DEF Expire, TypeOK
    <2>3. \A d \in Expired(i) : claims[d].state = "reserved"
        BY DEF Expired
    <2>4. \A d \in Claims \ {c} : claims'[d].state \in Open => claims'[d].issue # i
        BY <1>2, <2>2 DEF ActiveClaims, Open
    <2>5. ClaimsSound'
        BY <2>2, <2>3, <2>4 DEF KeeperSound, ClaimsSound, JiraBeforeHome, Open
    <2>6. Grows /\ KeeperSound'
        BY <2>1, <2>2, <2>3, <2>5, ClaimsMove
    <2> QED BY <2>2, <2>6 DEF Known
<1> QED BY <1>1, <1>2 DEF Reserve

\* A claim is confirmed, or turns out to be over.
LEMMA ConfirmSound ==
    ASSUME TypeOK, KeeperSound, NEW c \in Claims, NEW state,
           claims' = [claims EXCEPT ![c].state = state],
           claims[c].state # "none",
           \/ state = "confirmed" /\ claims[c].state \in Open /\ Has(claims[c].home, claims[c].issue)
           \/ state = "expired" /\ claims[c].state # "confirmed"
           \/ state = claims[c].state,
           UNCHANGED <<handoffs, assigned>>
    PROVE  Grows /\ KeeperSound'
<1>1. \A d \in Claims :
        /\ claims'[d].issue = claims[d].issue /\ claims'[d].home = claims[d].home
        /\ claims'[d].state = IF d = c THEN state ELSE claims[d].state
    BY DEF TypeOK
<1>2. ClaimsSound'
    <2>1. JiraBeforeHome'
        BY <1>1 DEF KeeperSound, ClaimsSound, JiraBeforeHome, Has
    <2> QED BY <1>1, <2>1 DEF KeeperSound, ClaimsSound, Open
<1> QED BY <1>1, <1>2, ClaimsMove

\* The handoff of a claim is offered to another Hive.
LEMMA OfferSound ==
    ASSUME TypeOK, KeeperSound, HandoffAssumption,
           NEW x \in Handoffs, NEW c \in Claims, NEW to \in Hives, Offer(x, c, to)
    PROVE  Grows /\ KeeperSound'
<1>1. /\ handoffs[x].state = "none"
      /\ handoffs'[x] = [state |-> "offered", claim |-> c, source |-> claims[c].home, target |-> to]
      /\ \A y \in Handoffs \ {x} : handoffs'[y] = handoffs[y]
      /\ UNCHANGED <<claims, assigned>>
    BY DEF Offer, TypeOK, jira
<1>2. claims[c].state = "confirmed" /\ to # claims[c].home /\ claims[c].home \in Hives
    BY DEF Offer, KeeperSound, ClaimsSound
<1>3. \A y \in Handoffs : handoffs[y].state \in Active => handoffs[y].claim # c
    BY DEF Offer, ActiveHandoffs, Active
<1>4. \A h : \A d \in Claims : WasHome(h, d) => WasHome(h, d)'
    BY <1>1 DEF WasHome
<1>5. Grows
    BY <1>1, <1>4 DEF Grows, Known, Has, Going, Done
<1>6. ClaimsSound'
    BY <1>1 DEF KeeperSound, ClaimsSound, JiraBeforeHome
<1>7. \A y \in Handoffs :
        handoffs'[y].state \in {"offered", "accepted", "completed"} => HandoffSound(y)'
    BY <1>1, <1>2, <1>4 DEF KeeperSound, HandoffsSound, HandoffSound, Active, WasHome
<1>8. \A y, z \in Handoffs :
         handoffs'[y].state \in Active /\ handoffs'[z].state \in Active
           /\ handoffs'[y].claim = handoffs'[z].claim => y = z
    BY <1>1, <1>3 DEF KeeperSound, HandoffsSound
<1> QED BY <1>5, <1>6, <1>7, <1>8 DEF KeeperSound, HandoffsSound

\* The answer to an offer.
LEMMA AnswerSound ==
    ASSUME TypeOK, KeeperSound, NEW x \in Handoffs, handoffs[x].state = "offered",
           NEW state \in {"accepted", "closed"},
           handoffs' = [handoffs EXCEPT ![x].state = state], UNCHANGED <<claims, assigned>>
    PROVE  Grows /\ KeeperSound'
<1>1. \A y \in Handoffs :
        /\ handoffs'[y].claim = handoffs[y].claim
        /\ handoffs'[y].source = handoffs[y].source /\ handoffs'[y].target = handoffs[y].target
        /\ handoffs'[y].state = IF y = x THEN state ELSE handoffs[y].state
    BY DEF TypeOK
<1>2. \A h : \A d \in Claims : WasHome(h, d) => WasHome(h, d)'
    BY <1>1 DEF WasHome
<1>3. Grows
    BY <1>1, <1>2 DEF Grows, Known, Has, Going, Done
<1>4. ClaimsSound'
    BY DEF KeeperSound, ClaimsSound, JiraBeforeHome
<1>5. \A y \in Handoffs :
        handoffs'[y].state \in {"offered", "accepted", "completed"} => HandoffSound(y)'
    BY <1>1, <1>2 DEF KeeperSound, HandoffsSound, HandoffSound, Active, WasHome
<1>6. \A y, z \in Handoffs :
         handoffs'[y].state \in Active /\ handoffs'[z].state \in Active
           /\ handoffs'[y].claim = handoffs'[z].claim => y = z
    BY <1>1 DEF KeeperSound, HandoffsSound, Active
<1> QED BY <1>3, <1>4, <1>5, <1>6 DEF KeeperSound, HandoffsSound

\* The home moves to the target, whose operator Jira said has the issue.
LEMMA CompleteSound ==
    ASSUME TypeOK, KeeperSound, NEW x \in Handoffs, handoffs[x].state = "accepted",
           Has(handoffs[x].target, claims[handoffs[x].claim].issue),
           Complete(x), UNCHANGED assigned
    PROVE  Grows /\ KeeperSound' /\ Done(x)'
<1> PICK c, s, t : c = handoffs[x].claim /\ s = handoffs[x].source /\ t = handoffs[x].target
    OBVIOUS
<1>1. /\ c \in Claims /\ s \in Hives /\ t \in Hives /\ s # t
      /\ claims[c].state = "confirmed" /\ claims[c].home = s
      /\ Has(t, claims[c].issue)
    BY DEF KeeperSound, HandoffsSound, HandoffSound, Active
<1>2. /\ \A y \in Handoffs :
            /\ handoffs'[y].claim = handoffs[y].claim
            /\ handoffs'[y].source = handoffs[y].source /\ handoffs'[y].target = handoffs[y].target
            /\ handoffs'[y].state = IF y = x THEN "completed" ELSE handoffs[y].state
      /\ \A d \in Claims :
            /\ claims'[d].issue = claims[d].issue /\ claims'[d].state = claims[d].state
            /\ claims'[d].home = IF d = c THEN t ELSE claims[d].home
    BY <1>1 DEF TypeOK, Complete
<1>3. \A h : \A d \in Claims : WasHome(h, d) => WasHome(h, d)'
    BY <1>1, <1>2 DEF WasHome
<1>4. Grows
    <2>1. \A d, i : Known(d, i) => Known(d, i)'
        BY <1>2 DEF Known
    <2> QED BY <1>2, <1>3, <2>1 DEF Grows, Has, Going, Done
<1>5. ClaimsSound'
    BY <1>1, <1>2 DEF KeeperSound, ClaimsSound, JiraBeforeHome, Has
<1>6. \A y \in Handoffs \ {x} : handoffs[y].state \in Active => handoffs[y].claim # c
    BY DEF KeeperSound, HandoffsSound, Active
<1>7. \A y \in Handoffs :
        handoffs'[y].state \in {"offered", "accepted", "completed"} => HandoffSound(y)'
    <2> SUFFICES ASSUME NEW y \in Handoffs,
                        handoffs'[y].state \in {"offered", "accepted", "completed"}
                 PROVE  HandoffSound(y)'
        OBVIOUS
    <2>1. CASE y = x
        BY <2>1, <1>1, <1>2 DEF HandoffSound, Active, WasHome
    <2>2. CASE y # x
        <3>1. HandoffSound(y) /\ handoffs'[y].state = handoffs[y].state
            BY <2>2, <1>2 DEF KeeperSound, HandoffsSound
        <3> PICK g, d : g = handoffs[y].target /\ d = handoffs[y].claim
            OBVIOUS
        <3>2. handoffs'[y].state = "completed" => WasHome(g, d)'
            BY <3>1, <1>3 DEF HandoffSound
        <3>3. d \in Claims /\ claims'[d].state = "confirmed" /\ g \in Hives
            BY <3>1, <1>2 DEF HandoffSound
        <3>4. handoffs[y].state \in Active =>
                claims'[d].home = handoffs[y].source /\ handoffs[y].source # g
            BY <2>2, <3>1, <3>3, <1>2, <1>6 DEF HandoffSound
        <3>5. handoffs[y].source \in Hives
            BY <3>1 DEF HandoffSound
        <3>6. /\ handoffs'[y].claim = d /\ handoffs'[y].target = g
              /\ handoffs'[y].source = handoffs[y].source
            BY <1>2
        <3> QED BY <3>1, <3>2, <3>3, <3>4, <3>5, <3>6 DEF HandoffSound
    <2> QED BY <2>1, <2>2
<1>8. \A y, z \in Handoffs :
         handoffs'[y].state \in Active /\ handoffs'[z].state \in Active
           /\ handoffs'[y].claim = handoffs'[z].claim => y = z
    BY <1>2 DEF KeeperSound, HandoffsSound, Active
<1> QED BY <1>2, <1>4, <1>5, <1>7, <1>8 DEF KeeperSound, HandoffsSound, Done

-----------------------------------------------------------------------------
(* How a pass goes on.                                                     *)

PassType == pass \in [Passes -> [step : {"idle", "claims", "assign", "handoffs"},
                                 left : SUBSET Jobs, job : Jobs \union {None}]]
RowsType == rows \in [Hives -> [Issues -> [issue : Issues, nth : Nat, phase : Phases,
                                           claim : Claims \union {None}]]]

LEMMA EndMove ==
    ASSUME Grows, IInv, HandoffAssumption, NEW p \in Passes, End(p)
    PROVE  PassSound' /\ PassType'
<1>1. PassOK(HiveOf[p], Idle)'
    BY DEF PassOK, Idle
<1>2. PassSound'
    BY <1>1, PassMove DEF IInv, MemberSound, End
<1> QED BY <1>2 DEF IInv, TypeOK, PassType, End, Idle

\* What is next in hand comes from the jobs that are left.
LEMMA LoadMove ==
    ASSUME Grows, IInv, HandoffAssumption, NEW p \in Passes, NEW h, h = Hive(p),
           NEW step \in {"claims", "handoffs"}, NEW jobs \in SUBSET Jobs,
           jobs = {} => pass[p].left = {},
           \A job \in jobs : JobSound(h, step, job)',
           Load(p, step, jobs)
    PROVE  PassSound' /\ PassType'
<1>1. CASE \E job \in jobs :
             pass' = [pass EXCEPT ![p] = [step |-> step, left |-> jobs \ {job}, job |-> job]]
    <2> PICK job \in jobs :
             pass' = [pass EXCEPT ![p] = [step |-> step, left |-> jobs \ {job}, job |-> job]]
        BY <1>1
    <2> DEFINE q == [step |-> step, left |-> jobs \ {job}, job |-> job]
    <2>1. PassOK(h, q)'
        BY DEF PassOK
    <2> HIDE DEF q
    <2>2. pass' = [pass EXCEPT ![p] = q]
        BY DEF q
    <2>3. PassSound'
        BY <2>1, <2>2, PassMove DEF IInv, MemberSound, Hive
    <2>4. PassType'
        BY DEF IInv, TypeOK, PassType
    <2> QED BY <2>3, <2>4
<1>2. CASE jobs = {} /\ step = "handoffs" /\ End(p)
    BY <1>2, EndMove
<1>3. CASE jobs = {} /\ Work(p, step, None)
    <2> DEFINE q == [step |-> step, left |-> {}, job |-> None]
    <2>1. PassOK(h, q)'
        BY DEF PassOK
    <2>2. pass' = [pass EXCEPT ![p] = q]
        BY <1>3 DEF Work
    <2>3. PassType'
        BY <2>2 DEF IInv, TypeOK, PassType
    <2> HIDE DEF q
    <2>4. PassSound'
        BY <2>1, <2>2, PassMove DEF IInv, MemberSound, Hive
    <2> QED BY <2>3, <2>4
<1> QED BY <1>1, <1>2, <1>3 DEF Load

\* The pass turns to what is left of its stage.
LEMMA NextJobMove ==
    ASSUME Grows, IInv, HandoffAssumption, NEW p \in Passes, NEW step \in {"claims", "handoffs"},
           step = "handoffs" => pass[p].step = "handoffs",
           step = "claims" => pass[p].step \in {"claims", "assign"},
           NextJob(p, step)
    PROVE  PassSound' /\ PassType'
<1> PICK h, jobs : h = Hive(p) /\ jobs = pass[p].left
    OBVIOUS
<1>1. jobs \in SUBSET Jobs /\ h \in Hives
    BY DEF IInv, TypeOK, Hive, HandoffAssumption
<1>2. \A job \in jobs : JobSound(h, step, job)
    BY DEF IInv, MemberSound, PassSound, PassOK, JobSound
<1>3. \A job \in jobs : JobSound(h, step, job)'
    BY <1>1, <1>2, JobsLast
<1>4. Load(p, step, jobs)
    BY DEF NextJob
<1> QED BY <1>1, <1>3, <1>4, LoadMove

\* The pass goes on with the job it has in hand.
LEMMA WorkMove ==
    ASSUME Grows, IInv, HandoffAssumption, NEW p \in Passes, NEW h, h = Hive(p),
           NEW step \in {"claims", "assign", "handoffs"}, NEW job \in Jobs,
           step = "handoffs" <=> pass[p].step = "handoffs",
           pass[p].step # "idle",
           JobSound(h, step, job)',
           Work(p, step, job)
    PROVE  PassSound' /\ PassType'
<1> PICK jobs : jobs = pass[p].left
    OBVIOUS
<1> PICK q : q = [step |-> step, left |-> jobs, job |-> job]
    OBVIOUS
<1>1. q.left = jobs /\ q.step = step /\ q.job = job /\ pass' = [pass EXCEPT ![p] = q]
    BY DEF Work
<1>2. h \in Hives
    BY DEF Hive, HandoffAssumption
<1>3. \A k \in jobs : JobSound(h, step, k)
    BY DEF IInv, MemberSound, PassSound, PassOK, JobSound, TypeOK
<1>4. \A k \in jobs : JobSound(h, step, k)'
    BY <1>2, <1>3, JobsLast
<1>5. PassOK(h, q)'
    BY <1>1, <1>4 DEF PassOK
<1>6. PassSound'
    BY <1>1, <1>5, PassMove DEF IInv, MemberSound, Hive
<1>7. PassType'
    BY DEF IInv, TypeOK, PassType, Work
<1> QED BY <1>6, <1>7

-----------------------------------------------------------------------------
(* How an intent moves with the pass.                                      *)

\* The copy that a pass has in hand is sound, however old.
LEMMA ClaimInHand ==
    ASSUME IInv, HandoffAssumption, NEW p \in Passes, NEW step \in {"claims", "assign"}, NEW phase,
           InHand(p, step, phase)
    PROVE  /\ Hive(p) \in Hives /\ Job(p) \in ClaimJobs /\ CopySound(Hive(p), Job(p))
           /\ pass[p].step = step /\ Job(p).phase = phase
BY DEF IInv, MemberSound, PassSound, PassOK, JobSound, InHand, Job, Hive, HandoffAssumption

LEMMA HandoffInHand ==
    ASSUME IInv, HandoffAssumption, NEW p \in Passes, NEW phase, InHand(p, "handoffs", phase)
    PROVE  /\ Hive(p) \in Hives /\ Job(p) \in HandoffJobs
           /\ IntentSound(Hive(p), Job(p).handoff, phase)
           /\ pass[p].step = "handoffs" /\ Job(p).phase = phase
BY DEF IInv, MemberSound, PassSound, PassOK, JobSound, InHand, Job, Hive, HandoffAssumption

LEMMA MovesSound ==
    ASSUME Grows, IInv, HandoffAssumption, NEW p \in Passes,
           NEW h, h = Hive(p), NEW job, job = Job(p),
           pass[p].step \in {"claims", "assign"}, job \in ClaimJobs,
           NEW row, NEW copy, Moves(p, row, copy),
           row \in [issue : Issues, nth : Nat, phase : Phases, claim : Claims \union {None}],
           row.issue = job.issue, CopySound(h, row)',
           copy.phase = "complete" \/ (copy \in ClaimJobs /\ CopySound(h, copy)')
    PROVE  RowsSound' /\ RowsType' /\ PassSound' /\ PassType'
<1>1. h \in Hives /\ job.issue \in Issues
    BY DEF Hive, HandoffAssumption, ClaimJobs
<1>2. CASE UNCHANGED rows /\ End(p)
    <2>1. RowsSound' /\ RowsType'
        BY <1>2, RowsKeep DEF IInv, MemberSound, TypeOK, RowsType
    <2> QED BY <2>1, <1>2, EndMove
<1>3. CASE /\ rows' = [rows EXCEPT ![h][job.issue] = row]
           /\ IF copy.phase = "complete" THEN NextJob(p, "claims") ELSE Work(p, "claims", copy)
    <2>1. RowsSound'
        BY <1>1, <1>3, RowsMove DEF IInv, MemberSound
    <2>2. RowsType'
        BY <1>1, <1>3 DEF IInv, TypeOK, RowsType
    <2>3. CASE copy.phase = "complete" /\ NextJob(p, "claims")
        BY <2>1, <2>2, <2>3, NextJobMove
    <2>4. CASE copy \in ClaimJobs /\ CopySound(h, copy)' /\ Work(p, "claims", copy)
        <3>1. JobSound(h, "claims", copy)'
            BY <2>4 DEF JobSound
        <3>2. copy \in Jobs
            BY <2>4 DEF Jobs
        <3>3. PassSound' /\ PassType'
            BY <2>4, <3>1, <3>2, WorkMove
        <3> QED BY <2>1, <2>2, <3>3
    <2> QED BY <1>3, <2>3, <2>4
<1> QED BY <1>2, <1>3 DEF Moves

\* A phase later: what the copy says now is true of the row too, whatever claim
\* the row stands for by now.
LEMMA AdvanceSound ==
    ASSUME Grows, IInv, HandoffAssumption, NEW p \in Passes,
           NEW h, h = Hive(p), NEW i, i = Job(p).issue,
           NEW step \in {"claims", "assign"},
           NEW old \in {"reserved", "jira_assigned", "confirmed"}, InHand(p, step, old),
           NEW phase \in {"jira_assigned", "confirmed", "complete"}, Advance(p, phase),
           phase # "complete" => Has(h, i)',
           phase = "confirmed" => Was(h, i)'
    PROVE  RowsSound' /\ RowsType' /\ PassSound' /\ PassType'
<1> PICK job, row : job = Job(p) /\ row = Row(p)
    OBVIOUS
<1>1. /\ h \in Hives /\ job \in ClaimJobs /\ CopySound(h, job) /\ job.phase = old
      /\ job.issue = i /\ i \in Issues /\ pass[p].step = step
    BY ClaimInHand DEF ClaimJobs
<1>2. /\ row \in [issue : Issues, nth : Nat, phase : Phases, claim : Claims \union {None}]
      /\ row.issue = i /\ CopySound(h, row)
    BY <1>1 DEF Row, IInv, TypeOK, MemberSound, RowsSound
<1>3. CASE row.phase # old
    <2>1. UNCHANGED rows /\ End(p)
        BY <1>1, <1>3 DEF Advance, Moves
    <2>2. RowsSound' /\ RowsType'
        BY <2>1, RowsKeep DEF IInv, MemberSound, TypeOK, RowsType
    <2> QED BY <2>1, <2>2, EndMove
<1>4. CASE row.phase = old
    <2> DEFINE nrow == [row EXCEPT !.phase = phase]
               copy == [job EXCEPT !.phase = phase]
    <2>1. Known(row.claim, i) /\ Known(job.claim, i)
        BY <1>1, <1>2, <1>4 DEF CopySound
    <2>2. Known(row.claim, i)' /\ Known(job.claim, i)'
        BY <2>1 DEF Grows
    <2>3. /\ nrow.claim = row.claim /\ nrow.issue = i /\ nrow.phase = phase
          /\ copy.claim = job.claim /\ copy.issue = i /\ copy.phase = phase
          /\ nrow \in [issue : Issues, nth : Nat, phase : Phases, claim : Claims \union {None}]
          /\ phase # "complete" => copy \in ClaimJobs
        BY <1>1, <1>2 DEF ClaimJobs, Phases, ClaimPhases
    <2> PICK r, k : r = nrow /\ k = copy
        OBVIOUS
    <2>4. Moves(p, r, k)
        BY DEF Advance
    <2>5. CopySound(h, r)' /\ CopySound(h, k)'
        BY <2>2, <2>3 DEF CopySound
    <2> HIDE DEF nrow, copy
    <2> QED BY <1>1, <2>3, <2>4, <2>5, MovesSound
<1> QED BY <1>3, <1>4

\* A claim reserved, or one that has to be reserved again.
LEMMA AdvanceWithSound ==
    ASSUME Grows, IInv, HandoffAssumption, NEW p \in Passes,
           NEW i, i = Job(p).issue,
           NEW old \in {"queued", "reserved"}, InHand(p, "claims", old),
           NEW phase \in {"queued", "reserved"}, NEW claim \in Claims \union {None},
           AdvanceWith(p, phase, claim),
           phase = "reserved" => Known(claim, i)'
    PROVE  RowsSound' /\ RowsType' /\ PassSound' /\ PassType'
<1> PICK h, job, row : h = Hive(p) /\ job = Job(p) /\ row = Row(p)
    OBVIOUS
<1>1. /\ h \in Hives /\ job \in ClaimJobs /\ job.phase = old
      /\ job.issue = i /\ i \in Issues /\ pass[p].step = "claims"
    BY ClaimInHand DEF ClaimJobs
<1>2. /\ row \in [issue : Issues, nth : Nat, phase : Phases, claim : Claims \union {None}]
      /\ row.issue = i
    BY <1>1 DEF Row, IInv, TypeOK, MemberSound, RowsSound
<1> DEFINE nrow == [row EXCEPT !.phase = phase, !.claim = claim]
           copy == [job EXCEPT !.phase = phase, !.claim = claim]
<1>3. /\ nrow.claim = claim /\ nrow.issue = i /\ nrow.phase = phase
      /\ copy.claim = claim /\ copy.issue = i /\ copy.phase = phase
      /\ nrow \in [issue : Issues, nth : Nat, phase : Phases, claim : Claims \union {None}]
      /\ copy \in ClaimJobs
    BY <1>1, <1>2 DEF ClaimJobs, Phases, ClaimPhases
<1> PICK r, k : r = nrow /\ k = copy
    OBVIOUS
<1>4. Moves(p, r, k)
    BY DEF AdvanceWith
<1>5. CopySound(h, r)' /\ CopySound(h, k)'
    BY <1>3 DEF CopySound
<1> HIDE DEF nrow, copy
<1> QED BY <1>1, <1>3, <1>4, <1>5, MovesSound

\* An intent may be left to an operator in any phase.
LEMMA AttentionSound ==
    ASSUME Grows, IInv, HandoffAssumption, NEW p \in Passes,
           NEW step \in {"claims", "assign"}, NEW old \in ClaimPhases, InHand(p, step, old),
           Attention(p, End(p)) \/ Attention(p, NextJob(p, "claims"))
    PROVE  RowsSound' /\ RowsType' /\ PassSound' /\ PassType'
<1> PICK h, i : h = Hive(p) /\ i = Job(p).issue
    OBVIOUS
<1>1. h \in Hives /\ i \in Issues /\ pass[p].step \in {"claims", "assign"}
    BY ClaimInHand DEF ClaimJobs
<1>2. CASE UNCHANGED rows /\ End(p)
    <2>1. RowsSound' /\ RowsType'
        BY <1>2, RowsKeep DEF IInv, MemberSound, TypeOK, RowsType
    <2> QED BY <2>1, <1>2, EndMove
<1>3. CASE /\ rows' = [rows EXCEPT ![h][i].phase = "attention"]
           /\ End(p) \/ NextJob(p, "claims")
    <2> DEFINE row == [rows[h][i] EXCEPT !.phase = "attention"]
    <2>1. /\ row \in [issue : Issues, nth : Nat, phase : Phases, claim : Claims \union {None}]
          /\ row.issue = i /\ row.phase = "attention"
        <3>1. /\ rows[h][i].issue = i
              /\ rows[h][i] \in [issue : Issues, nth : Nat, phase : Phases, claim : Claims \union {None}]
            BY <1>1 DEF IInv, TypeOK, MemberSound, RowsSound
        <3> QED BY <1>1, <3>1 DEF Phases
    <2>2. rows' = [rows EXCEPT ![h][i] = row]
        BY <1>3
    <2> PICK r : r = row
        OBVIOUS
    <2>3. CopySound(h, r)'
        BY <2>1 DEF CopySound
    <2> HIDE DEF row
    <2>4. RowsSound'
        BY <1>1, <2>1, <2>2, <2>3, RowsMove DEF IInv, MemberSound
    <2>5. RowsType'
        BY <1>1, <2>1, <2>2 DEF IInv, TypeOK, RowsType
    <2>6. PassSound' /\ PassType'
        BY <1>1, <1>3, EndMove, NextJobMove
    <2> QED BY <2>4, <2>5, <2>6
<1> QED BY <1>2, <1>3 DEF Attention

JournalType == journal \in [Handoffs -> HandoffPhases \union {"none", "complete", "attention"}]

LEMMA AdvanceHandoffSound ==
    ASSUME Grows, IInv, HandoffAssumption, NEW p \in Passes,
           NEW h, h = Hive(p), NEW x, x = Job(p).handoff,
           NEW old, InHand(p, "handoffs", old),
           NEW phase \in {"jira_assigned", "keeper_confirmed", "complete"},
           AdvanceHandoff(p, phase), IntentSound(h, x, phase)'
    PROVE  JournalSound' /\ JournalType' /\ PassSound' /\ PassType'
<1> PICK job : job = Job(p)
    OBVIOUS
<1>1. h \in Hives /\ job \in HandoffJobs /\ x \in Handoffs /\ pass[p].step = "handoffs"
    BY HandoffInHand DEF HandoffJobs
<1>2. CASE UNCHANGED journal /\ End(p)
    <2>1. JournalSound' /\ JournalType'
        BY <1>2, JournalKeep DEF IInv, MemberSound, KeeperSound, TypeOK, JournalType
    <2> QED BY <2>1, <1>2, EndMove
<1>3. CASE /\ journal' = [journal EXCEPT ![x] = phase]
           /\ IF phase = "complete" THEN NextJob(p, "handoffs")
              ELSE Work(p, "handoffs", [job EXCEPT !.phase = phase])
    <2>1. JournalSound'
        BY <1>1, <1>3, JournalMove DEF IInv, MemberSound, KeeperSound
    <2>2. JournalType'
        BY <1>1, <1>3 DEF IInv, TypeOK, JournalType, HandoffPhases
    <2>3. CASE phase = "complete"
        <3>1. NextJob(p, "handoffs")
            BY <1>3, <2>3
        <3>2. PassSound' /\ PassType'
            BY <1>1, <3>1, NextJobMove
        <3> QED BY <2>1, <2>2, <3>2
    <2>4. CASE phase # "complete"
        <3> DEFINE copy == [job EXCEPT !.phase = phase]
        <3>1. copy \in HandoffJobs /\ copy.handoff = x /\ copy.phase = phase
            BY <1>1, <2>4 DEF HandoffJobs, HandoffPhases
        <3> PICK k : k = copy
            OBVIOUS
        <3>2. JobSound(h, "handoffs", k)' /\ k \in Jobs
            BY <3>1 DEF JobSound, Jobs
        <3>3. Work(p, "handoffs", k)
            BY <1>3, <2>4
        <3>4. PassSound' /\ PassType'
            BY <1>1, <3>2, <3>3, WorkMove
        <3> QED BY <2>1, <2>2, <3>4
    <2> QED BY <2>3, <2>4
<1> QED BY <1>2, <1>3 DEF AdvanceHandoff

\* So may the intent for a handoff, or it waits for a later pass.
LEMMA HandoffAsideSound ==
    ASSUME Grows, IInv, HandoffAssumption, NEW p \in Passes,
           NEW old, InHand(p, "handoffs", old),
           HandoffAttention(p) \/ HandoffWithheld(p)
    PROVE  JournalSound' /\ JournalType' /\ PassSound' /\ PassType'
<1> PICK h, x : h = Hive(p) /\ x = Job(p).handoff
    OBVIOUS
<1>1. h \in Hives /\ x \in Handoffs /\ IntentSound(h, x, old) /\ pass[p].step = "handoffs"
    BY HandoffInHand DEF HandoffJobs
<1>2. CASE End(p) /\ UNCHANGED journal
    <2>1. JournalSound' /\ JournalType'
        BY <1>2, JournalKeep DEF IInv, MemberSound, KeeperSound, TypeOK, JournalType
    <2> QED BY <2>1, <1>2, EndMove
<1>3. CASE journal' = [journal EXCEPT ![x] = "attention"] /\ NextJob(p, "handoffs")
    <2>1. IntentSound(h, x, "attention")
        BY <1>1 DEF IntentSound
    <2>2. IntentSound(h, x, "attention")'
        BY <1>1, <2>1, IntentsLast
    <2>3. JournalSound'
        BY <1>1, <1>3, <2>2, JournalMove DEF IInv, MemberSound, KeeperSound
    <2>4. JournalType'
        BY <1>3 DEF IInv, TypeOK, JournalType
    <2>5. PassSound' /\ PassType'
        BY <1>1, <1>3, NextJobMove
    <2> QED BY <2>3, <2>4, <2>5
<1> QED BY <1>2, <1>3 DEF HandoffAttention, HandoffWithheld

LEMMA ImportedKeep ==
    ASSUME Grows, ImportedWasHome, TypeOK, UNCHANGED imported
    PROVE  ImportedWasHome'
<1> SUFFICES ASSUME NEW h \in Hives, NEW i, i \in imported[h]
             PROVE  \E c \in Claims : (claims[c].issue = i /\ WasHome(h, c))'
    BY DEF ImportedWasHome
<1>1. PICK c \in Claims : claims[c].issue = i /\ WasHome(h, c)
    BY DEF ImportedWasHome
<1>2. WasHome(h, c)' /\ Known(c, i) /\ Known(c, i)'
    BY <1>1 DEF Grows, Known, WasHome
<1> QED BY <1>2 DEF Known

LEMMA ImportedMove ==
    ASSUME Grows, ImportedWasHome, TypeOK, NEW h \in Hives, NEW i,
           imported' = [imported EXCEPT ![h] = @ \union {i}], Was(h, i)'
    PROVE  ImportedWasHome'
<1> SUFFICES ASSUME NEW g \in Hives, NEW j, j \in imported'[g]
             PROVE  \E c \in Claims : (claims[c].issue = j /\ WasHome(g, c))'
    BY DEF ImportedWasHome
<1>1. CASE j \in imported[g]
    <2>1. PICK c \in Claims : claims[c].issue = j /\ WasHome(g, c)
        BY <1>1 DEF ImportedWasHome
    <2>2. WasHome(g, c)' /\ Known(c, j) /\ Known(c, j)'
        BY <2>1 DEF Grows, Known, WasHome
    <2> QED BY <2>2 DEF Known
<1>2. CASE g = h /\ j = i
    BY <1>2 DEF Was
<1> QED BY <1>1, <1>2 DEF TypeOK

\* What the Keeper lists as accepted for this Hive can be journaled.
LEMMA JournaledSound ==
    ASSUME Grows, IInv, UNCHANGED handoffs, NEW new \in SUBSET Handoffs,
           \A x \in new : handoffs[x].state = "accepted",
           journal' = Journaled(new)
    PROVE  JournalSound' /\ JournalType'
<1>1. \A x \in Handoffs :
        journal'[x] = IF x \in new /\ journal[x] = "none" THEN "accepted" ELSE journal[x]
    BY DEF Journaled
<1>2. JournalType'
    BY <1>1 DEF JournalType, Journaled, HandoffPhases, IInv, TypeOK
<1>3. ASSUME NEW x \in Handoffs, journal'[x] # "none"
      PROVE  IntentSound(handoffs[x].target, x, journal[x])'
    <2> PICK h, phase : h = handoffs[x].target /\ phase = journal'[x]
        OBVIOUS
    <2>1. IntentSound(h, x, phase)
        <3>1. CASE journal[x] = phase
            BY <3>1, <1>3 DEF IInv, MemberSound, JournalSound
        <3>2. CASE phase = "accepted" /\ handoffs[x].state = "accepted"
            <4>1. handoffs[x].claim \in Claims /\ claims[handoffs[x].claim].state = "confirmed"
                BY <3>2 DEF IInv, KeeperSound, HandoffsSound, HandoffSound
            <4>2. claims[handoffs[x].claim].issue \in Issues
                BY <4>1 DEF IInv, KeeperSound, ClaimsSound
            <4> QED BY <3>2, <4>1, <4>2 DEF IntentSound, Going, Known
        <3> QED BY <1>1, <3>1, <3>2
    <2>2. h \in Hives
        BY <2>1 DEF IntentSound, Going, IInv, KeeperSound, HandoffsSound, HandoffSound
    <2>3. IntentSound(h, x, phase)'
        BY <2>1, <2>2, IntentsLast
    <2> QED BY <2>3 DEF IntentSound, Going, Known, Has, Done
<1>4. JournalSound'
    BY <1>3 DEF JournalSound
<1> QED BY <1>2, <1>4

LEMMA PendingSound ==
    ASSUME JournalSound', JournalType', HandoffAssumption, UNCHANGED handoffs,
           NEW h \in Hives, NEW job \in PendingHandoffs(h, journal')
    PROVE  job \in Jobs /\ JobSound(h, "handoffs", job)'
<1> PICK x, phase : /\ x \in Handoffs /\ handoffs[x].target = h
                    /\ phase = journal'[x] /\ phase \in HandoffPhases
                    /\ job = [handoff |-> x, phase |-> phase]
    BY DEF PendingHandoffs
<1>1. phase # "none" /\ handoffs'[x].target = h
    BY DEF HandoffPhases
<1>2. IntentSound(h, x, phase)'
    BY <1>1 DEF JournalSound, IntentSound, Going, Known, Has, Done
<1>3. job \in HandoffJobs /\ job.handoff = x /\ job.phase = phase
    BY DEF HandoffJobs
<1> QED BY <1>2, <1>3 DEF JobSound, Jobs

-----------------------------------------------------------------------------
(* The invariant is inductive: one lemma for each action.                  *)

KeeperType ==
    /\ claims \in [Claims -> [state : {"none", "reserved", "confirmed", "expired"},
                              issue : Issues \union {None}, home : Hives \union {None}]]
    /\ lapsed \subseteq Claims
    /\ handoffs \in [Handoffs ->
          [state : {"none", "offered", "accepted", "completed", "closed"},
           claim : Claims \union {None},
           source : Hives \union {None}, target : Hives \union {None}]]
JiraType ==
    /\ assigned \in [Hives -> SUBSET Issues]
    /\ assignee \in [Issues -> Hives \union Persons \union {None}]
    /\ refused \subseteq Hives /\ missing \subseteq Issues
ImportedType == imported \in [Hives -> SUBSET Issues]
FaultsType == faults \in 0..MaxFaults

LEMMA Types ==
    TypeOK <=> /\ KeeperType /\ JiraType /\ ImportedType /\ FaultsType
               /\ RowsType /\ JournalType /\ PassType
               /\ \A x \in Handoffs :
                    journal[x] # "none" => handoffs[x].state \in {"accepted", "completed"}
BY DEF TypeOK, KeeperType, JiraType, ImportedType, FaultsType, RowsType, JournalType, PassType

LEMMA Assemble ==
    ASSUME KeeperSound', KeeperType', JiraType', ImportedType', FaultsType',
           RowsSound', RowsType', JournalSound', JournalType', PassSound', PassType',
           ImportedWasHome'
    PROVE  IInv'
<1>1. \A x \in Handoffs : journal'[x] # "none" => handoffs'[x].state \in {"accepted", "completed"}
    BY DEF JournalSound, IntentSound, Going
<1>2. TypeOK'
    BY <1>1 DEF TypeOK, KeeperType, JiraType, ImportedType, FaultsType, RowsType, JournalType,
                PassType
<1> QED BY <1>2 DEF IInv, MemberSound

LEMMA RowsSame ==
    ASSUME Grows, IInv, UNCHANGED rows PROVE RowsSound' /\ RowsType'
BY RowsKeep, Types DEF IInv, MemberSound, RowsType

LEMMA JournalSame ==
    ASSUME Grows, IInv, UNCHANGED journal PROVE JournalSound' /\ JournalType'
BY JournalKeep, Types DEF IInv, MemberSound, KeeperSound, JournalType

LEMMA ImportedSame ==
    ASSUME Grows, IInv, UNCHANGED imported PROVE ImportedWasHome' /\ ImportedType'
BY ImportedKeep, Types DEF IInv, MemberSound, ImportedType

LEMMA PassSame ==
    ASSUME Grows, IInv, HandoffAssumption, UNCHANGED pass PROVE PassSound' /\ PassType'
BY PassKeep, Types DEF IInv, MemberSound, PassType

\* An answer that never comes ends the pass and nothing else at the member.
LEMMA LostSame ==
    ASSUME Grows, IInv, HandoffAssumption, NEW p \in Passes, AnswerLost(p)
    PROVE  /\ RowsSound' /\ RowsType' /\ JournalSound' /\ JournalType'
           /\ ImportedWasHome' /\ ImportedType' /\ PassSound' /\ PassType' /\ FaultsType'
<1>1. End(p) /\ UNCHANGED rows /\ UNCHANGED journal /\ UNCHANGED imported
    BY DEF AnswerLost, member
<1>2. FaultsType'
    BY Types, HandoffAssumption DEF IInv, AnswerLost, FaultsType, HandoffAssumption
<1> QED BY <1>1, <1>2, RowsSame, JournalSame, ImportedSame, EndMove

\* What most steps leave alone.
LEMMA Same ==
    ASSUME IInv
    PROVE  /\ UNCHANGED keeper => KeeperType'
           /\ UNCHANGED jira => JiraType'
           /\ UNCHANGED faults => FaultsType'
BY Types DEF IInv, keeper, jira, access, KeeperType, JiraType, FaultsType

LEMMA InitSound == ASSUME HandoffAssumption, Init PROVE IInv
<1> USE DEF Init, HandoffAssumption
<1>1. KeeperType /\ ImportedType /\ FaultsType /\ JiraType /\ JournalType
    BY DEF KeeperType, ImportedType, FaultsType, JiraType, JournalType
<1>2. RowsType /\ PassType
    BY DEF RowsType, PassType, Idle, Phases
<1>3. TypeOK
    BY <1>1, <1>2, Types
<1>4. KeeperSound
    BY DEF KeeperSound, ClaimsSound, HandoffsSound, JiraBeforeHome, Open, Active
<1>5. RowsSound /\ JournalSound /\ ImportedWasHome
    BY DEF RowsSound, CopySound, JournalSound, ImportedWasHome
<1>6. PassSound
    BY DEF PassSound, PassOK, Idle
<1> QED BY <1>3, <1>4, <1>5, <1>6 DEF IInv, MemberSound

LEMMA BeginPassSound ==
    ASSUME IInv, HandoffAssumption, NEW p \in Passes, BeginPass(p) PROVE IInv'
<1>1. UNCHANGED <<keeper, member, jira, faults>> /\ UNCHANGED assigned
    BY DEF BeginPass, jira
<1>2. Grows /\ KeeperSound'
    BY <1>1, KeeperKeep DEF IInv
<1>3. PassSound' /\ PassType'
    <2> PICK h, jobs : h = Hive(p) /\ jobs = PendingClaims(h)
        OBVIOUS
    <2>1. h \in Hives
        BY DEF Hive, HandoffAssumption
    <2>2. \A job \in jobs : job \in ClaimJobs /\ CopySound(h, job)
        BY <2>1 DEF PendingClaims, IInv, MemberSound, RowsSound, TypeOK, ClaimJobs
    <2>3. \A job \in jobs : JobSound(h, "claims", job)'
        BY <2>1, <2>2, <1>2, JobsLast DEF JobSound
    <2>4. jobs \in SUBSET Jobs /\ pass[p].left = {} /\ Load(p, "claims", jobs)
        BY <2>2 DEF Jobs, BeginPass, Idle
    <2> QED BY <2>3, <2>4, <1>2, LoadMove
<1> QED BY <1>1, <1>2, <1>3, Same, RowsSame, JournalSame, ImportedSame, Assemble DEF member

LEMMA GiveUpSound ==
    ASSUME IInv, HandoffAssumption, NEW p \in Passes, GiveUp(p) PROVE IInv'
<1>1. UNCHANGED <<keeper, member, jira>> /\ UNCHANGED assigned /\ End(p)
    BY DEF GiveUp, jira
<1>2. Grows /\ KeeperSound'
    BY <1>1, KeeperKeep DEF IInv
<1>3. FaultsType'
    BY Types DEF IInv, GiveUp, FaultsType, HandoffAssumption
<1> QED BY <1>1, <1>2, <1>3, Same, EndMove, RowsSame, JournalSame, ImportedSame, Assemble
        DEF member

LEMMA QueueClaimSound ==
    ASSUME IInv, HandoffAssumption, NEW h \in Hives, NEW i \in Issues, QueueClaim(h, i)
    PROVE  IInv'
<1>1. /\ UNCHANGED <<keeper, jira, pass, faults>> /\ UNCHANGED assigned
      /\ UNCHANGED journal /\ UNCHANGED imported
    BY DEF QueueClaim, jira
<1>2. Grows /\ KeeperSound'
    BY <1>1, KeeperKeep DEF IInv
<1>3. RowsSound' /\ RowsType'
    <2> PICK row : row = [issue |-> i, nth |-> rows[h][i].nth + 1, phase |-> "queued", claim |-> None]
        OBVIOUS
    <2>1. rows' = [rows EXCEPT ![h][i] = row]
        BY DEF QueueClaim
    <2>2. row.issue = i /\ row.phase = "queued"
          /\ row \in [issue : Issues, nth : Nat, phase : Phases, claim : Claims \union {None}]
        BY DEF IInv, TypeOK, Phases, ClaimPhases
    <2>3. CopySound(h, row)'
        BY <2>2 DEF CopySound
    <2>4. RowsSound'
        BY <1>2, <2>1, <2>2, <2>3, RowsMove DEF IInv, MemberSound
    <2>5. RowsType'
        BY <2>1, <2>2 DEF IInv, TypeOK, RowsType
    <2> QED BY <2>4, <2>5
<1> QED BY <1>1, <1>2, <1>3, Same, JournalSame, ImportedSame, PassSame, Assemble

LEMMA LapseSound ==
    ASSUME IInv, HandoffAssumption, NEW c \in Claims, Lapse(c) PROVE IInv'
<1>1. /\ UNCHANGED <<member, jira, pass, faults>> /\ UNCHANGED <<claims, handoffs, assigned>>
      /\ lapsed' = lapsed \union {c}
    BY DEF Lapse, jira
<1>2. Grows /\ KeeperSound'
    <2>1. ClaimsSound'
        BY <1>1 DEF IInv, KeeperSound, ClaimsSound, JiraBeforeHome
    <2> QED BY <1>1, <2>1, ClaimsMove DEF IInv
<1>3. KeeperType'
    BY <1>1, Types DEF IInv, KeeperType
<1> QED BY <1>1, <1>2, <1>3, Same, RowsSame, JournalSame, ImportedSame, PassSame, Assemble
        DEF member

LEMMA ReserveType ==
    ASSUME IInv, NEW h \in Hives, NEW i \in Issues, NEW c \in Claims, Reserve(h, i, c),
           UNCHANGED handoffs, UNCHANGED lapsed
    PROVE  KeeperType'
<1> DEFINE Type == [Claims -> [state : {"none", "reserved", "confirmed", "expired"},
                               issue : Issues \union {None}, home : Hives \union {None}]]
<1>1. claims \in Type /\ UNCHANGED handoffs /\ UNCHANGED lapsed
    BY DEF IInv, TypeOK
<1>2. Expire(i) \in Type
    BY <1>1 DEF Expire
<1>3. [state |-> "reserved", issue |-> i, home |-> h] \in
        [state : {"none", "reserved", "confirmed", "expired"},
         issue : Issues \union {None}, home : Hives \union {None}]
    OBVIOUS
<1>4. claims' \in Type
    BY <1>1, <1>2, <1>3 DEF Reserve
<1> QED BY <1>1, <1>4 DEF KeeperType, IInv, TypeOK

LEMMA ReserveClaimSound ==
    ASSUME IInv, HandoffAssumption, NEW p \in Passes, ReserveClaim(p) PROVE IInv'
<1> PICK h, i : h = Hive(p) /\ i = Job(p).issue
    OBVIOUS
<1>1. /\ UNCHANGED jira /\ UNCHANGED assigned /\ UNCHANGED lapsed /\ UNCHANGED handoffs
      /\ UNCHANGED journal /\ UNCHANGED imported /\ InHand(p, "claims", "queued")
    BY DEF ReserveClaim, jira
<1>2. h \in Hives /\ i \in Issues
    BY <1>1, ClaimInHand DEF ClaimJobs
<1>3. CASE \E c \in Claims :
             /\ Reserve(h, i, c)
             /\ \/ c \notin lapsed /\ AdvanceWith(p, "reserved", c) /\ UNCHANGED faults
                \/ c \in lapsed /\ End(p) /\ UNCHANGED <<rows, faults>>
                \/ AnswerLost(p)
    <2> PICK c \in Claims :
             /\ Reserve(h, i, c)
             /\ \/ c \notin lapsed /\ AdvanceWith(p, "reserved", c) /\ UNCHANGED faults
                \/ c \in lapsed /\ End(p) /\ UNCHANGED <<rows, faults>>
                \/ AnswerLost(p)
        BY <1>3
    <2>1. Grows /\ KeeperSound' /\ Known(c, i)'
        BY <1>1, <1>2, ReserveSound DEF IInv
    <2>2. KeeperType'
        BY <1>1, <1>2, ReserveType
    <2>3. CASE AdvanceWith(p, "reserved", c) /\ UNCHANGED faults
        <3>1. RowsSound' /\ RowsType' /\ PassSound' /\ PassType'
            BY <1>1, <2>1, <2>3, AdvanceWithSound
        <3> QED BY <1>1, <2>1, <2>2, <2>3, <3>1, Same, JournalSame, ImportedSame, Assemble
    <2>4. CASE End(p) /\ UNCHANGED <<rows, faults>>
        BY <1>1, <2>1, <2>2, <2>4, Same, EndMove, RowsSame, JournalSame, ImportedSame, Assemble
    <2>5. CASE AnswerLost(p)
        BY <1>1, <2>1, <2>2, <2>5, Same, LostSame, Assemble
    <2> QED BY <2>3, <2>4, <2>5
<1>4. CASE Attention(p, NextJob(p, "claims")) /\ UNCHANGED <<claims, faults>>
    <2>1. UNCHANGED keeper
        BY <1>1, <1>4 DEF keeper
    <2>2. Grows /\ KeeperSound'
        BY <1>1, <2>1, KeeperKeep DEF IInv
    <2>3. RowsSound' /\ RowsType' /\ PassSound' /\ PassType'
        BY <1>1, <1>4, <2>2, AttentionSound DEF ClaimPhases
    <2> QED BY <1>1, <1>4, <2>1, <2>2, <2>3, Same, JournalSame, ImportedSame, Assemble
<1> QED BY <1>3, <1>4 DEF ReserveClaim

LEMMA ResetExpiredSound ==
    ASSUME IInv, HandoffAssumption, NEW p \in Passes, ResetExpired(p) PROVE IInv'
<1>1. /\ UNCHANGED <<keeper, jira, faults>> /\ UNCHANGED assigned
      /\ UNCHANGED journal /\ UNCHANGED imported /\ InHand(p, "claims", "reserved")
    BY DEF ResetExpired, jira
<1>2. Grows /\ KeeperSound'
    BY <1>1, KeeperKeep DEF IInv
<1>3. CASE AdvanceWith(p, "queued", None)
    <2>1. RowsSound' /\ RowsType' /\ PassSound' /\ PassType'
        BY <1>1, <1>2, <1>3, AdvanceWithSound
    <2> QED BY <1>1, <1>2, <2>1, Same, JournalSame, ImportedSame, Assemble
<1>4. CASE End(p) /\ UNCHANGED rows
    BY <1>1, <1>2, <1>4, Same, EndMove, RowsSame, JournalSame, ImportedSame, Assemble
<1> QED BY <1>3, <1>4 DEF ResetExpired

LEMMA ReadIssueSound ==
    ASSUME IInv, HandoffAssumption, NEW p \in Passes, ReadIssue(p) PROVE IInv'
<1> PICK h, i, job : h = Hive(p) /\ i = Job(p).issue /\ job = Job(p)
    OBVIOUS
<1>1. /\ UNCHANGED <<keeper, faults>> /\ UNCHANGED assignee /\ UNCHANGED <<refused, missing>>
      /\ UNCHANGED journal /\ UNCHANGED imported /\ InHand(p, "claims", "reserved")
    BY DEF ReadIssue, access
<1>2. /\ h \in Hives /\ i \in Issues /\ job \in ClaimJobs /\ CopySound(h, job)
      /\ pass[p].step = "claims" /\ job.issue = i
    BY <1>1, ClaimInHand DEF ClaimJobs
<1>3. assigned' = assigned \/ assigned' = [assigned EXCEPT ![h] = @ \union {i}]
    BY DEF ReadIssue
<1>4. JiraType' /\ \A g \in Hives : assigned[g] \subseteq assigned'[g]
    <2>1. assigned \in [Hives -> SUBSET Issues] /\ JiraType
        BY DEF IInv, TypeOK, JiraType
    <2>2. CASE assigned' = assigned
        BY <1>1, <2>1, <2>2 DEF JiraType
    <2>3. CASE assigned' = [assigned EXCEPT ![h] = @ \union {i}]
        BY <1>1, <1>2, <2>1, <2>3 DEF JiraType
    <2> QED BY <1>3, <2>2, <2>3
<1>5. Grows /\ KeeperSound'
    BY <1>1, <1>4, KeeperKeep DEF IInv
<1>6. RowsSound' /\ RowsType' /\ PassSound' /\ PassType'
    <2>1. CASE Work(p, "assign", job) /\ UNCHANGED rows
        <3>1. JobSound(h, "assign", job)
            BY <1>2 DEF JobSound
        <3>2. JobSound(h, "assign", job)' /\ job \in Jobs
            BY <1>2, <1>5, <3>1, JobsLast DEF Jobs
        <3>3. PassSound' /\ PassType'
            BY <1>2, <1>5, <2>1, <3>2, WorkMove
        <3> QED BY <1>5, <2>1, <3>3, RowsSame
    <2>2. CASE assigned' = [assigned EXCEPT ![h] = @ \union {i}] /\ Advance(p, "jira_assigned")
        <3>1. Has(h, i)'
            BY <1>2, <2>2 DEF Has, IInv, TypeOK
        <3> QED BY <1>1, <1>5, <2>2, <3>1, AdvanceSound
    <2>3. CASE Attention(p, End(p)) \/ Attention(p, NextJob(p, "claims"))
        BY <1>1, <1>5, <2>3, AttentionSound DEF ClaimPhases
    <2> QED BY <2>1, <2>2, <2>3 DEF ReadIssue, Withheld
<1> QED BY <1>1, <1>4, <1>5, <1>6, Same, JournalSame, ImportedSame, Assemble

LEMMA AssignIssueSound ==
    ASSUME IInv, HandoffAssumption, NEW p \in Passes, AssignIssue(p) PROVE IInv'
<1> PICK h, i : h = Hive(p) /\ i = Job(p).issue
    OBVIOUS
<1>1. /\ UNCHANGED keeper /\ UNCHANGED journal /\ UNCHANGED imported
      /\ UNCHANGED <<refused, missing>> /\ InHand(p, "assign", "reserved")
    BY DEF AssignIssue, access
<1>2. h \in Hives /\ i \in Issues
    BY <1>1, ClaimInHand DEF ClaimJobs
<1>3. CASE /\ assignee' = [assignee EXCEPT ![i] = h]
           /\ assigned' = [assigned EXCEPT ![h] = @ \union {i}]
           /\ Advance(p, "jira_assigned") /\ UNCHANGED faults
    <2>1. Grows /\ KeeperSound'
        <3>1. \A g \in Hives : assigned[g] \subseteq assigned'[g]
            BY <1>2, <1>3 DEF IInv, TypeOK
        <3> QED BY <1>1, <3>1, KeeperKeep DEF IInv
    <2>2. JiraType' /\ Has(h, i)'
        BY <1>1, <1>2, <1>3 DEF IInv, TypeOK, JiraType, Has
    <2>3. RowsSound' /\ RowsType' /\ PassSound' /\ PassType'
        BY <1>1, <1>3, <2>1, <2>2, AdvanceSound
    <2> QED BY <1>1, <1>3, <2>1, <2>2, <2>3, Same, JournalSame, ImportedSame, Assemble
<1>4. CASE /\ assignee' = [assignee EXCEPT ![i] = h] /\ UNCHANGED assigned
           /\ AnswerLost(p)
    <2>1. Grows /\ KeeperSound'
        BY <1>1, <1>4, KeeperKeep DEF IInv
    <2>2. JiraType'
        BY <1>1, <1>2, <1>4 DEF IInv, TypeOK, JiraType
    <2> QED BY <1>1, <1>4, <2>1, <2>2, Same, LostSame, Assemble
<1>5. CASE Attention(p, End(p)) /\ UNCHANGED <<assignee, assigned, faults>>
    <2>1. UNCHANGED jira
        BY <1>1, <1>5 DEF jira, access
    <2>2. Grows /\ KeeperSound'
        BY <1>1, <1>5, KeeperKeep DEF IInv
    <2>3. RowsSound' /\ RowsType' /\ PassSound' /\ PassType'
        BY <1>1, <1>5, <2>2, AttentionSound DEF ClaimPhases
    <2> QED BY <1>1, <1>5, <2>1, <2>2, <2>3, Same, JournalSame, ImportedSame, Assemble
<1> QED BY <1>3, <1>4, <1>5 DEF AssignIssue

LEMMA ConfirmClaimSound ==
    ASSUME IInv, HandoffAssumption, NEW p \in Passes, ConfirmClaim(p) PROVE IInv'
<1> PICK h, i, c : h = Hive(p) /\ i = Job(p).issue /\ c = Job(p).claim
    OBVIOUS
<1>1. /\ UNCHANGED jira /\ UNCHANGED assigned /\ UNCHANGED lapsed /\ UNCHANGED handoffs
      /\ UNCHANGED journal /\ UNCHANGED imported /\ InHand(p, "claims", "jira_assigned")
    BY DEF ConfirmClaim, jira
<1>2. h \in Hives /\ i \in Issues /\ Known(c, i) /\ Has(h, i) /\ c \in Claims
    BY <1>1, ClaimInHand DEF ClaimJobs, CopySound, Known
<1>3. ASSUME NEW state \in {"confirmed", "expired", "none", "reserved"},
             claims' = [claims EXCEPT ![c].state = state]
      PROVE  KeeperType'
    <2> DEFINE Rec == [state : {"none", "reserved", "confirmed", "expired"},
                       issue : Issues \union {None}, home : Hives \union {None}]
    <2>1. claims \in [Claims -> Rec]
        BY DEF IInv, TypeOK
    <2>2. [claims[c] EXCEPT !.state = state] \in Rec
        BY <1>2, <2>1
    <2>3. claims' \in [Claims -> Rec]
        BY <1>2, <1>3, <2>1, <2>2
    <2> QED BY <1>1, <2>3 DEF KeeperType, IInv, TypeOK
<1>4. CASE /\ claims[c].home = h /\ claims[c].state \in Open
           /\ claims' = [claims EXCEPT ![c].state = "confirmed"]
           /\ (Advance(p, "confirmed") /\ UNCHANGED faults) \/ AnswerLost(p)
    <2>1. Grows /\ KeeperSound' /\ KeeperType'
        BY <1>1, <1>2, <1>3, <1>4, ConfirmSound DEF IInv, Known, Open
    <2>2. CASE AnswerLost(p)
        BY <1>1, <2>1, <2>2, Same, LostSame, Assemble
    <2>3. CASE Advance(p, "confirmed") /\ UNCHANGED faults
        <3>1. Was(h, i)'
            BY <1>2, <1>4 DEF Was, WasHome, Known, IInv, TypeOK
        <3>2. Has(h, i)'
            BY <1>1, <1>2 DEF Has
        <3>3. RowsSound' /\ RowsType' /\ PassSound' /\ PassType'
            BY <1>1, <2>1, <2>3, <3>1, <3>2, AdvanceSound
        <3> QED BY <1>1, <2>1, <2>3, <3>3, Same, JournalSame, ImportedSame, Assemble
    <2> QED BY <1>4, <2>2, <2>3
<1>5. CASE /\ claims[c].state # "confirmed"
           /\ claims' = [claims EXCEPT ![c].state = IF @ = "reserved" THEN "expired" ELSE @]
           /\ (Attention(p, End(p)) /\ UNCHANGED faults) \/ AnswerLost(p)
    <2> PICK s : s = IF claims[c].state = "reserved" THEN "expired" ELSE claims[c].state
        OBVIOUS
    <2>1. /\ claims' = [claims EXCEPT ![c].state = s]
          /\ s \in {"confirmed", "expired", "none", "reserved"}
          /\ s = "expired" \/ s = claims[c].state
          /\ claims[c].state # "none"
        BY <1>2, <1>5 DEF Known, IInv, TypeOK
    <2>2. KeeperType'
        BY <1>3, <2>1
    <2>3. Grows /\ KeeperSound'
        BY <1>1, <1>2, <1>5, <2>1, ConfirmSound DEF IInv
    <2>4. CASE AnswerLost(p)
        BY <1>1, <2>2, <2>3, <2>4, Same, LostSame, Assemble
    <2>5. CASE Attention(p, End(p)) /\ UNCHANGED faults
        <3>1. RowsSound' /\ RowsType' /\ PassSound' /\ PassType'
            BY <1>1, <2>3, <2>5, AttentionSound DEF ClaimPhases
        <3> QED BY <1>1, <2>2, <2>3, <2>5, <3>1, Same, JournalSame, ImportedSame, Assemble
    <2> QED BY <1>5, <2>4, <2>5
<1>6. CASE Attention(p, NextJob(p, "claims")) /\ UNCHANGED <<claims, faults>>
    <2>1. UNCHANGED keeper
        BY <1>1, <1>6 DEF keeper
    <2>2. Grows /\ KeeperSound'
        BY <1>1, <2>1, KeeperKeep DEF IInv
    <2>3. RowsSound' /\ RowsType' /\ PassSound' /\ PassType'
        BY <1>1, <1>6, <2>2, AttentionSound DEF ClaimPhases
    <2> QED BY <1>1, <1>6, <2>1, <2>2, <2>3, Same, JournalSame, ImportedSame, Assemble
<1> QED BY <1>4, <1>5, <1>6 DEF ConfirmClaim, Open

LEMMA ImportedSet ==
    ASSUME Grows, IInv, NEW h \in Hives, NEW i \in Issues, Was(h, i)',
           imported' = [imported EXCEPT ![h] = @ \union {i}]
    PROVE  ImportedWasHome' /\ ImportedType'
<1>1. ImportedWasHome'
    BY ImportedMove DEF IInv, MemberSound
<1>2. ImportedType'
    BY DEF IInv, TypeOK, ImportedType
<1> QED BY <1>1, <1>2

LEMMA WasLasts ==
    ASSUME Grows, NEW h \in Hives, NEW i, Was(h, i)
    PROVE  Was(h, i)'
<1>1. PICK c \in Claims : claims[c].issue = i /\ WasHome(h, c)
    BY DEF Was
<1>2. WasHome(h, c)' /\ Known(c, i) /\ Known(c, i)'
    BY <1>1 DEF Grows, Known, WasHome
<1> QED BY <1>2 DEF Known, Was

LEMMA ImportClaimSound ==
    ASSUME IInv, HandoffAssumption, NEW p \in Passes, ImportClaim(p) PROVE IInv'
<1> PICK h, i : h = Hive(p) /\ i = Job(p).issue
    OBVIOUS
<1>1. /\ UNCHANGED keeper /\ UNCHANGED jira /\ UNCHANGED assigned /\ UNCHANGED faults
      /\ UNCHANGED journal /\ InHand(p, "claims", "confirmed")
    BY DEF ImportClaim, jira
<1>2. h \in Hives /\ i \in Issues /\ Was(h, i)
    BY <1>1, ClaimInHand DEF ClaimJobs, CopySound
<1>3. Grows /\ KeeperSound'
    BY <1>1, KeeperKeep DEF IInv
<1>4. CASE imported' = [imported EXCEPT ![h] = @ \union {i}] /\ Advance(p, "complete")
    <2>1. ImportedWasHome' /\ ImportedType'
        BY <1>2, <1>3, <1>4, WasLasts, ImportedSet
    <2>2. RowsSound' /\ RowsType' /\ PassSound' /\ PassType'
        BY <1>1, <1>3, <1>4, AdvanceSound
    <2> QED BY <1>1, <1>3, <2>1, <2>2, Same, JournalSame, Assemble
<1>5. CASE /\ Attention(p, End(p)) \/ Attention(p, NextJob(p, "claims"))
           /\ UNCHANGED imported
    <2>1. RowsSound' /\ RowsType' /\ PassSound' /\ PassType'
        BY <1>1, <1>3, <1>5, AttentionSound DEF ClaimPhases
    <2> QED BY <1>1, <1>3, <1>5, <2>1, Same, JournalSame, ImportedSame, Assemble
<1> QED BY <1>4, <1>5 DEF ImportClaim, Withheld

LEMMA OfferKeeps ==
    ASSUME IInv, HandoffAssumption, NEW x \in Handoffs, NEW c \in Claims, NEW to \in Hives,
           Offer(x, c, to)
    PROVE  IInv'
<1>1. /\ UNCHANGED <<claims, lapsed>> /\ UNCHANGED jira /\ UNCHANGED pass /\ UNCHANGED faults
      /\ UNCHANGED rows /\ UNCHANGED journal /\ UNCHANGED imported
    BY DEF Offer, member
<1>2. Grows /\ KeeperSound'
    BY OfferSound DEF IInv
<1>3. KeeperType'
    <2>1. claims[c].home \in Hives /\ claims[c].state = "confirmed"
        BY DEF Offer, IInv, KeeperSound, ClaimsSound
    <2> PICK s : s = claims[c].home
        OBVIOUS
    <2>2. handoffs' = [handoffs EXCEPT ![x] =
                         [state |-> "offered", claim |-> c, source |-> s, target |-> to]]
        BY DEF Offer
    <2> QED BY <1>1, <2>1, <2>2 DEF IInv, TypeOK, KeeperType
<1> QED BY <1>1, <1>2, <1>3, Same, RowsSame, JournalSame, ImportedSame, PassSame, Assemble

LEMMA AnswerType ==
    ASSUME IInv, NEW x \in Handoffs, NEW state \in {"accepted", "closed", "completed"},
           handoffs' = [handoffs EXCEPT ![x].state = state], UNCHANGED <<claims, lapsed>>
    PROVE  KeeperType'
<1> DEFINE Rec == [state : {"none", "offered", "accepted", "completed", "closed"},
                   claim : Claims \union {None},
                   source : Hives \union {None}, target : Hives \union {None}]
<1>1. handoffs \in [Handoffs -> Rec]
    BY DEF IInv, TypeOK
<1>2. [handoffs[x] EXCEPT !.state = state] \in Rec
    BY <1>1
<1>3. handoffs' \in [Handoffs -> Rec]
    BY <1>1, <1>2
<1> QED BY <1>3 DEF KeeperType, IInv, TypeOK

LEMMA AcceptSound ==
    ASSUME IInv, HandoffAssumption, NEW x \in Handoffs, Accept(x) PROVE IInv'
<1>1. /\ UNCHANGED <<claims, lapsed>> /\ UNCHANGED jira /\ UNCHANGED assigned /\ UNCHANGED pass
      /\ UNCHANGED rows /\ UNCHANGED imported
      /\ handoffs' = [handoffs EXCEPT ![x].state = "accepted"] /\ handoffs[x].state = "offered"
    BY DEF Accept, jira
<1>2. Grows /\ KeeperSound'
    BY <1>1, AnswerSound DEF IInv
<1>3. KeeperType'
    BY <1>1, AnswerType
<1>4. FaultsType'
    BY Types DEF IInv, Accept, FaultsType, HandoffAssumption
<1>5. JournalSound' /\ JournalType'
    <2>1. CASE UNCHANGED journal
        BY <1>2, <2>1, JournalSame
    <2>2. CASE journal' = [journal EXCEPT ![x] = "accepted"]
        <3> PICK h, c : h = handoffs[x].target /\ c = handoffs[x].claim
            OBVIOUS
        <3> PICK i : i = claims[c].issue
            OBVIOUS
        <3>1. h \in Hives /\ c \in Claims /\ claims[c].state = "confirmed"
            BY <1>1 DEF IInv, KeeperSound, HandoffsSound, HandoffSound
        <3>2. i \in Issues /\ Known(c, i)
            BY <3>1 DEF IInv, KeeperSound, ClaimsSound, Known
        <3>3. /\ handoffs'[x].state = "accepted" /\ handoffs'[x].target = h
              /\ handoffs'[x].claim = c
            BY <1>1 DEF IInv, TypeOK
        <3>4. Known(c, i)'
            BY <1>2, <3>2 DEF Grows
        <3>5. Going(h, x, i)'
            BY <3>3, <3>4 DEF Going, Known
        <3>6. IntentSound(h, x, "accepted")'
            BY <3>2, <3>5 DEF IntentSound
        <3>7. JournalSound'
            BY <1>2, <2>2, <3>1, <3>6, JournalMove DEF IInv, MemberSound, KeeperSound
        <3>8. JournalType'
            BY <2>2 DEF IInv, TypeOK, JournalType, HandoffPhases
        <3> QED BY <3>7, <3>8
    <2> QED BY <2>1, <2>2 DEF Accept
<1> QED BY <1>1, <1>2, <1>3, <1>4, <1>5, Same, RowsSame, ImportedSame, PassSame, Assemble

LEMMA WithdrawSound ==
    ASSUME IInv, HandoffAssumption, NEW x \in Handoffs, Withdraw(x) PROVE IInv'
<1>1. /\ UNCHANGED <<claims, lapsed>> /\ UNCHANGED jira /\ UNCHANGED assigned /\ UNCHANGED pass
      /\ UNCHANGED rows /\ UNCHANGED journal /\ UNCHANGED imported /\ UNCHANGED faults
      /\ handoffs' = [handoffs EXCEPT ![x].state = "closed"] /\ handoffs[x].state = "offered"
    BY DEF Withdraw, jira, member
<1>2. Grows /\ KeeperSound'
    BY <1>1, AnswerSound DEF IInv
<1>3. KeeperType'
    BY <1>1, AnswerType
<1> QED BY <1>1, <1>2, <1>3, Same, RowsSame, JournalSame, ImportedSame, PassSame, Assemble

LEMMA ListHandoffsSound ==
    ASSUME IInv, HandoffAssumption, NEW p \in Passes, ListHandoffs(p) PROVE IInv'
<1> PICK h : h = Hive(p)
    OBVIOUS
<1>1. /\ UNCHANGED keeper /\ UNCHANGED handoffs /\ UNCHANGED jira /\ UNCHANGED assigned
      /\ UNCHANGED rows /\ UNCHANGED imported /\ UNCHANGED faults
      /\ pass[p].left = {} /\ h \in Hives
    BY DEF ListHandoffs, jira, keeper, Hive, HandoffAssumption
<1>2. Grows /\ KeeperSound'
    BY <1>1, KeeperKeep DEF IInv
<1> PICK mine : mine = {x \in Visible(h) : handoffs[x].target = h}
    OBVIOUS
<1>3. mine \in SUBSET Handoffs /\ \A x \in mine : handoffs[x].state = "accepted"
    BY DEF Visible
<1>4. CASE journal' = Journaled(mine) /\ Load(p, "handoffs", PendingHandoffs(h, Journaled(mine)))
    <2>1. JournalSound' /\ JournalType'
        BY <1>1, <1>2, <1>3, <1>4, JournaledSound
    <2> PICK jobs : jobs = PendingHandoffs(h, journal')
        OBVIOUS
    <2>2. \A job \in jobs : job \in Jobs /\ JobSound(h, "handoffs", job)'
        BY <1>1, <2>1, PendingSound
    <2>3. Load(p, "handoffs", jobs)
        BY <1>4
    <2>4. PassSound' /\ PassType'
        BY <1>1, <1>2, <2>2, <2>3, LoadMove
    <2> QED BY <1>1, <1>2, <2>1, <2>4, Same, RowsSame, ImportedSame, Assemble
<1>5. CASE (\E before \in SUBSET mine : journal' = Journaled(before)) /\ End(p)
    <2>1. JournalSound' /\ JournalType'
        BY <1>1, <1>2, <1>3, <1>5, JournaledSound
    <2> QED BY <1>1, <1>2, <1>5, <2>1, Same, EndMove, RowsSame, ImportedSame, Assemble
<1> QED BY <1>4, <1>5 DEF ListHandoffs

\* What an intent for a handoff says, of the issue that its claim is for.
LEMMA IntentOf ==
    ASSUME NEW h, NEW x, NEW phase, IntentSound(h, x, phase),
           NEW i, i = HandedOver(x)
    PROVE  /\ i \in Issues /\ Going(h, x, i)
           /\ phase \in {"jira_assigned", "keeper_confirmed"} => Has(h, i)
           /\ phase = "keeper_confirmed" => Done(x)
BY DEF IntentSound, Going, Known, HandedOver

LEMMA AssignHandoffSound ==
    ASSUME IInv, HandoffAssumption, NEW p \in Passes, AssignHandoff(p) PROVE IInv'
<1> PICK h, x : h = Hive(p) /\ x = Job(p).handoff
    OBVIOUS
<1> PICK i : i = HandedOver(x)
    OBVIOUS
<1>1. /\ UNCHANGED keeper /\ UNCHANGED rows /\ UNCHANGED imported
      /\ UNCHANGED <<refused, missing>> /\ InHand(p, "handoffs", "accepted")
    BY DEF AssignHandoff, access
<1>2. h \in Hives /\ IntentSound(h, x, "accepted")
    BY <1>1, HandoffInHand
<1>3. i \in Issues /\ Going(h, x, i)
    BY <1>2, IntentOf
<1>4. CASE /\ assignee' = [assignee EXCEPT ![i] = h]
           /\ assigned' = [assigned EXCEPT ![h] = @ \union {i}]
           /\ AdvanceHandoff(p, "jira_assigned") /\ UNCHANGED faults
    <2>1. Grows /\ KeeperSound'
        <3>1. \A g \in Hives : assigned[g] \subseteq assigned'[g]
            BY <1>2, <1>4 DEF IInv, TypeOK
        <3> QED BY <1>1, <3>1, KeeperKeep DEF IInv
    <2>2. JiraType' /\ Has(h, i)'
        <3>1. /\ assigned \in [Hives -> SUBSET Issues]
              /\ assignee \in [Issues -> Hives \union Persons \union {None}]
            BY DEF IInv, TypeOK
        <3>2. assigned' = [assigned EXCEPT ![h] = assigned[h] \union {i}]
            BY <1>4
        <3>3. assigned' \in [Hives -> SUBSET Issues] /\ i \in assigned'[h]
            BY <1>2, <1>3, <3>1, <3>2
        <3>4. assignee' \in [Issues -> Hives \union Persons \union {None}]
            BY <1>2, <1>3, <1>4, <3>1
        <3>5. refused' \subseteq Hives /\ missing' \subseteq Issues
            BY <1>1 DEF IInv, TypeOK
        <3> QED BY <3>3, <3>4, <3>5 DEF JiraType, Has
    <2>3. Going(h, x, i)'
        BY <1>3, <2>1 DEF Grows, Going
    <2>4. IntentSound(h, x, "jira_assigned")'
        BY <1>3, <2>2, <2>3 DEF IntentSound
    <2>5. JournalSound' /\ JournalType' /\ PassSound' /\ PassType'
        BY <1>1, <1>4, <2>1, <2>4, AdvanceHandoffSound
    <2> QED BY <1>1, <1>4, <2>1, <2>2, <2>5, Same, RowsSame, ImportedSame, Assemble
<1>5. CASE /\ assignee' = [assignee EXCEPT ![i] = h] /\ UNCHANGED assigned
           /\ AnswerLost(p)
    <2>1. Grows /\ KeeperSound'
        BY <1>1, <1>5, KeeperKeep DEF IInv
    <2>2. JiraType'
        BY <1>1, <1>2, <1>3, <1>5 DEF IInv, TypeOK, JiraType
    <2> QED BY <1>1, <1>5, <2>1, <2>2, Same, LostSame, Assemble
<1>6. CASE HandoffWithheld(p) /\ UNCHANGED <<assignee, assigned, faults>>
    <2>1. UNCHANGED jira
        BY <1>1, <1>6 DEF jira, access
    <2>2. Grows /\ KeeperSound'
        BY <1>1, <1>6, KeeperKeep DEF IInv
    <2>3. JournalSound' /\ JournalType' /\ PassSound' /\ PassType'
        BY <1>1, <1>6, <2>2, HandoffAsideSound
    <2> QED BY <1>1, <1>6, <2>1, <2>2, <2>3, Same, RowsSame, ImportedSame, Assemble
<1> QED BY <1>4, <1>5, <1>6 DEF AssignHandoff

LEMMA ConfirmHandoffSound ==
    ASSUME IInv, HandoffAssumption, NEW p \in Passes, ConfirmHandoff(p) PROVE IInv'
<1> PICK h, x : h = Hive(p) /\ x = Job(p).handoff
    OBVIOUS
<1> PICK c, i : c = handoffs[x].claim /\ i = HandedOver(x)
    OBVIOUS
<1>1. /\ UNCHANGED lapsed /\ UNCHANGED rows /\ UNCHANGED imported /\ UNCHANGED jira
      /\ UNCHANGED assigned /\ InHand(p, "handoffs", "jira_assigned")
    BY DEF ConfirmHandoff, jira
<1>2. h \in Hives /\ x \in Handoffs /\ IntentSound(h, x, "jira_assigned")
    BY <1>1, HandoffInHand DEF HandoffJobs
<1>3. i \in Issues /\ Going(h, x, i) /\ Has(h, i) /\ c \in Claims
    BY <1>2, IntentOf DEF Going, Known
<1>4. CASE /\ \/ handoffs[x].state = "accepted" /\ Complete(x)
              \/ Done(x) /\ UNCHANGED <<claims, handoffs>>
           /\ (AdvanceHandoff(p, "keeper_confirmed") /\ UNCHANGED faults) \/ AnswerLost(p)
    <2>1. Grows /\ KeeperSound' /\ KeeperType' /\ Done(x)'
        <3>1. CASE handoffs[x].state = "accepted" /\ Complete(x)
            <4>1. Grows /\ KeeperSound' /\ Done(x)'
                BY <1>1, <1>2, <1>3, <3>1, CompleteSound DEF IInv, Going, HandedOver
            <4>2. handoffs' = [handoffs EXCEPT ![x].state = "completed"]
                BY <3>1 DEF Complete
            <4> DEFINE CRec == [state : {"none", "reserved", "confirmed", "expired"},
                                issue : Issues \union {None}, home : Hives \union {None}]
                       HRec == [state : {"none", "offered", "accepted", "completed", "closed"},
                                claim : Claims \union {None},
                                source : Hives \union {None}, target : Hives \union {None}]
            <4>3. claims \in [Claims -> CRec] /\ handoffs \in [Handoffs -> HRec]
                BY DEF IInv, TypeOK
            <4>4. [handoffs[x] EXCEPT !.state = "completed"] \in HRec
                BY <1>2, <4>3
            <4>5. handoffs' \in [Handoffs -> HRec]
                BY <1>2, <4>2, <4>3, <4>4
            <4>6. [claims[c] EXCEPT !.home = h] \in CRec
                <5>1. claims[c] \in CRec /\ h \in Hives
                    BY <1>2, <1>3, <4>3 DEF Going
                <5> QED BY <5>1
            <4>7. claims' = [claims EXCEPT ![c].home = h]
                BY <1>3, <3>1 DEF Complete, Going
            <4>8. claims' \in [Claims -> CRec]
                BY <1>3, <4>3, <4>6, <4>7
            <4>9. KeeperType'
                BY <1>1, <4>5, <4>8 DEF KeeperType, IInv, TypeOK
            <4> QED BY <4>1, <4>9
        <3>2. CASE Done(x) /\ UNCHANGED <<claims, handoffs>>
            <4>1. UNCHANGED keeper
                BY <1>1, <3>2 DEF keeper
            <4>2. Grows /\ KeeperSound'
                BY <1>1, <4>1, KeeperKeep DEF IInv
            <4> QED BY <3>2, <4>1, <4>2, Same DEF Done
        <3> QED BY <1>4, <3>1, <3>2
    <2>2. CASE AnswerLost(p)
        BY <1>1, <2>1, <2>2, Same, LostSame, Assemble
    <2>3. CASE AdvanceHandoff(p, "keeper_confirmed") /\ UNCHANGED faults
        <3>1. Going(h, x, i)'
            BY <1>3, <2>1 DEF Grows, Going
        <3>2. Has(h, i)'
            BY <1>1, <1>3 DEF Has
        <3>3. IntentSound(h, x, "keeper_confirmed")'
            BY <1>3, <2>1, <3>1, <3>2 DEF IntentSound
        <3>4. JournalSound' /\ JournalType' /\ PassSound' /\ PassType'
            BY <1>1, <2>1, <2>3, <3>3, AdvanceHandoffSound
        <3> QED BY <1>1, <2>1, <2>3, <3>4, Same, RowsSame, ImportedSame, Assemble
    <2> QED BY <1>4, <2>2, <2>3
<1>5. CASE HandoffAttention(p) /\ UNCHANGED <<claims, handoffs, faults>>
    <2>1. UNCHANGED keeper
        BY <1>1, <1>5 DEF keeper
    <2>2. Grows /\ KeeperSound'
        BY <1>1, <2>1, KeeperKeep DEF IInv
    <2>3. JournalSound' /\ JournalType' /\ PassSound' /\ PassType'
        BY <1>1, <1>5, <2>2, HandoffAsideSound
    <2> QED BY <1>1, <1>5, <2>1, <2>2, <2>3, Same, RowsSame, ImportedSame, Assemble
<1> QED BY <1>4, <1>5 DEF ConfirmHandoff, Done

LEMMA ImportHandoffSound ==
    ASSUME IInv, HandoffAssumption, NEW p \in Passes, ImportHandoff(p) PROVE IInv'
<1> PICK h, x : h = Hive(p) /\ x = Job(p).handoff
    OBVIOUS
<1> PICK i, c : i = HandedOver(x) /\ c = handoffs[x].claim
    OBVIOUS
<1>1. /\ UNCHANGED keeper /\ UNCHANGED rows /\ UNCHANGED jira /\ UNCHANGED assigned
      /\ UNCHANGED faults /\ InHand(p, "handoffs", "keeper_confirmed")
    BY DEF ImportHandoff, jira
<1>2. h \in Hives /\ x \in Handoffs /\ IntentSound(h, x, "keeper_confirmed")
    BY <1>1, HandoffInHand DEF HandoffJobs
<1>3. i \in Issues /\ Going(h, x, i) /\ Has(h, i) /\ Done(x)
    BY <1>2, IntentOf
<1>4. Was(h, i)
    <2>1. WasHome(handoffs[x].target, c) /\ c \in Claims
        BY <1>2, <1>3 DEF IInv, KeeperSound, HandoffsSound, HandoffSound, Done
    <2> QED BY <1>3, <2>1 DEF Was, Going, WasHome, HandedOver
<1>5. Grows /\ KeeperSound'
    BY <1>1, KeeperKeep DEF IInv
<1>6. CASE imported' = [imported EXCEPT ![h] = @ \union {i}] /\ AdvanceHandoff(p, "complete")
    <2>1. ImportedWasHome' /\ ImportedType'
        BY <1>2, <1>3, <1>4, <1>5, <1>6, WasLasts, ImportedSet
    <2>2. Going(h, x, i)'
        BY <1>3, <1>5 DEF Grows, Going
    <2>3. IntentSound(h, x, "complete")'
        BY <1>3, <2>2 DEF IntentSound
    <2>4. JournalSound' /\ JournalType' /\ PassSound' /\ PassType'
        BY <1>1, <1>5, <1>6, <2>3, AdvanceHandoffSound
    <2> QED BY <1>1, <1>5, <2>1, <2>4, Same, RowsSame, Assemble
<1>7. CASE HandoffWithheld(p) /\ UNCHANGED imported
    <2>1. JournalSound' /\ JournalType' /\ PassSound' /\ PassType'
        BY <1>1, <1>5, <1>7, HandoffAsideSound
    <2> QED BY <1>1, <1>5, <1>7, <2>1, Same, RowsSame, ImportedSame, Assemble
<1> QED BY <1>6, <1>7 DEF ImportHandoff

LEMMA PersonSound ==
    ASSUME IInv, HandoffAssumption, NEW i \in Issues, NEW who \in Persons, Person(i, who)
    PROVE  IInv'
<1>1. /\ UNCHANGED keeper /\ UNCHANGED rows /\ UNCHANGED journal /\ UNCHANGED imported
      /\ UNCHANGED assigned /\ UNCHANGED pass /\ UNCHANGED <<refused, missing>>
      /\ assignee' = [assignee EXCEPT ![i] = who]
    BY DEF Person, member, access
<1>2. Grows /\ KeeperSound'
    BY <1>1, KeeperKeep DEF IInv
<1>3. JiraType'
    BY <1>1 DEF IInv, TypeOK, JiraType
<1>4. FaultsType'
    BY Types DEF IInv, Person, FaultsType, HandoffAssumption
<1> QED BY <1>1, <1>2, <1>3, <1>4, Same, RowsSame, JournalSame, ImportedSame, PassSame, Assemble

\* What Jira shows and to whom is no part of what anybody has in writing.
LEMMA AccessSound ==
    ASSUME IInv, HandoffAssumption, Withhold \/ SetRight PROVE IInv'
<1>1. /\ UNCHANGED keeper /\ UNCHANGED rows /\ UNCHANGED journal /\ UNCHANGED imported
      /\ UNCHANGED assignee /\ UNCHANGED assigned /\ UNCHANGED pass
    BY DEF Withhold, SetRight, member
<1>2. Grows /\ KeeperSound'
    BY <1>1, KeeperKeep DEF IInv
<1>3. refused' \subseteq Hives /\ missing' \subseteq Issues
    BY DEF IInv, TypeOK, Withhold, SetRight, HandoffAssumption
<1>4. JiraType'
    BY <1>1, <1>3 DEF IInv, TypeOK, JiraType
<1>5. FaultsType'
    BY Types DEF IInv, Withhold, SetRight, FaultsType, HandoffAssumption
<1> QED BY <1>1, <1>2, <1>4, <1>5, RowsSame, JournalSame, ImportedSame, PassSame, Same, Assemble

LEMMA StutterSound == ASSUME IInv, HandoffAssumption, UNCHANGED vars PROVE IInv'
<1>1. /\ UNCHANGED keeper /\ UNCHANGED rows /\ UNCHANGED journal /\ UNCHANGED imported
      /\ UNCHANGED jira /\ UNCHANGED assigned /\ UNCHANGED pass /\ UNCHANGED faults
    BY DEF vars, member, jira
<1>2. Grows /\ KeeperSound'
    BY <1>1, KeeperKeep DEF IInv
<1> QED BY <1>1, <1>2, Same, RowsSame, JournalSame, ImportedSame, PassSame, Assemble

LEMMA NextSound == ASSUME IInv, [Next]_vars PROVE IInv'
<1> USE HandoffAssumption
<1>1. ASSUME NEW p \in Passes, Step(p) \/ GiveUp(p) PROVE IInv'
    <2>1. CASE ClaimStep(p)
        BY <2>1, BeginPassSound, ReserveClaimSound, ResetExpiredSound, ReadIssueSound,
           AssignIssueSound, ConfirmClaimSound, ImportClaimSound DEF ClaimStep
    <2>2. CASE HandoffStep(p)
        BY <2>2, ListHandoffsSound, AssignHandoffSound, ConfirmHandoffSound, ImportHandoffSound
           DEF HandoffStep
    <2> QED BY <1>1, <2>1, <2>2, GiveUpSound DEF Step
<1>2. ASSUME NEW h \in Hives, NEW i \in Issues, QueueClaim(h, i) PROVE IInv'
    BY <1>2, QueueClaimSound
<1>3. ASSUME NEW c \in Claims, Lapse(c) PROVE IInv'
    BY <1>3, LapseSound
<1>4. ASSUME NEW x \in Handoffs, NEW c \in Claims, NEW to \in Hives, Offer(x, c, to) PROVE IInv'
    BY <1>4, OfferKeeps
<1>5. ASSUME NEW x \in Handoffs, Accept(x) \/ Withdraw(x) PROVE IInv'
    BY <1>5, AcceptSound, WithdrawSound
<1>6. ASSUME NEW i \in Issues, NEW who \in Persons, Person(i, who) PROVE IInv'
    BY <1>6, PersonSound
<1>7. CASE Withhold \/ SetRight
    BY <1>7, AccessSound
<1>8. CASE UNCHANGED vars
    BY <1>8, StutterSound
<1> QED BY <1>1, <1>2, <1>3, <1>4, <1>5, <1>6, <1>7, <1>8 DEF Next

-----------------------------------------------------------------------------
(* The theorems.                                                           *)

\* The parts of the invariant hold in every state, whatever answers are lost,
\* whoever changes Jira, and however old the copies are that passes work from.
THEOREM HandoffInvariant == Spec => []IInv
<1>1. Init => IInv
    BY InitSound, HandoffAssumption
<1>2. IInv /\ [Next]_vars => IInv'
    BY NextSound
<1> QED BY <1>1, <1>2, PTL DEF Spec

\* The Keeper's tables, the members' journals and the passes keep to their types.
THEOREM HandoffTypes == Spec => []TypeOK
<1>1. IInv => TypeOK
    BY DEF IInv
<1> QED BY <1>1, HandoffInvariant, PTL

\* The Keeper makes no Hive the home of an issue before Jira has assigned the
\* issue to its operator.
THEOREM AssignedBeforeHome == Spec => []JiraBeforeHome
<1>1. IInv => JiraBeforeHome
    BY DEF IInv, KeeperSound, ClaimsSound
<1> QED BY <1>1, HandoffInvariant, PTL

\* No Hive has a task for a shared issue whose home it never was.
THEOREM TasksWereHome == Spec => []ImportedWasHome
<1>1. IInv => ImportedWasHome
    BY DEF IInv, MemberSound
<1> QED BY <1>1, HandoffInvariant, PTL

-----------------------------------------------------------------------------
(* The Keeper's tables implement SharedHome.                               *)

\* Claim c makes an issue somebody's; handoff x takes one away from its home.
Owns(c, i) == claims[c].issue = i /\ claims[c].state = "confirmed"
Leaves(x, i) == handoffs[x].state = "accepted" /\ Owns(handoffs[x].claim, i)

\* An issue has one home, the one that its confirmed claim has.
LEMMA HomeIs ==
    ASSUME KeeperSound, NEW i \in Issues
    PROVE  /\ \A c \in Claims : Owns(c, i) => HomeOf[i] = claims[c].home
           /\ (\A c \in Claims : ~Owns(c, i)) => HomeOf[i] = None
<1>1. \A c, d \in Owning(i) : c = d
    BY DEF KeeperSound, ClaimsSound, Owning, Open
<1>2. HomeOf[i] = IF Owning(i) = {} THEN None ELSE claims[CHOOSE c \in Owning(i) : TRUE].home
    BY DEF HomeOf
<1>3. ASSUME NEW c \in Claims, Owns(c, i) PROVE HomeOf[i] = claims[c].home
    <2>1. c \in Owning(i)
        BY <1>3 DEF Owns, Owning
    <2>2. (CHOOSE d \in Owning(i) : TRUE) = c
        BY <1>1, <2>1
    <2> QED BY <1>2, <2>1, <2>2
<1>4. (\A c \in Claims : ~Owns(c, i)) => Owning(i) = {}
    BY DEF Owns, Owning
<1> QED BY <1>2, <1>3, <1>4

LEMMA HomeIsNext ==
    ASSUME KeeperSound', NEW i \in Issues
    PROVE  /\ \A c \in Claims : Owns(c, i)' => HomeOf'[i] = claims'[c].home
           /\ (\A c \in Claims : ~Owns(c, i)') => HomeOf'[i] = None
<1>1. \A c, d \in Owning(i)' : c = d
    BY DEF KeeperSound, ClaimsSound, Owning, Open
<1>2. HomeOf'[i] = IF Owning(i)' = {} THEN None
                   ELSE claims'[CHOOSE c \in Owning(i)' : TRUE].home
    BY DEF HomeOf
<1>3. ASSUME NEW c \in Claims, Owns(c, i)' PROVE HomeOf'[i] = claims'[c].home
    <2>1. c \in Owning(i)'
        BY <1>3 DEF Owns, Owning
    <2>2. (CHOOSE d \in Owning(i)' : TRUE) = c
        BY <1>1, <2>1
    <2> QED BY <1>2, <2>1, <2>2
<1>4. (\A c \in Claims : ~Owns(c, i)') => Owning(i)' = {}
    BY DEF Owns, Owning
<1> QED BY <1>2, <1>3, <1>4

\* At most one accepted handoff takes it away.
LEMMA HeirIs ==
    ASSUME KeeperSound, NEW i \in Issues
    PROVE  /\ \A x \in Handoffs : Leaves(x, i) => HeirOf[i] = handoffs[x].target
           /\ (\A x \in Handoffs : ~Leaves(x, i)) => HeirOf[i] = None
<1>1. \A x, y \in Leaving(i) : x = y
    BY DEF KeeperSound, ClaimsSound, HandoffsSound, Leaving, Owning, Open, Active
<1>2. HeirOf[i] = IF Leaving(i) = {} THEN None ELSE handoffs[CHOOSE x \in Leaving(i) : TRUE].target
    BY DEF HeirOf
<1>3. \A x \in Handoffs : Leaves(x, i) <=> x \in Leaving(i)
    BY DEF Leaves, Owns, Leaving, Owning, KeeperSound, HandoffsSound, HandoffSound
<1>4. ASSUME NEW x \in Handoffs, Leaves(x, i) PROVE HeirOf[i] = handoffs[x].target
    <2>1. (CHOOSE y \in Leaving(i) : TRUE) = x
        BY <1>1, <1>3, <1>4
    <2> QED BY <1>2, <1>3, <1>4, <2>1
<1>5. (\A x \in Handoffs : ~Leaves(x, i)) => Leaving(i) = {}
    BY <1>3 DEF Leaving
<1> QED BY <1>2, <1>4, <1>5

LEMMA HeirIsNext ==
    ASSUME KeeperSound', NEW i \in Issues
    PROVE  /\ \A x \in Handoffs : Leaves(x, i)' => HeirOf'[i] = handoffs'[x].target
           /\ (\A x \in Handoffs : ~Leaves(x, i)') => HeirOf'[i] = None
<1>1. \A x, y \in Leaving(i)' : x = y
    BY DEF KeeperSound, ClaimsSound, HandoffsSound, Leaving, Owning, Open, Active
<1>2. HeirOf'[i] = IF Leaving(i)' = {} THEN None
                   ELSE handoffs'[CHOOSE x \in Leaving(i)' : TRUE].target
    BY DEF HeirOf
<1>3. \A x \in Handoffs : Leaves(x, i)' <=> x \in Leaving(i)'
    BY DEF Leaves, Owns, Leaving, Owning, KeeperSound, HandoffsSound, HandoffSound
<1>4. ASSUME NEW x \in Handoffs, Leaves(x, i)' PROVE HeirOf'[i] = handoffs'[x].target
    <2>1. (CHOOSE y \in Leaving(i)' : TRUE) = x
        BY <1>1, <1>3, <1>4
    <2> QED BY <1>2, <1>3, <1>4, <2>1
<1>5. (\A x \in Handoffs : ~Leaves(x, i)') => Leaving(i)' = {}
    BY <1>3 DEF Leaving
<1> QED BY <1>2, <1>4, <1>5

\* A step after which the same claims own what they owned, for the same homes.
LEMMA HomesSame ==
    ASSUME KeeperSound, KeeperSound',
           \A i \in Issues : \A c \in Claims :
             /\ Owns(c, i)' <=> Owns(c, i)
             /\ Owns(c, i) => claims'[c].home = claims[c].home
    PROVE  UNCHANGED HomeOf
<1>1. ASSUME NEW i \in Issues PROVE HomeOf'[i] = HomeOf[i]
    <2>1. CASE \E c \in Claims : Owns(c, i)
        <3> PICK c \in Claims : Owns(c, i)
            BY <2>1
        <3> QED BY HomeIs, HomeIsNext
    <2>2. CASE \A c \in Claims : ~Owns(c, i)
        BY <2>2, HomeIs, HomeIsNext
    <2> QED BY <2>1, <2>2
<1> QED BY <1>1 DEF HomeOf

\* A step after which the same handoffs take away what they did.
LEMMA HeirsSame ==
    ASSUME KeeperSound, KeeperSound',
           \A i \in Issues : \A x \in Handoffs :
             /\ Leaves(x, i)' <=> Leaves(x, i)
             /\ Leaves(x, i) => handoffs'[x].target = handoffs[x].target
    PROVE  UNCHANGED HeirOf
<1>1. ASSUME NEW i \in Issues PROVE HeirOf'[i] = HeirOf[i]
    <2>1. CASE \E x \in Handoffs : Leaves(x, i)
        <3> PICK x \in Handoffs : Leaves(x, i)
            BY <2>1
        <3> QED BY HeirIs, HeirIsNext
    <2>2. CASE \A x \in Handoffs : ~Leaves(x, i)
        BY <2>2, HeirIs, HeirIsNext
    <2> QED BY <2>1, <2>2
<1> QED BY <1>1 DEF HeirOf

LEMMA KeeperStutters ==
    ASSUME KeeperSound, KeeperSound',
           \A c \in Claims :
             /\ claims'[c].state = "confirmed" <=> claims[c].state = "confirmed"
             /\ claims[c].state = "confirmed" =>
                  claims'[c].issue = claims[c].issue /\ claims'[c].home = claims[c].home,
           \A x \in Handoffs :
             /\ handoffs'[x].state = "accepted" <=> handoffs[x].state = "accepted"
             /\ handoffs[x].state = "accepted" =>
                  handoffs'[x].claim = handoffs[x].claim /\ handoffs'[x].target = handoffs[x].target
    PROVE  UNCHANGED Promise!vars
<1>1. \A i \in Issues : \A c \in Claims :
        Owns(c, i)' <=> Owns(c, i)
    BY DEF Owns
<1>2. UNCHANGED HomeOf
    BY <1>1, HomesSame DEF Owns
<1>3. \A x \in Handoffs : handoffs[x].state = "accepted" => handoffs[x].claim \in Claims
    BY DEF KeeperSound, HandoffsSound, HandoffSound
<1>4. \A i \in Issues : \A x \in Handoffs : Leaves(x, i)' <=> Leaves(x, i)
    BY <1>3 DEF Leaves, Owns
<1>5. UNCHANGED HeirOf
    BY <1>4, HeirsSame DEF Leaves
<1> QED BY <1>2, <1>5 DEF Promise!vars

\* A reservation that is confirmed gives the issue its first home.
LEMMA ConfirmTakes ==
    ASSUME IInv, KeeperSound', NEW c \in Claims, claims[c].state = "reserved",
           claims' = [claims EXCEPT ![c].state = "confirmed"], UNCHANGED handoffs
    PROVE  Promise!Next
<1> PICK i, h : i = claims[c].issue /\ h = claims[c].home
    OBVIOUS
<1>1. i \in Issues /\ h \in Hives
    BY DEF IInv, KeeperSound, ClaimsSound
<1>2. \A d \in Claims :
        /\ claims'[d].issue = claims[d].issue /\ claims'[d].home = claims[d].home
        /\ claims'[d].state = IF d = c THEN "confirmed" ELSE claims[d].state
    BY DEF IInv, TypeOK
<1>3. \A d \in Claims : ~Owns(d, i)
    BY DEF Owns, IInv, KeeperSound, ClaimsSound, Open
<1>4. Owns(c, i)'
    BY <1>2 DEF Owns
<1>5. HomeOf[i] = None /\ HomeOf'[i] = h
    BY <1>1, <1>2, <1>3, <1>4, HomeIs, HomeIsNext DEF IInv
<1>6. ASSUME NEW j \in Issues, j # i PROVE HomeOf'[j] = HomeOf[j]
    <2>1. \A d \in Claims : Owns(d, j)' <=> Owns(d, j)
        BY <1>2, <1>6 DEF Owns
    <2>2. CASE \E d \in Claims : Owns(d, j)
        <3> PICK d \in Claims : Owns(d, j)
            BY <2>2
        <3> QED BY <1>2, <2>1, HomeIs, HomeIsNext DEF IInv
    <2>3. CASE \A d \in Claims : ~Owns(d, j)
        BY <2>1, <2>3, HomeIs, HomeIsNext DEF IInv
    <2> QED BY <2>2, <2>3
<1>7. HomeOf' = [HomeOf EXCEPT ![i] = h]
    BY <1>1, <1>5, <1>6 DEF HomeOf
<1>8. \A j \in Issues : \A x \in Handoffs : Leaves(x, j)' <=> Leaves(x, j)
    <2>1. \A x \in Handoffs : handoffs[x].state = "accepted" =>
             handoffs[x].claim \in Claims \ {c}
        BY DEF IInv, KeeperSound, HandoffsSound, HandoffSound
    <2> QED BY <1>2, <2>1 DEF Leaves, Owns
<1>9. UNCHANGED HeirOf
    BY <1>8, HeirsSame DEF IInv
<1>10. Promise!Take(i, h)
    BY <1>5, <1>7, <1>9 DEF Promise!Take
<1> QED BY <1>1, <1>10 DEF Promise!Next

\* A target that accepts agrees to take the issue of the claim.
LEMMA AcceptAgrees ==
    ASSUME IInv, KeeperSound', HandoffAssumption, NEW x \in Handoffs, Accept(x)
    PROVE  Promise!Next
<1> PICK c, t : c = handoffs[x].claim /\ t = handoffs[x].target
    OBVIOUS
<1> PICK i : i = claims[c].issue
    OBVIOUS
<1>1. /\ handoffs[x].state = "offered" /\ UNCHANGED claims
      /\ \A y \in Handoffs :
           /\ handoffs'[y].claim = handoffs[y].claim /\ handoffs'[y].target = handoffs[y].target
           /\ handoffs'[y].state = IF y = x THEN "accepted" ELSE handoffs[y].state
    BY DEF Accept, IInv, TypeOK
<1>2. /\ c \in Claims /\ t \in Hives /\ claims[c].state = "confirmed"
      /\ claims[c].home \in Hives \ {t}
    BY <1>1 DEF IInv, KeeperSound, HandoffsSound, HandoffSound, Active
<1>3. i \in Issues /\ Owns(c, i)
    BY <1>2 DEF IInv, KeeperSound, ClaimsSound, Owns
<1>4. HomeOf[i] \in Hives \ {t}
    BY <1>2, <1>3, HomeIs DEF IInv
<1>5. UNCHANGED HomeOf
    BY <1>1 DEF HomeOf, Owning
<1>6. \A y \in Handoffs : ~Leaves(y, i)
    <2> SUFFICES ASSUME NEW y \in Handoffs, Leaves(y, i) PROVE FALSE
        OBVIOUS
    <2>1. handoffs[y].claim = c
        BY <1>2, <1>3 DEF Leaves, Owns, IInv, KeeperSound, ClaimsSound, HandoffsSound,
                          HandoffSound, Open
    <2>2. y = x
        BY <1>1, <2>1 DEF Leaves, Active, IInv, KeeperSound, HandoffsSound
    <2> QED BY <1>1, <2>2 DEF Leaves
<1>7. Leaves(x, i)' /\ handoffs'[x].target = t
    BY <1>1, <1>3 DEF Leaves, Owns
<1>8. HeirOf[i] = None /\ HeirOf'[i] = t
    BY <1>3, <1>6, <1>7, HeirIs, HeirIsNext DEF IInv
<1>9. ASSUME NEW j \in Issues, j # i PROVE HeirOf'[j] = HeirOf[j]
    <2>1. \A y \in Handoffs : Leaves(y, j)' <=> Leaves(y, j)
        BY <1>1, <1>3, <1>9 DEF Leaves, Owns
    <2>2. CASE \E y \in Handoffs : Leaves(y, j)
        <3> PICK y \in Handoffs : Leaves(y, j)
            BY <2>2
        <3> QED BY <1>1, <2>1, HeirIs, HeirIsNext DEF IInv
    <2>3. CASE \A y \in Handoffs : ~Leaves(y, j)
        BY <2>1, <2>3, HeirIs, HeirIsNext DEF IInv
    <2> QED BY <2>2, <2>3
<1>10. HeirOf' = [HeirOf EXCEPT ![i] = t]
    <2>1. HeirOf = [j \in Issues |-> HeirOf[j]] /\ HeirOf' = [j \in Issues |-> HeirOf'[j]]
        BY DEF HeirOf
    <2> QED BY <1>3, <1>8, <1>9, <2>1
<1>11. Promise!Agree(i, t)
    BY <1>4, <1>5, <1>8, <1>10 DEF Promise!Agree
<1> QED BY <1>2, <1>3, <1>11 DEF Promise!Next

\* A handoff that completes gives the issue to the heir.
LEMMA CompleteHandsOver ==
    ASSUME IInv, KeeperSound', NEW x \in Handoffs, handoffs[x].state = "accepted", Complete(x)
    PROVE  Promise!Next
<1> PICK c, t : c = handoffs[x].claim /\ t = handoffs[x].target
    OBVIOUS
<1> PICK i : i = claims[c].issue
    OBVIOUS
<1>1. c \in Claims /\ t \in Hives /\ claims[c].state = "confirmed"
    BY DEF IInv, KeeperSound, HandoffsSound, HandoffSound
<1>2. i \in Issues /\ Owns(c, i) /\ Leaves(x, i)
    BY <1>1 DEF IInv, KeeperSound, ClaimsSound, Owns, Leaves
<1>3. /\ \A y \in Handoffs :
            /\ handoffs'[y].claim = handoffs[y].claim /\ handoffs'[y].target = handoffs[y].target
            /\ handoffs'[y].state = IF y = x THEN "completed" ELSE handoffs[y].state
      /\ \A d \in Claims :
            /\ claims'[d].issue = claims[d].issue /\ claims'[d].state = claims[d].state
            /\ claims'[d].home = IF d = c THEN t ELSE claims[d].home
    BY <1>1 DEF IInv, TypeOK, Complete
<1>4. \A j \in Issues : \A d \in Claims : Owns(d, j)' <=> Owns(d, j)
    BY <1>3 DEF Owns
<1>5. HeirOf[i] = t /\ HomeOf'[i] = t
    BY <1>1, <1>2, <1>3, <1>4, HeirIs, HomeIsNext DEF IInv
<1>6. \A y \in Handoffs : ~Leaves(y, i)'
    <2> SUFFICES ASSUME NEW y \in Handoffs, Leaves(y, i)' PROVE FALSE
        OBVIOUS
    <2>1. y # x /\ handoffs[y].state = "accepted" /\ handoffs[y].claim \in Claims
        BY <1>3 DEF Leaves, IInv, KeeperSound, HandoffsSound, HandoffSound
    <2>2. Owns(handoffs[y].claim, i)
        BY <1>2, <1>3, <2>1 DEF Leaves, Owns
    <2>3. handoffs[y].claim = c
        BY <1>1, <2>1, <2>2 DEF Owns, IInv, KeeperSound, ClaimsSound, Open
    <2> QED BY <2>1, <2>3 DEF IInv, KeeperSound, HandoffsSound, Active
<1>7. HeirOf'[i] = None
    BY <1>2, <1>6, HeirIsNext
<1>8. ASSUME NEW j \in Issues, j # i PROVE HomeOf'[j] = HomeOf[j] /\ HeirOf'[j] = HeirOf[j]
    <2>1. \A d \in Claims : Owns(d, j) => claims'[d].home = claims[d].home
        BY <1>2, <1>3, <1>8 DEF Owns
    <2>2. HomeOf'[j] = HomeOf[j]
        <3>1. CASE \E d \in Claims : Owns(d, j)
            <4> PICK d \in Claims : Owns(d, j)
                BY <3>1
            <4> QED BY <1>4, <2>1, HomeIs, HomeIsNext DEF IInv
        <3>2. CASE \A d \in Claims : ~Owns(d, j)
            BY <1>4, <3>2, HomeIs, HomeIsNext DEF IInv
        <3> QED BY <3>1, <3>2
    <2>3. \A y \in Handoffs : Leaves(y, j)' <=> Leaves(y, j)
        <3>1. \A y \in Handoffs : handoffs[y].state = "accepted" => handoffs[y].claim \in Claims
            BY DEF IInv, KeeperSound, HandoffsSound, HandoffSound
        <3> QED BY <1>2, <1>3, <1>8, <3>1 DEF Leaves, Owns
    <2>4. HeirOf'[j] = HeirOf[j]
        <3>1. CASE \E y \in Handoffs : Leaves(y, j)
            <4> PICK y \in Handoffs : Leaves(y, j)
                BY <3>1
            <4> QED BY <1>3, <2>3, HeirIs, HeirIsNext DEF IInv
        <3>2. CASE \A y \in Handoffs : ~Leaves(y, j)
            BY <2>3, <3>2, HeirIs, HeirIsNext DEF IInv
        <3> QED BY <3>1, <3>2
    <2> QED BY <2>2, <2>4
<1>9. HomeOf' = [HomeOf EXCEPT ![i] = HeirOf[i]] /\ HeirOf' = [HeirOf EXCEPT ![i] = None]
    <2>1. HomeOf' = [HomeOf EXCEPT ![i] = t]
        <3>1. HomeOf = [j \in Issues |-> HomeOf[j]] /\ HomeOf' = [j \in Issues |-> HomeOf'[j]]
            BY DEF HomeOf
        <3> QED BY <1>2, <1>5, <1>8, <3>1
    <2>2. i \in Issues /\ \A j \in Issues \ {i} : HeirOf'[j] = HeirOf[j]
        BY <1>2, <1>8
    <2>3. HeirOf = [j \in Issues |-> HeirOf[j]] /\ HeirOf' = [j \in Issues |-> HeirOf'[j]]
        BY DEF HeirOf
    <2>4. HeirOf' = [HeirOf EXCEPT ![i] = None]
        BY <1>7, <2>2, <2>3
    <2> QED BY <1>5, <2>1, <2>4
<1>10. Promise!HandOver(i)
    BY <1>1, <1>5, <1>9 DEF Promise!HandOver
<1> QED BY <1>2, <1>10 DEF Promise!Next

LEMMA TablesSame ==
    ASSUME UNCHANGED <<claims, handoffs>> PROVE UNCHANGED Promise!vars
BY DEF Promise!vars, HomeOf, HeirOf, Owning, Leaving

\* A reservation, new or over, is nobody's home.
LEMMA ReserveStutters ==
    ASSUME IInv, KeeperSound', NEW p \in Passes, ReserveClaim(p)
    PROVE  UNCHANGED Promise!vars
<1> PICK h, i : h = Hive(p) /\ i = Job(p).issue
    OBVIOUS
<1>1. UNCHANGED handoffs /\ \/ UNCHANGED claims
                            \/ \E c \in Claims : Reserve(h, i, c)
    BY DEF ReserveClaim
<1>2. \A d \in Claims :
        /\ claims'[d].state = "confirmed" <=> claims[d].state = "confirmed"
        /\ claims[d].state = "confirmed" =>
             claims'[d].issue = claims[d].issue /\ claims'[d].home = claims[d].home
    <2>1. \A d \in Claims :
            /\ Expire(i)[d].issue = claims[d].issue /\ Expire(i)[d].home = claims[d].home
            /\ Expire(i)[d].state = IF d \in Expired(i) THEN "expired" ELSE claims[d].state
        BY DEF Expire, IInv, TypeOK
    <2>2. \A d \in Claims :
            /\ Expire(i)[d].state = "confirmed" <=> claims[d].state = "confirmed"
            /\ Expire(i)[d].issue = claims[d].issue /\ Expire(i)[d].home = claims[d].home
        BY <2>1 DEF Expired
    <2>3. CASE UNCHANGED claims
        BY <2>3
    <2>4. ASSUME NEW c \in Claims, claims[c].state = "none",
                 claims' = [Expire(i) EXCEPT ![c] = [state |-> "reserved", issue |-> i, home |-> h]]
          PROVE  \A d \in Claims :
                   /\ claims'[d].state = "confirmed" <=> claims[d].state = "confirmed"
                   /\ claims[d].state = "confirmed" =>
                        claims'[d].issue = claims[d].issue /\ claims'[d].home = claims[d].home
        BY <2>2, <2>4 DEF Expire
    <2> QED BY <1>1, <2>3, <2>4 DEF Reserve
<1> QED BY <1>1, <1>2, KeeperStutters DEF IInv

LEMMA ConfirmPromise ==
    ASSUME IInv, KeeperSound', HandoffAssumption, NEW p \in Passes, ConfirmClaim(p)
    PROVE  Promise!Next \/ UNCHANGED Promise!vars
<1> PICK c : c = Job(p).claim
    OBVIOUS
<1>1. InHand(p, "claims", "jira_assigned") /\ UNCHANGED handoffs
    BY DEF ConfirmClaim
<1>2. c \in Claims
    BY <1>1, ClaimInHand DEF CopySound, Known
<1>3. CASE claims[c].state = "reserved" /\ claims' = [claims EXCEPT ![c].state = "confirmed"]
    BY <1>1, <1>2, <1>3, ConfirmTakes
<1>4. CASE claims[c].state = "confirmed" /\ claims' = [claims EXCEPT ![c].state = "confirmed"]
    <2>1. \A d \in Claims :
            /\ claims'[d].issue = claims[d].issue /\ claims'[d].home = claims[d].home
            /\ claims'[d].state = claims[d].state
        BY <1>4 DEF IInv, TypeOK
    <2> QED BY <1>1, <2>1, KeeperStutters DEF IInv
<1>5. CASE /\ claims[c].state # "confirmed"
           /\ claims' = [claims EXCEPT ![c].state = IF @ = "reserved" THEN "expired" ELSE @]
    <2>1. \A d \in Claims :
            /\ claims'[d].issue = claims[d].issue /\ claims'[d].home = claims[d].home
            /\ claims'[d].state = "confirmed" <=> claims[d].state = "confirmed"
        BY <1>5 DEF IInv, TypeOK
    <2> QED BY <1>1, <2>1, KeeperStutters DEF IInv
<1>6. CASE UNCHANGED claims
    BY <1>1, <1>6, TablesSame
<1> QED BY <1>3, <1>4, <1>5, <1>6 DEF ConfirmClaim

LEMMA AskStutters ==
    ASSUME IInv, KeeperSound', HandoffAssumption, NEW x \in Handoffs,
           \/ Withdraw(x)
           \/ \E c \in Claims, to \in Hives : Offer(x, c, to)
    PROVE  UNCHANGED Promise!vars
<1>1. /\ UNCHANGED claims
      /\ handoffs[x].state # "accepted" /\ handoffs'[x].state # "accepted"
      /\ \A y \in Handoffs \ {x} : handoffs'[y] = handoffs[y]
    <2>1. CASE Withdraw(x)
        BY <2>1 DEF Withdraw, IInv, TypeOK
    <2>2. ASSUME NEW c \in Claims, NEW to \in Hives, Offer(x, c, to)
          PROVE  /\ UNCHANGED claims
                 /\ handoffs[x].state # "accepted" /\ handoffs'[x].state # "accepted"
                 /\ \A y \in Handoffs \ {x} : handoffs'[y] = handoffs[y]
        <3>1. handoffs[x].state = "none" /\ UNCHANGED claims
            BY <2>2 DEF Offer
        <3> PICK s : s = claims[c].home
            OBVIOUS
        <3>2. handoffs' = [handoffs EXCEPT ![x] =
                             [state |-> "offered", claim |-> c, source |-> s, target |-> to]]
            BY <2>2 DEF Offer
        <3> QED BY <3>1, <3>2 DEF IInv, TypeOK
    <2> QED BY <2>1, <2>2
<1> QED BY <1>1, KeeperStutters DEF IInv

LEMMA HandoffPromise ==
    ASSUME IInv, KeeperSound', HandoffAssumption, NEW p \in Passes, ConfirmHandoff(p)
    PROVE  Promise!Next \/ UNCHANGED Promise!vars
<1> PICK x : x = Job(p).handoff
    OBVIOUS
<1>1. x \in Handoffs
    BY HandoffInHand DEF ConfirmHandoff, HandoffJobs
<1>2. CASE handoffs[x].state = "accepted" /\ Complete(x)
    BY <1>1, <1>2, CompleteHandsOver
<1>3. CASE UNCHANGED <<claims, handoffs>>
    BY <1>3, TablesSame
<1> QED BY <1>2, <1>3 DEF ConfirmHandoff

\* Every step is one of the promise, or none.
LEMMA StepPromise ==
    ASSUME IInv, IInv', HandoffAssumption, [Next]_vars
    PROVE  Promise!Next \/ UNCHANGED Promise!vars
<1>1. KeeperSound'
    BY DEF IInv
<1>2. ASSUME NEW p \in Passes, Step(p) \/ GiveUp(p)
      PROVE  Promise!Next \/ UNCHANGED Promise!vars
    <2>1. CASE ReserveClaim(p)
        BY <1>1, <2>1, ReserveStutters
    <2>2. CASE ConfirmClaim(p)
        BY <1>1, <2>2, ConfirmPromise
    <2>3. CASE ConfirmHandoff(p)
        BY <1>1, <2>3, HandoffPromise
    <2>4. CASE BeginPass(p) \/ GiveUp(p) \/ ResetExpired(p)
        BY <2>4, TablesSame DEF BeginPass, GiveUp, ResetExpired, keeper
    <2>5. CASE ReadIssue(p) \/ AssignIssue(p) \/ ImportClaim(p)
        BY <2>5, TablesSame DEF ReadIssue, AssignIssue, ImportClaim, keeper
    <2>6. CASE ListHandoffs(p) \/ AssignHandoff(p) \/ ImportHandoff(p)
        BY <2>6, TablesSame DEF ListHandoffs, AssignHandoff, ImportHandoff, keeper
    <2> QED BY <1>2, <2>1, <2>2, <2>3, <2>4, <2>5, <2>6 DEF Step, ClaimStep, HandoffStep
<1>3. ASSUME NEW h \in Hives, NEW i \in Issues, QueueClaim(h, i) PROVE UNCHANGED Promise!vars
    BY <1>3, TablesSame DEF QueueClaim, keeper
<1>4. ASSUME NEW c \in Claims, Lapse(c) PROVE UNCHANGED Promise!vars
    BY <1>4, TablesSame DEF Lapse
<1>5. ASSUME NEW x \in Handoffs, NEW c \in Claims, NEW to \in Hives, Offer(x, c, to)
      PROVE  UNCHANGED Promise!vars
    BY <1>1, <1>5, AskStutters
<1>6. ASSUME NEW x \in Handoffs, Accept(x) \/ Withdraw(x)
      PROVE  Promise!Next \/ UNCHANGED Promise!vars
    BY <1>1, <1>6, AcceptAgrees, AskStutters
<1>7. ASSUME NEW i \in Issues, NEW who \in Persons, Person(i, who) PROVE UNCHANGED Promise!vars
    BY <1>7, TablesSame DEF Person, keeper
<1>8. CASE Withhold \/ SetRight
    BY <1>8, TablesSame DEF Withhold, SetRight, keeper
<1>9. CASE UNCHANGED vars
    BY <1>9, TablesSame DEF vars, keeper
<1> QED BY <1>2, <1>3, <1>4, <1>5, <1>6, <1>7, <1>8, <1>9 DEF Next

\* The Keeper's tables implement SharedHome: an issue never loses its home, and
\* the home is only ever exchanged for the Hive that accepted the handoff.
THEOREM ImplementsSharedHome == Spec => KeepsHome
<1>1. Init => Promise!Init
    BY DEF Init, Promise!Init, HomeOf, HeirOf, Owning, Leaving
<1>2. IInv /\ IInv' /\ [Next]_vars => [Promise!Next]_(Promise!vars)
    BY StepPromise, HandoffAssumption
<1> QED BY <1>1, <1>2, HandoffInvariant, PTL DEF Spec, KeepsHome, Promise!Spec
=============================================================================
