--------------------------- MODULE TurnLedgerProofs ---------------------------
(***************************************************************************)
(* What a settled ledger and a passed admission mean, for every set of     *)
(* chunks, every behaviour of Claude and every bound.                      *)
(*                                                                         *)
(* The invariants relate the three channels to Claude's own state: what    *)
(* the ledger, the hooks still under way and the screen together cannot    *)
(* have forgotten.  The hooks under way are accounted for by the books the *)
(* ledger will hold once each has been observed, one entry per hook.       *)
(***************************************************************************)
EXTENDS TurnLedger, TLAPS

Turns == [phase : {"working", "ended", "failed"}, waiting : BOOLEAN, denial : BOOLEAN]

(* A ledger whose submit mark has not run ahead of its writes.             *)
Ledgers ==
    {l \in [open : Prompts \union {NoPrompt}, lastClosed : Prompts \union {NoPrompt},
            queued : Nat, unaccounted : BOOLEAN, writes : Nat,
            writesAtSubmit : Nat, halfTyped : BOOLEAN, afterStop : Reports] :
        l.writesAtSubmit <= l.writes}

-----------------------------------------------------------------------------
(* Applying one report.                                                    *)

LEMMA AppliedType ==
    ASSUME NEW t \in Turns, NEW k \in Kinds
    PROVE  Applied(t, k) \in Turns
BY DEF Turns, Kinds, Applied

LEMMA ObservedType ==
    ASSUME NEW l \in Ledgers, NEW h \in Hooks
    PROVE  Observed(l, h) \in Ledgers
<1> DEFINE p == h.prompt
           taken == [l EXCEPT !.writesAtSubmit = l.writes]
           told == [l EXCEPT !.afterStop = h.report]
<1>0. p \in Prompts \union {NoPrompt} /\ h.report \in Reports
  BY DEF Hooks
<1>1. taken \in Ledgers /\ told \in Ledgers
  BY <1>0 DEF Ledgers
<1>2. ASSUME NEW m \in Ledgers
      PROVE  /\ Lost(m) \in Ledgers
             /\ Closed(m, p) \in Ledgers
             /\ [m EXCEPT !.queued = m.queued + 1] \in Ledgers
             /\ [m EXCEPT !.open = p] \in Ledgers
             /\ m.queued > 0 => [m EXCEPT !.queued = m.queued - 1, !.lastClosed = p] \in Ledgers
  <2>1. /\ Lost(m) \in Ledgers
        /\ Closed(m, p) \in Ledgers
        /\ [m EXCEPT !.open = p] \in Ledgers
    BY <1>0 DEF Ledgers, Lost, Closed
  <2>2. [m EXCEPT !.queued = m.queued + 1] \in Ledgers
    BY DEF Ledgers
  <2>3. m.queued > 0 => m.queued - 1 \in Nat
    BY DEF Ledgers
  <2>4. QED
    BY <1>0, <2>1, <2>2, <2>3 DEF Ledgers
<1>3. Submitted(l, p) \in Ledgers
  BY <1>0, <1>1, <1>2 DEF Submitted
<1>4. Ended(l, p, h.report) \in Ledgers
  <2>1. l.queued = told.queued
    BY DEF Ledgers
  <2>2. QED
    BY <1>0, <1>1, <1>2, <2>1 DEF Ended
<1>5. Failed(l, p) \in Ledgers
  BY <1>2 DEF Failed
<1>6. QED
  BY <1>3, <1>4, <1>5 DEF Observed

(* The part of the ledger that accounts for turns.                         *)
SameBooks(l, m) ==
    /\ l.open = m.open /\ l.lastClosed = m.lastClosed
    /\ l.queued = m.queued /\ l.unaccounted = m.unaccounted

(* What a hook does to the books depends on the books alone.               *)
LEMMA ObservedBooks ==
    ASSUME NEW l \in Ledgers, NEW m \in Ledgers, NEW h \in Hooks, SameBooks(l, m)
    PROVE  SameBooks(Observed(l, h), Observed(m, h))
<1>1. CASE h.kind = "submitted"
  BY <1>1 DEF Ledgers, Observed, Submitted, Lost, SameBooks
<1>2. CASE h.kind = "ended"
  <2>1. /\ Observed(l, h) = Ended(l, h.prompt, h.report)
        /\ Observed(m, h) = Ended(m, h.prompt, h.report)
    BY <1>2 DEF Observed
  <2> DEFINE told(x) == [x EXCEPT !.afterStop = h.report]
  <2>2. ASSUME NEW x \in Ledgers
        PROVE  SameBooks(told(x), x)
    BY DEF Ledgers, SameBooks
  <2>3. h.report \in Reports
    BY DEF Hooks
  <2>4. told(l) \in Ledgers /\ told(m) \in Ledgers
    BY <2>3 DEF Ledgers
  <2>5. ASSUME NEW x \in Ledgers, NEW y \in Ledgers, SameBooks(x, y)
        PROVE  SameBooks(Lost(x), Lost(y))
    BY <2>5 DEF Ledgers, Lost, SameBooks
  <2>6. ASSUME NEW x \in Ledgers, NEW y \in Ledgers, SameBooks(x, y)
        PROVE  SameBooks(Closed(x, h.prompt), Closed(y, h.prompt))
    BY <2>6 DEF Ledgers, Closed, SameBooks
  <2>7. SameBooks(told(l), told(m))
    BY <2>2 DEF SameBooks
  <2>8. SameBooks([told(l) EXCEPT !.queued = @ - 1, !.lastClosed = h.prompt],
                  [told(m) EXCEPT !.queued = @ - 1, !.lastClosed = h.prompt])
    <3> HIDE DEF told
    <3>1. QED
      BY <2>4, <2>7 DEF Ledgers, SameBooks
  <2>9. l.open = m.open /\ l.lastClosed = m.lastClosed /\ l.queued = m.queued
    BY DEF SameBooks
  <2> HIDE DEF told
  <2>10. QED
    BY <2>1, <2>4, <2>5, <2>6, <2>7, <2>8, <2>9 DEF Ended, told
<1>3. CASE h.kind = "failed"
  BY <1>3 DEF Ledgers, Observed, Failed, Closed, SameBooks
<1>4. CASE h.kind \notin {"submitted", "ended", "failed"}
  BY <1>4 DEF Observed
<1>5. QED
  BY <1>1, <1>2, <1>3, <1>4

(* Only the report of a prompt adds to the queue, and adds one.            *)
LEMMA ObservedQueue ==
    ASSUME NEW l \in Ledgers, NEW h \in Hooks
    PROVE  /\ h.kind = "submitted" => Observed(l, h).queued <= l.queued + 1
           /\ h.kind # "submitted" => Observed(l, h).queued <= l.queued
<1>1. CASE h.kind = "submitted"
  BY <1>1 DEF Ledgers, Observed, Submitted, Lost
<1>2. CASE h.kind = "ended"
  BY <1>2 DEF Ledgers, Observed, Ended, Lost, Closed
<1>3. CASE h.kind = "failed"
  BY <1>3 DEF Ledgers, Observed, Failed, Closed
<1>4. CASE h.kind \notin {"submitted", "ended", "failed"}
  BY <1>4 DEF Observed, Ledgers
<1>5. QED
  BY <1>1, <1>2, <1>3, <1>4

(* What an observed hook leaves alone, and what it always leaves behind.   *)
LEMMA ObservedKeeps ==
    ASSUME NEW l \in Ledgers, NEW h \in Hooks
    PROVE  /\ Observed(l, h).writes = l.writes
           /\ Observed(l, h).halfTyped = l.halfTyped
           /\ h.kind # "submitted" => Observed(l, h).writesAtSubmit = l.writesAtSubmit
           /\ h.kind = "submitted" => \/ Observed(l, h).unaccounted
                                      \/ Observed(l, h).open # NoPrompt
                                      \/ Observed(l, h).queued # 0
           /\ h.kind = "ended" => Observed(l, h).afterStop = h.report
           /\ h.kind \notin {"submitted", "ended", "failed"} => Observed(l, h) = l
<1>1. CASE h.kind = "submitted"
  BY <1>1, LedgerAssumption DEF Ledgers, Hooks, Kinds, Prompts, Observed, Submitted, Lost
<1>2. CASE h.kind = "ended"
  BY <1>2, LedgerAssumption DEF Ledgers, Hooks, Kinds, Prompts, Observed, Ended, Lost, Closed
<1>3. CASE h.kind = "failed"
  BY <1>3, LedgerAssumption DEF Ledgers, Hooks, Kinds, Prompts, Observed, Failed, Closed
<1>4. CASE h.kind \notin {"submitted", "ended", "failed"}
  BY <1>4 DEF Observed
<1>5. QED
  BY <1>1, <1>2, <1>3, <1>4

-----------------------------------------------------------------------------
(* Claude's own state.                                                     *)

Claudes ==
    [hooked : BOOLEAN, manner : Manners,
     running : Prompts \union {NoPrompt},
     stage : {"running", "stopping", "failing", "continuing"},
     queue : 0..MaxPrompts, composer : BOOLEAN,
     asking : {"nothing", "question", "operator"},
     left : SUBSET Leavings, next : 1..(MaxPrompts + 1)]

(* Prompts are numbered in the order Claude takes them, and those queued   *)
(* will still find numbers.  Between turns nothing is queued and no        *)
(* question is up; a question opens over an empty composer, and is gone    *)
(* when the turn ends.                                                     *)
Orderly ==
    /\ claude.next + claude.queue <= MaxPrompts + 1
    /\ ~Idle => claude.running < claude.next
    /\ Idle => claude.queue = 0 /\ claude.stage = "running" /\ claude.asking # "question"
    /\ AtEnd => claude.asking # "question"
    /\ claude.asking = "question" => ~claude.composer
    /\ claude.left # {} => May("leaves")
    /\ claude.asking = "operator" => May("denies")

(* Hooks are observed in order and none is lost.                           *)
Heard == claude.hooked /\ ~May("loses")

LEMMA FiresWhat ==
    ASSUME NEW k \in Kinds, NEW p \in Prompts \union {NoPrompt}, NEW r \in Reports,
           Fires(k, p, r)
    PROVE  /\ Len(hooks) < MaxInFlight
           /\ \/ hooks' = hooks /\ ~Heard
              \/ /\ claude.hooked
                 /\ \E h \in Hooks :
                       /\ h.kind = k /\ h.report = r
                       /\ h.prompt = p \/ May("unnamed")
                       /\ hooks' = Append(hooks, h)
<1> DEFINE hook(q) == [kind |-> k, prompt |-> q, report |-> r]
<1>1. /\ hook(p) \in Hooks /\ hook(NoPrompt) \in Hooks
      /\ \A q : hook(q).kind = k /\ hook(q).prompt = q /\ hook(q).report = r
  BY DEF Hooks
<1>2. /\ Len(hooks) < MaxInFlight
      /\ \/ ~claude.hooked /\ hooks' = hooks
         \/ claude.hooked /\ hooks' = Append(hooks, hook(p))
         \/ claude.hooked /\ May("unnamed") /\ hooks' = Append(hooks, hook(NoPrompt))
         \/ May("loses") /\ hooks' = hooks
  BY DEF Fires
<1> HIDE DEF hook
<1>3. QED
  BY <1>1, <1>2 DEF Heard

(* The turn after: the next queued prompt's, or none.                      *)
LEMMA AfterTurnWhat ==
    ASSUME NEW c \in Claudes, c.next + c.queue <= MaxPrompts + 1
    PROVE  /\ AfterTurn(c) \in Claudes
           /\ AfterTurn(c).stage = "running"
           /\ AfterTurn(c).hooked = c.hooked /\ AfterTurn(c).manner = c.manner
           /\ AfterTurn(c).composer = c.composer /\ AfterTurn(c).left = c.left
           /\ c.queue = 0 => /\ AfterTurn(c).running = NoPrompt
                             /\ AfterTurn(c).queue = 0
                             /\ AfterTurn(c).next = c.next
                             /\ AfterTurn(c).asking = c.asking
           /\ c.queue # 0 => /\ AfterTurn(c).running = c.next
                             /\ AfterTurn(c).queue = c.queue - 1
                             /\ AfterTurn(c).next = c.next + 1
                             /\ AfterTurn(c).asking = "nothing"
<1>1. CASE c.queue = 0
  BY <1>1 DEF Claudes, AfterTurn
<1>2. CASE c.queue # 0
  <2>1. /\ c.next \in Prompts /\ c.queue - 1 \in 0..MaxPrompts
        /\ c.next + 1 \in 1..(MaxPrompts + 1)
    BY <1>2, LedgerAssumption DEF Claudes, Prompts
  <2>2. QED
    BY <1>2, <2>1 DEF Claudes, AfterTurn
<1>3. QED
  BY <1>1, <1>2

-----------------------------------------------------------------------------
(* The steps of Claude, field by field.                                    *)

(* A hook is under way, or was lost.                                       *)
HookOut(k, p, r) ==
    /\ Len(hooks) < MaxInFlight
    /\ \/ hooks' = hooks /\ ~Heard
       \/ /\ claude.hooked
          /\ \E h \in Hooks :
                /\ h.kind = k /\ h.report = r
                /\ h.prompt = p \/ May("unnamed")
                /\ hooks' = Append(hooks, h)

SameClaude == claude'.hooked = claude.hooked /\ claude'.manner = claude.manner

SameTurn ==
    /\ claude'.running = claude.running /\ claude'.stage = claude.stage
    /\ claude'.queue = claude.queue /\ claude'.next = claude.next

Aside == claude'.composer = claude.composer /\ claude'.left = claude.left

TurnOver(asking) ==
    /\ claude'.stage = "running" /\ Aside
    /\ claude.queue = 0 => /\ claude'.running = NoPrompt /\ claude'.queue = 0
                           /\ claude'.next = claude.next /\ claude'.asking = asking
    /\ claude.queue # 0 => /\ claude'.running = claude.next
                           /\ claude'.queue = claude.queue - 1
                           /\ claude'.next = claude.next + 1
                           /\ claude'.asking = "nothing"

TurnStarts ==
    /\ Idle /\ claude.next \in Prompts
    /\ claude'.running = claude.next /\ claude'.next = claude.next + 1
    /\ claude'.stage = claude.stage /\ claude'.queue = claude.queue
    /\ claude'.asking = "nothing"
    /\ HookOut("submitted", claude.next, Clear)

(* A chunk read, and what becomes of it.                                   *)
IgnoresIt ==
    /\ claude' = claude /\ hooks' = hooks
    /\ \/ Head(unread) = "focus"
       \/ claude.asking = "question"
       \/ Head(unread) = "enter" /\ ~claude.composer
       \/ Head(unread) = "esc" /\ Idle

IsInterrupted ==
    Head(unread) = "esc" /\ ~Idle /\ TurnOver("nothing") /\ hooks' = hooks

IsAnswered ==
    /\ Head(unread) = "enter" /\ claude.asking = "question"
    /\ SameTurn /\ Aside /\ claude'.asking = "nothing"
    /\ HookOut("resolved", claude.running, Clear)

IsPrompted ==
    /\ Head(unread) \in {"line", "enter"} /\ claude.asking # "question"
    /\ ~claude'.composer /\ claude'.left = claude.left
    /\ \/ TurnStarts
       \/ /\ ~Idle /\ claude.next + claude.queue \in Prompts
          /\ claude'.running = claude.running /\ claude'.stage = claude.stage
          /\ claude'.next = claude.next /\ claude'.queue = claude.queue + 1
          /\ claude'.asking = claude.asking
          /\ HookOut("submitted", claude.running, Clear)

IsTyped ==
    /\ Head(unread) = "text" /\ claude.asking # "question"
    /\ SameTurn /\ claude'.composer /\ claude'.left = claude.left
    /\ claude'.asking = claude.asking /\ hooks' = hooks

ReadsOne ==
    /\ unread # <<>> /\ unread' = Tail(unread)
    /\ IgnoresIt \/ IsInterrupted \/ IsAnswered \/ IsPrompted \/ IsTyped

Ready(stage) ==
    /\ ~Idle /\ claude'.running = claude.running
    /\ claude'.queue = claude.queue /\ claude'.next = claude.next
    /\ claude'.stage = stage /\ Aside /\ claude'.asking = claude.asking

(* The other steps of a turn.                                              *)
EndsIt ==
    /\ Ending
    /\ \/ /\ Ready("stopping")
          /\ \E r \in {Truth(claude.left), Unknown} : HookOut("ended", claude.running, r)
       \/ Ready("failing") /\ HookOut("failed", claude.running, Clear)

GoesOn == AtEnd /\ hooks = <<>> /\ Ready("continuing") /\ hooks' = hooks

IsOver == AtEnd /\ hooks = <<>> /\ TurnOver(claude.asking) /\ hooks' = hooks

LeavesOne ==
    /\ May("leaves") /\ ~Idle /\ ~AtEnd /\ SameTurn
    /\ claude'.composer = claude.composer /\ claude'.asking = claude.asking
    /\ hooks' = hooks

LeftOneEnds ==
    /\ claude.left # {} /\ claude'.left \subseteq claude.left
    /\ claude'.composer = claude.composer
    /\ \/ SameTurn /\ claude'.asking = claude.asking /\ hooks' = hooks
       \/ hooks = <<>> /\ TurnStarts

Speaks ==
    /\ ~Idle /\ ~AtEnd /\ SameTurn /\ Aside
    /\ \/ /\ claude.asking = "nothing" /\ ~claude.composer
          /\ claude'.asking = "question" /\ HookOut("question", claude.running, Clear)
       \/ /\ claude.asking = "nothing" /\ May("denies")
          /\ claude'.asking = "operator" /\ HookOut("denied", claude.running, Clear)
       \/ /\ claude.asking = "operator"
          /\ claude'.asking = "nothing" /\ HookOut("moved_on", claude.running, Clear)

ClaudeMoves ==
    /\ UNCHANGED host
    /\ claude' \in Claudes /\ SameClaude
    /\ \/ ReadsOne
       \/ /\ unread' = unread
          /\ EndsIt \/ GoesOn \/ IsOver \/ LeavesOne \/ LeftOneEnds \/ Speaks

LEMMA FiresOut ==
    ASSUME NEW k \in Kinds, NEW p \in Prompts \union {NoPrompt}, NEW r \in Reports,
           Fires(k, p, r)
    PROVE  HookOut(k, p, r)
BY FiresWhat DEF HookOut

LEMMA ClaudeMoving ==
    ASSUME TypeOK, Orderly, ClaudeStep
    PROVE  ClaudeMoves
<1>0. /\ claude \in Claudes /\ unread \in Seq(AllChunks)
      /\ claude.running \in Prompts \union {NoPrompt}
      /\ Clear \in Reports /\ Unknown \in Reports /\ Truth(claude.left) \in Reports
      /\ claude.next + claude.queue <= MaxPrompts + 1
      /\ Prompts = 1..MaxPrompts /\ Prompts \subseteq Nat /\ MaxPrompts \in Nat
      /\ NoPrompt \notin Nat
  BY LedgerAssumption
  DEF TypeOK, Claudes, Clear, Unknown, Truth, Reports, Amounts, Orderly, Prompts
<1>1. CASE Reads
  <2>1. /\ unread # <<>> /\ unread' = Tail(unread) /\ UNCHANGED host
        /\ Head(unread) \in AllChunks
    BY <1>1, <1>0 DEF Reads
  <2>2. CASE Head(unread) = "esc" /\ Interrupted
    <3>1. CASE Idle
      BY <3>1, <2>1, <2>2, <1>0
      DEF Interrupted, ClaudeMoves, ReadsOne, IgnoresIt, SameClaude
    <3>2. CASE ~Idle
      <4> DEFINE c == [claude EXCEPT !.asking = "nothing"]
      <4>1. /\ c \in Claudes /\ c.queue = claude.queue /\ c.next = claude.next
            /\ c.hooked = claude.hooked /\ c.manner = claude.manner
            /\ c.composer = claude.composer /\ c.left = claude.left /\ c.asking = "nothing"
        BY <1>0 DEF Claudes
      <4>2. claude' = AfterTurn(c) /\ hooks' = hooks
        BY <2>2, <3>2 DEF Interrupted
      <4> HIDE DEF c
      <4>3. claude' \in Claudes /\ SameClaude /\ TurnOver("nothing")
        BY <4>1, <4>2, <1>0, AfterTurnWhat DEF SameClaude, TurnOver, Aside
      <4>4. QED
        BY <4>2, <4>3, <2>1, <2>2, <3>2 DEF ClaudeMoves, ReadsOne, IsInterrupted
    <3>3. QED
      BY <3>1, <3>2
  <2>3. CASE Head(unread) = "enter" /\ claude.asking = "question" /\ TakesAnswer
    <3>1. HookOut("resolved", claude.running, Clear)
      BY <2>3, <1>0, FiresOut DEF TakesAnswer, Kinds
    <3>2. /\ claude' \in Claudes /\ SameClaude
          /\ SameTurn /\ Aside /\ claude'.asking = "nothing"
      BY <2>3, <1>0 DEF TakesAnswer, Claudes, SameClaude, SameTurn, Aside
    <3>3. QED
      BY <2>1, <2>3, <3>1, <3>2 DEF ClaudeMoves, ReadsOne, IsAnswered
  <2>4. CASE /\ claude.asking # "question"
             /\ Head(unread) \in {"line", "enter"}
             /\ TakesPrompt
    <3>1. CASE Idle
      <4>1. HookOut("submitted", claude.next, Clear)
        BY <2>4, <3>1, <1>0, FiresOut DEF TakesPrompt, Kinds
      <4>2. claude.next \in Prompts /\ claude.next + 1 \in 1..(MaxPrompts + 1)
        BY <2>4, <3>1, <1>0 DEF TakesPrompt
      <4> DEFINE c == [claude EXCEPT !.running = claude.next, !.next = claude.next + 1,
                                     !.composer = FALSE, !.asking = "nothing"]
      <4>3. c \in Claudes
        BY <4>2, <1>0 DEF Claudes
      <4>4. /\ c.hooked = claude.hooked /\ c.manner = claude.manner
            /\ c.running = claude.next /\ c.next = claude.next + 1
            /\ c.stage = claude.stage /\ c.queue = claude.queue
            /\ c.asking = "nothing" /\ ~c.composer /\ c.left = claude.left
        BY <1>0 DEF Claudes
      <4>5. claude' = c
        BY <2>4, <3>1 DEF TakesPrompt
      <4> HIDE DEF c
      <4>6. ClaudeMoves
        BY <2>1, <2>4, <3>1, <4>1, <4>2, <4>3, <4>4, <4>5
        DEF ClaudeMoves, ReadsOne, IsPrompted, TurnStarts, SameClaude
      <4>7. QED
        BY <4>6
    <3>2. CASE ~Idle
      <4>1. HookOut("submitted", claude.running, Clear)
        BY <2>4, <3>2, <1>0, FiresOut DEF TakesPrompt, Kinds
      <4>2. /\ claude.next + claude.queue \in Prompts
            /\ claude.queue + 1 \in 0..MaxPrompts
        BY <2>4, <3>2, <1>0 DEF TakesPrompt, Claudes
      <4> DEFINE c == [claude EXCEPT !.queue = claude.queue + 1, !.composer = FALSE]
      <4>3. c \in Claudes
        BY <4>2, <1>0 DEF Claudes
      <4>4. /\ c.hooked = claude.hooked /\ c.manner = claude.manner
            /\ c.running = claude.running /\ c.stage = claude.stage
            /\ c.next = claude.next /\ c.queue = claude.queue + 1
            /\ c.asking = claude.asking /\ ~c.composer /\ c.left = claude.left
        BY <1>0 DEF Claudes
      <4>5. claude' = c
        BY <2>4, <3>2 DEF TakesPrompt
      <4> HIDE DEF c
      <4>6. QED
        BY <2>1, <2>4, <3>2, <4>1, <4>2, <4>3, <4>4, <4>5
        DEF ClaudeMoves, ReadsOne, IsPrompted, SameClaude
    <3>3. QED
      BY <3>1, <3>2
  <2>5. CASE /\ claude.asking # "question" /\ Head(unread) = "text"
             /\ claude' = [claude EXCEPT !.composer = TRUE] /\ UNCHANGED hooks
    <3>1. /\ claude' \in Claudes /\ SameClaude /\ SameTurn /\ claude'.composer
          /\ claude'.left = claude.left /\ claude'.asking = claude.asking
      BY <2>5, <1>0 DEF Claudes, SameClaude, SameTurn
    <3>2. QED
      BY <2>1, <2>5, <3>1 DEF ClaudeMoves, ReadsOne, IsTyped
  <2>6. CASE /\ UNCHANGED <<claude, hooks>>
             /\ \/ Head(unread) = "focus"
                \/ claude.asking = "question"
                \/ Head(unread) = "enter" /\ ~claude.composer
    BY <2>1, <2>6, <1>0 DEF ClaudeMoves, ReadsOne, IgnoresIt, SameClaude
  <2>7. QED
    BY <1>1, <2>1, <2>2, <2>3, <2>4, <2>5, <2>6 DEF Reads
<1>2. CASE Stops
  <2>1. \E r \in {Truth(claude.left), Unknown} : HookOut("ended", claude.running, r)
    BY <1>2, <1>0, FiresOut DEF Stops, Kinds
  <2>2. claude' \in Claudes /\ SameClaude /\ Ready("stopping") /\ Ending
    BY <1>2, <1>0 DEF Stops, Ending, Claudes, SameClaude, Ready, Aside
  <2>3. QED
    BY <1>2, <2>1, <2>2 DEF Stops, ClaudeMoves, EndsIt
<1>3. CASE Fails
  <2>1. HookOut("failed", claude.running, Clear)
    BY <1>3, <1>0, FiresOut DEF Fails, Kinds
  <2>2. claude' \in Claudes /\ SameClaude /\ Ready("failing") /\ Ending
    BY <1>3, <1>0 DEF Fails, Ending, Claudes, SameClaude, Ready, Aside
  <2>3. QED
    BY <1>3, <2>1, <2>2 DEF Fails, ClaudeMoves, EndsIt
<1>4. CASE Continues
  <2>1. claude' \in Claudes /\ SameClaude /\ Ready("continuing") /\ AtEnd
    BY <1>4, <1>0 DEF Continues, AtEnd, Orderly, Claudes, SameClaude, Ready, Aside
  <2>2. QED
    BY <1>4, <2>1 DEF Continues, ClaudeMoves, GoesOn
<1>5. CASE Finishes
  <2>1. claude' \in Claudes /\ SameClaude /\ TurnOver(claude.asking)
    BY <1>5, <1>0, AfterTurnWhat DEF Finishes, SameClaude, TurnOver, Aside
  <2>2. QED
    BY <1>5, <2>1 DEF Finishes, ClaudeMoves, IsOver
<1>6. CASE Leaves
  <2>1. PICK kind \in Leavings \ claude.left :
             claude' = [claude EXCEPT !.left = @ \union {kind}]
    BY <1>6 DEF Leaves
  <2>2. /\ claude' \in Claudes /\ SameClaude /\ SameTurn
        /\ claude'.composer = claude.composer /\ claude'.asking = claude.asking
    BY <2>1, <1>0 DEF Claudes, SameClaude, SameTurn
  <2>3. QED
    BY <1>6, <2>2 DEF Leaves, ClaudeMoves, LeavesOne
<1>7. CASE LeftEnds
  <2>1. PICK kind \in claude.left :
          \/ /\ claude' = [claude EXCEPT !.left = @ \ {kind}]
             /\ UNCHANGED hooks
          \/ /\ Idle /\ hooks = <<>> /\ claude.next \in Prompts
             /\ claude' = [claude EXCEPT !.left = @ \ {kind}, !.asking = "nothing",
                              !.running = claude.next, !.next = @ + 1]
             /\ Fires("submitted", claude.next, Clear)
    BY <1>7 DEF LeftEnds
  <2>2. CASE claude' = [claude EXCEPT !.left = @ \ {kind}] /\ UNCHANGED hooks
    <3>1. /\ claude' \in Claudes /\ SameClaude /\ SameTurn /\ claude'.left \subseteq claude.left
          /\ claude'.composer = claude.composer /\ claude'.asking = claude.asking
      BY <2>2, <1>0 DEF Claudes, SameClaude, SameTurn
    <3>2. QED
      BY <1>7, <2>1, <2>2, <3>1 DEF LeftEnds, ClaudeMoves, LeftOneEnds
  <2>3. CASE /\ Idle /\ hooks = <<>> /\ claude.next \in Prompts
             /\ claude' = [claude EXCEPT !.left = @ \ {kind}, !.asking = "nothing",
                              !.running = claude.next, !.next = @ + 1]
             /\ Fires("submitted", claude.next, Clear)
    <3>1. /\ claude' \in Claudes /\ SameClaude /\ claude'.left \subseteq claude.left
          /\ claude'.composer = claude.composer /\ claude'.asking = "nothing"
          /\ claude'.running = claude.next /\ claude'.next = claude.next + 1
          /\ claude'.stage = claude.stage /\ claude'.queue = claude.queue
      <4>1. claude.next + 1 \in 1..(MaxPrompts + 1) /\ claude.left \ {kind} \in SUBSET Leavings
        BY <2>3, <1>0 DEF Claudes
      <4>2. QED
        BY <2>3, <4>1, <1>0 DEF Claudes, SameClaude
    <3>2. HookOut("submitted", claude.next, Clear)
      BY <2>3, <1>0, FiresOut DEF Kinds
    <3>3. QED
      BY <1>7, <2>1, <2>3, <3>1, <3>2 DEF LeftEnds, ClaudeMoves, LeftOneEnds, TurnStarts
  <2>4. QED
    BY <2>1, <2>2, <2>3
<1>8. CASE Asks
  <2>1. HookOut("question", claude.running, Clear)
    BY <1>8, <1>0, FiresOut DEF Asks, Kinds
  <2>2. claude' \in Claudes /\ SameClaude /\ SameTurn /\ Aside /\ claude'.asking = "question"
    BY <1>8, <1>0 DEF Asks, Claudes, SameClaude, SameTurn, Aside
  <2>3. QED
    BY <1>8, <2>1, <2>2 DEF Asks, ClaudeMoves, Speaks
<1>9. CASE Denied
  <2>1. CASE /\ claude.asking = "nothing"
             /\ claude' = [claude EXCEPT !.asking = "operator"]
             /\ Fires("denied", claude.running, Clear)
    <3>1. HookOut("denied", claude.running, Clear)
      BY <2>1, <1>0, FiresOut DEF Kinds
    <3>2. claude' \in Claudes /\ SameClaude /\ SameTurn /\ Aside /\ claude'.asking = "operator"
      BY <2>1, <1>0 DEF Claudes, SameClaude, SameTurn, Aside
    <3>3. QED
      BY <1>9, <2>1, <3>1, <3>2 DEF Denied, ClaudeMoves, Speaks
  <2>2. CASE /\ claude.asking = "operator"
             /\ claude' = [claude EXCEPT !.asking = "nothing"]
             /\ Fires("moved_on", claude.running, Clear)
    <3>1. HookOut("moved_on", claude.running, Clear)
      BY <2>2, <1>0, FiresOut DEF Kinds
    <3>2. claude' \in Claudes /\ SameClaude /\ SameTurn /\ Aside /\ claude'.asking = "nothing"
      BY <2>2, <1>0 DEF Claudes, SameClaude, SameTurn, Aside
    <3>3. QED
      BY <1>9, <2>2, <3>1, <3>2 DEF Denied, ClaudeMoves, Speaks
  <2>3. QED
    BY <1>9, <2>1, <2>2 DEF Denied
<1>10. QED
  BY <1>1, <1>2, <1>3, <1>4, <1>5, <1>6, <1>7, <1>8, <1>9 DEF ClaudeStep

LEMMA OrderlyKept ==
    ASSUME TypeOK, Orderly, Next
    PROVE  Orderly'
<1>1. CASE HostStep
  <2>1. claude' = claude
    BY <1>1 DEF HostStep, ObserveStart, ObserveTurn, WriteInput, Draw,
                CheckTurn, CheckLedger, CheckScreen, LetGo
  <2>2. QED
    BY <2>1 DEF Orderly, Idle, AtEnd, May
<1>2. CASE ClaudeStep
  <2>0. /\ ClaudeMoves /\ claude \in Claudes /\ NoPrompt \notin Nat
        /\ Prompts = 1..MaxPrompts /\ MaxPrompts \in Nat
    BY <1>2, ClaudeMoving, LedgerAssumption DEF TypeOK, Claudes, Prompts
  <2>1. claude'.manner = claude.manner /\ claude' \in Claudes
    BY <2>0 DEF ClaudeMoves, SameClaude
  <2>2. CASE claude' = claude
    BY <2>2 DEF Orderly, Idle, AtEnd, May
  <2>3. ASSUME NEW asking \in {"nothing", "operator"}, TurnOver(asking),
               asking = "operator" => asking = claude.asking
        PROVE  Orderly'
    <3>1. CASE claude.queue = 0
      BY <3>1, <2>3, <2>0, <2>1 DEF Orderly, Idle, AtEnd, May, TurnOver, Aside, Claudes
    <3>2. CASE claude.queue # 0
      BY <3>2, <2>3, <2>0, <2>1 DEF Orderly, Idle, AtEnd, May, TurnOver, Aside, Claudes
    <3>3. QED
      BY <3>1, <3>2
  <2>4. ASSUME TurnStarts, claude'.left \subseteq claude.left
        PROVE  Orderly'
    BY <2>4, <2>0, <2>1 DEF Orderly, Idle, AtEnd, May, TurnStarts, Claudes
  <2>5. CASE ReadsOne
    <3>1. CASE IsInterrupted
      BY <3>1, <2>3 DEF IsInterrupted
    <3>2. CASE IsAnswered
      BY <3>2, <2>0, <2>1 DEF IsAnswered, Orderly, Idle, AtEnd, May, SameTurn, Aside, Claudes
    <3>3. CASE IsPrompted
      BY <3>3, <2>0, <2>1, <2>4 DEF IsPrompted, Orderly, Idle, AtEnd, May, Claudes
    <3>4. CASE IsTyped
      BY <3>4, <2>0, <2>1 DEF IsTyped, Orderly, Idle, AtEnd, May, SameTurn, Claudes
    <3>5. QED
      BY <2>2, <2>5, <3>1, <3>2, <3>3, <3>4 DEF ReadsOne, IgnoresIt
  <2>6. CASE EndsIt
    BY <2>6, <2>0, <2>1 DEF EndsIt, Ending, Ready, Orderly, Idle, AtEnd, May, Aside, Claudes
  <2>7. CASE GoesOn
    BY <2>7, <2>0, <2>1 DEF GoesOn, Ready, Orderly, Idle, AtEnd, May, Aside, Claudes
  <2>8. CASE IsOver
    BY <2>8, <2>0, <2>3 DEF IsOver, Orderly, Claudes
  <2>9. CASE LeavesOne
    BY <2>9, <2>0, <2>1 DEF LeavesOne, Orderly, Idle, AtEnd, May, SameTurn, Claudes
  <2>10. CASE LeftOneEnds
    BY <2>10, <2>0, <2>1, <2>4 DEF LeftOneEnds, Orderly, Idle, AtEnd, May, SameTurn, Claudes
  <2>11. CASE Speaks
    BY <2>11, <2>0, <2>1 DEF Speaks, Orderly, Idle, AtEnd, May, SameTurn, Aside, Claudes
  <2>12. QED
    BY <2>0, <2>5, <2>6, <2>7, <2>8, <2>9, <2>10, <2>11 DEF ClaudeMoves
<1>3. QED
  BY <1>1, <1>2 DEF Next

-----------------------------------------------------------------------------
(* The hooks under way.  Reads a sequence's ends once for all proofs.      *)

LEMMA Appended ==
    ASSUME NEW S, NEW q \in Seq(S), NEW x \in S
    PROVE  /\ Append(q, x) \in Seq(S)
           /\ Append(q, x) # <<>>
           /\ Len(Append(q, x)) = Len(q) + 1
           /\ \A i \in 1..Len(q) : Append(q, x)[i] = q[i]
           /\ Append(q, x)[Len(q) + 1] = x
           /\ DOMAIN Append(q, x) = 1..(Len(q) + 1)
           /\ q = <<>> => Append(q, x)[1] = x
           /\ q # <<>> => Append(q, x)[1] = q[1]
OBVIOUS

LEMMA Shortened ==
    ASSUME NEW S, NEW q \in Seq(S), q # <<>>
    PROVE  /\ Tail(q) \in Seq(S)
           /\ Head(q) = q[1] /\ Head(q) \in S
           /\ Len(q) \in Nat \ {0}
           /\ Len(Tail(q)) = Len(q) - 1
           /\ \A i \in 1..(Len(q) - 1) : Tail(q)[i] = q[i + 1]
           /\ DOMAIN Tail(q) = 1..(Len(q) - 1)
OBVIOUS

-----------------------------------------------------------------------------
(* The books.  A run of ledgers, one per hook under way: what the ledger   *)
(* will hold once the hooks before each have been observed.                *)

LedgerRun(s) ==
    /\ s \in [1..(Len(hooks) + 1) -> Ledgers]
    /\ SameBooks(s[1], ledger)
    /\ \A i \in 1..Len(hooks) : s[i + 1] = Observed(s[i], hooks[i])

(* No ledger of the run counts more queued prompts than have been taken.   *)
Bounded(s) ==
    \A i \in 1..(Len(hooks) + 1) : s[i].queued + 1 <= claude.next + claude.queue

Past(p) == p = NoPrompt \/ p < claude.next

(* Every queued prompt is counted, and so is the running turn unless the   *)
(* ledger has it open or knows it closed.                                  *)
Covers(l) ==
    \/ l.unaccounted
    \/ /\ l.queued >= claude.queue
       /\ ~Idle /\ claude.running \notin {l.open, l.lastClosed} =>
             l.queued >= claude.queue + 1

Accounts(l) ==
    /\ Past(l.open) /\ Past(l.lastClosed)
    /\ Covers(l)
    /\ ~Idle /\ claude.stage = "running" => l.lastClosed # claude.running

(* Once a turn's Stop or failure is out, no input is left and each ledger  *)
(* of the run counts what is queued.                                       *)
AccountsAtEnd(s) ==
    claude.stage # "running" =>
        /\ unread = <<>>
        /\ \A i \in 1..(Len(hooks) + 1) : s[i].unaccounted \/ s[i].queued >= claude.queue

(* A run that says what the books will be, and that nothing was forgotten. *)
RunOfBooks(s) ==
    /\ LedgerRun(s) /\ Bounded(s)
    /\ Reliable => Accounts(s[Len(hooks) + 1]) /\ AccountsAtEnd(s)

BooksKept == \E s : RunOfBooks(s)

LEMMA ReliableHeard ==
    ASSUME Reliable
    PROVE  Heard /\ ~May("unnamed") /\ ~May("loses") /\ ~May("typed_late")
BY DEF Reliable, Heard, May

LEMMA RunExtended ==
    ASSUME NEW s, LedgerRun(s), NEW h \in Hooks, hooks \in Seq(Hooks),
           hooks' = Append(hooks, h), ledger' = ledger
    PROVE  \E t : /\ LedgerRun(t)'
                  /\ \A i \in 1..(Len(hooks) + 1) : t[i] = s[i]
                  /\ t[Len(hooks) + 2] = Observed(s[Len(hooks) + 1], h)
<1> DEFINE n == Len(hooks)
<1>a. PICK t : t = [i \in 1..(n + 2) |-> IF i = n + 2 THEN Observed(s[n + 1], h) ELSE s[i]]
  OBVIOUS
<1>1. n \in Nat /\ Len(hooks') = n + 1 /\ hooks'[n + 1] = h
      /\ \A i \in 1..n : hooks'[i] = hooks[i]
  BY Appended
<1>2. s \in [1..(n + 1) -> Ledgers] /\ s[n + 1] \in Ledgers
  BY <1>1 DEF LedgerRun
<1>3. Observed(s[n + 1], h) \in Ledgers
  BY <1>2, ObservedType
<1>4. t \in [1..(n + 2) -> Ledgers]
  BY <1>a, <1>1, <1>2, <1>3
<1>5. \A i \in 1..(n + 1) : t[i] = s[i]
  BY <1>a, <1>1
<1>6. t[n + 2] = Observed(s[n + 1], h)
  BY <1>a, <1>1
<1>7. SameBooks(t[1], ledger')
  BY <1>1, <1>5 DEF LedgerRun
<1>8. \A i \in 1..(n + 1) : t[i + 1] = Observed(t[i], hooks'[i])
  <2>1. TAKE i \in 1..(n + 1)
  <2>2. CASE i = n + 1
    BY <2>2, <1>1, <1>5, <1>6
  <2>3. CASE i \in 1..n
    <3>1. t[i] = s[i] /\ t[i + 1] = s[i + 1] /\ hooks'[i] = hooks[i]
      BY <2>3, <1>1, <1>5
    <3>2. QED
      BY <2>3, <3>1 DEF LedgerRun
  <2>4. QED
    BY <1>1, <2>2, <2>3
<1>9. LedgerRun(t)'
  <2>1. t \in [1..(Len(hooks') + 1) -> Ledgers]
    BY <1>1, <1>4
  <2>2. \A i \in 1..Len(hooks') : t[i + 1] = Observed(t[i], hooks'[i])
    BY <1>1, <1>8
  <2>3. QED
    BY <2>1, <2>2, <1>7 DEF LedgerRun
<1>10. QED
  BY <1>5, <1>6, <1>9

LEMMA RunShortened ==
    ASSUME NEW s, LedgerRun(s), hooks \in Seq(Hooks), hooks # <<>>, ledger \in Ledgers,
           hooks' = Tail(hooks), ledger' = Observed(ledger, Head(hooks))
    PROVE  \E t : LedgerRun(t)' /\ \A i \in 1..Len(hooks) : t[i] = s[i + 1]
<1> DEFINE n == Len(hooks)
<1>a. PICK t : t = [i \in 1..n |-> s[i + 1]]
  OBVIOUS
<1>1. /\ n \in Nat \ {0} /\ Len(hooks') = n - 1
      /\ Head(hooks) = hooks[1] /\ hooks[1] \in Hooks
      /\ \A i \in 1..(n - 1) : hooks'[i] = hooks[i + 1]
  BY Shortened
<1>2. t \in [1..(Len(hooks') + 1) -> Ledgers]
  BY <1>a, <1>1 DEF LedgerRun
<1>3. SameBooks(t[1], ledger')
  <2>1. s[2] = Observed(s[1], hooks[1]) /\ SameBooks(s[1], ledger) /\ s[1] \in Ledgers
    BY <1>1 DEF LedgerRun
  <2>2. SameBooks(Observed(s[1], hooks[1]), Observed(ledger, hooks[1]))
    BY <2>1, <1>1, ObservedBooks
  <2>3. QED
    BY <1>a, <2>1, <2>2, <1>1
<1>4. \A i \in 1..Len(hooks') : t[i + 1] = Observed(t[i], hooks'[i])
  <2>1. TAKE i \in 1..Len(hooks')
  <2>2. i \in 1..(n - 1) /\ i + 1 \in 1..n /\ t[i] = s[i + 1] /\ t[i + 1] = s[i + 1 + 1]
    BY <1>a, <1>1
  <2>3. QED
    BY <2>2, <1>1 DEF LedgerRun
<1>5. \A i \in 1..n : t[i] = s[i + 1]
  BY <1>a
<1>6. QED
  BY <1>2, <1>3, <1>4, <1>5 DEF LedgerRun

(* A step of Claude's that fires no hook.                                  *)
LEMMA AccountsQuietly ==
    ASSUME TypeOK, Orderly, Reliable, ClaudeMoves, hooks' = hooks,
           NEW l \in Ledgers, Accounts(l), claude.stage = "running" \/ unread = <<>>
    PROVE  Accounts(l)'
<1>0. /\ claude \in Claudes /\ claude' \in Claudes /\ NoPrompt \notin Nat
      /\ Prompts = 1..MaxPrompts /\ MaxPrompts \in Nat
      /\ \A k, p, r : ~HookOut(k, p, r)
  <2>1. ASSUME NEW k, NEW p, NEW r, HookOut(k, p, r) PROVE FALSE
    <3>1. hooks \in Seq(Hooks) /\ Heard
      BY ReliableHeard DEF TypeOK
    <3>2. PICK h \in Hooks : hooks' = Append(hooks, h)
      BY <2>1, <3>1 DEF HookOut
    <3>3. Len(hooks') = Len(hooks) + 1
      BY <3>1, <3>2, Appended
    <3>4. Len(hooks) \in Nat
      BY <3>1
    <3>5. QED
      BY <3>3, <3>4
  <2>2. QED
    BY <2>1, LedgerAssumption DEF ClaudeMoves, TypeOK, Claudes, Prompts
<1>1. CASE SameTurn
  BY <1>1 DEF SameTurn, Accounts, Covers, Past, Idle
<1>2. ASSUME NEW a, TurnOver(a), ~Idle
      PROVE  Accounts(l)'
  <2>1. CASE claude.queue = 0
    BY <2>1, <1>2, <1>0 DEF TurnOver, Accounts, Covers, Past, Idle, Ledgers, Claudes
  <2>2. CASE claude.queue # 0
    BY <2>2, <1>2, <1>0 DEF TurnOver, Accounts, Covers, Past, Idle, Ledgers, Claudes
  <2>3. QED
    BY <2>1, <2>2
<1>3. ASSUME NEW stage, Ready(stage), stage # "running"
      PROVE  Accounts(l)'
  BY <1>3, <1>0 DEF Ready, Accounts, Covers, Past, Idle
<1>4. CASE claude' = claude
  BY <1>4 DEF Accounts, Covers, Past, Idle
<1>5. CASE ReadsOne
  BY <1>5, <1>0, <1>1, <1>2, <1>4
  DEF ReadsOne, IgnoresIt, IsInterrupted, IsAnswered, IsPrompted, IsTyped, TurnStarts
<1>6. CASE EndsIt \/ GoesOn
  BY <1>6, <1>0, <1>3 DEF EndsIt, GoesOn
<1>7. CASE IsOver
  BY <1>7, <1>2 DEF IsOver, Orderly, AtEnd
<1>8. CASE LeavesOne \/ LeftOneEnds \/ Speaks
  BY <1>8, <1>0, <1>1 DEF LeavesOne, LeftOneEnds, Speaks, TurnStarts
<1>9. QED
  BY <1>5, <1>6, <1>7, <1>8 DEF ClaudeMoves

(* The report of a prompt, of a Stop, of a failure, as the books see it.   *)
LEMMA SubmitBooks ==
    ASSUME NEW l \in Ledgers, NEW h \in Hooks, h.kind = "submitted", h.prompt # NoPrompt
    PROVE  LET o == Observed(l, h)
           IN  /\ o.lastClosed = l.lastClosed
               /\ \/ /\ l.open = h.prompt /\ o.open = l.open
                     /\ o.queued = l.queued + 1 /\ o.unaccounted = l.unaccounted
                  \/ /\ l.open # h.prompt /\ o.open = h.prompt
                     /\ l.queued = 0 /\ o.queued = 0 /\ o.unaccounted = l.unaccounted
                  \/ /\ l.open # h.prompt /\ o.open = l.open
                     /\ l.queued # 0 /\ o.unaccounted
BY LedgerAssumption DEF Ledgers, Observed, Submitted, Lost

LEMMA StopBooks ==
    ASSUME NEW l \in Ledgers, NEW h \in Hooks, h.kind \in {"ended", "failed"},
           h.prompt # NoPrompt
    PROVE  LET o == Observed(l, h)
           IN  \/ /\ l.open = h.prompt /\ o.open = NoPrompt /\ o.lastClosed = h.prompt
                  /\ o.queued = l.queued /\ o.unaccounted = l.unaccounted
               \/ /\ SameBooks(o, l)
                  /\ h.kind = "failed" \/ l.lastClosed = h.prompt
               \/ /\ o.open = l.open /\ o.lastClosed = h.prompt
                  /\ h.prompt \notin {l.open, l.lastClosed}
                  /\ l.queued # 0 /\ o.queued = l.queued - 1
                  /\ o.unaccounted = l.unaccounted
               \/ o.open = l.open /\ o.lastClosed = l.lastClosed /\ o.unaccounted
<1>1. CASE h.kind = "ended"
  <2>1. CASE l.open = h.prompt
    BY <1>1, <2>1 DEF Ledgers, Observed, Ended, Closed
  <2>2. CASE l.open # h.prompt /\ l.lastClosed = h.prompt
    BY <1>1, <2>2 DEF Ledgers, Observed, Ended, SameBooks
  <2>3. CASE h.prompt \notin {l.open, l.lastClosed} /\ l.queued > 0
    BY <1>1, <2>3 DEF Ledgers, Observed, Ended
  <2>4. CASE h.prompt \notin {l.open, l.lastClosed} /\ ~(l.queued > 0)
    BY <1>1, <2>4 DEF Ledgers, Observed, Ended, Lost
  <2>5. QED
    BY <2>1, <2>2, <2>3, <2>4
<1>2. CASE h.kind = "failed"
  BY <1>2 DEF Ledgers, Observed, Failed, Closed, SameBooks
<1>3. QED
  BY <1>1, <1>2

(* A step of Claude's that fires a hook.                                   *)
LEMMA AccountsAloud ==
    ASSUME TypeOK, Orderly, Reliable, ClaudeMoves, NEW h \in Hooks, hooks' = Append(hooks, h),
           NEW l \in Ledgers, Accounts(l), claude.stage = "running" \/ unread = <<>>
    PROVE  Accounts(Observed(l, h))'
<1>0. /\ claude \in Claudes /\ claude' \in Claudes /\ NoPrompt \notin Nat
      /\ Prompts = 1..MaxPrompts /\ MaxPrompts \in Nat
      /\ Observed(l, h) \in Ledgers
  BY LedgerAssumption, ObservedType DEF ClaudeMoves, TypeOK, Claudes, Prompts
<1>1. hooks' # hooks
  <2>1. hooks \in Seq(Hooks)
    BY DEF TypeOK
  <2>2. Len(hooks') = Len(hooks) + 1 /\ Len(hooks) \in Nat
    BY <2>1, Appended
  <2>3. QED
    BY <2>2
<1>2. ASSUME NEW k, NEW p, NEW r, HookOut(k, p, r)
      PROVE  h.kind = k /\ h.prompt = p
  <2>1. PICK g \in Hooks : g.kind = k /\ g.prompt = p /\ hooks' = Append(hooks, g)
    BY <1>1, <1>2, ReliableHeard DEF HookOut
  <2>2. hooks \in Seq(Hooks)
    BY DEF TypeOK
  <2>3. g = h
    <3>1. /\ Append(hooks, g)[Len(hooks) + 1] = g
          /\ Append(hooks, h)[Len(hooks) + 1] = h
      BY <2>2, Appended
    <3>2. QED
      BY <2>1, <3>1
  <2>4. QED
    BY <2>1, <2>3
<1>3. CASE TurnStarts
  <2>1. h.kind = "submitted" /\ h.prompt = claude.next
    BY <1>2, <1>3 DEF TurnStarts
  <2>2. PICK o : o = Observed(l, h)
    OBVIOUS
  <2>3. /\ o.lastClosed = l.lastClosed
        /\ o.open \in {l.open, claude.next}
        /\ o.unaccounted \/ o.open = claude.next
        /\ o.queued \in Nat
    <3>1. claude.next \in Nat /\ claude.next # NoPrompt
      BY <1>0, <1>3 DEF TurnStarts, Claudes
    <3>2. /\ o.lastClosed = l.lastClosed
          /\ \/ o.open = claude.next
             \/ o.open = l.open /\ o.unaccounted
      BY <2>1, <2>2, <3>1, SubmitBooks
    <3>3. o.queued \in Nat
      BY <1>0, <2>2 DEF Ledgers
    <3>4. QED
      BY <3>2, <3>3
  <2>4. /\ claude.queue = 0 /\ claude'.queue = 0
        /\ claude'.running = claude.next /\ claude'.next = claude.next + 1
        /\ claude.next \in Nat
    BY <1>0, <1>3 DEF TurnStarts, Orderly, Claudes
  <2>5. Past(l.open) /\ Past(l.lastClosed) /\ l \in Ledgers
    BY DEF Accounts
  <2>6. Past(o.open)' /\ Past(o.lastClosed)'
    BY <1>0, <2>3, <2>4, <2>5 DEF Past, Ledgers
  <2>7. Covers(o)'
    BY <2>3, <2>4 DEF Covers
  <2>8. l.lastClosed # claude.next
    BY <1>0, <2>4, <2>5 DEF Past
  <2>9. Accounts(o)'
    BY <2>3, <2>4, <2>6, <2>7, <2>8 DEF Accounts
  <2>10. QED
    BY <2>2, <2>9
<1>4. CASE SameTurn /\ h.kind \notin {"submitted", "ended", "failed"}
  <2>1. Observed(l, h) = l
    BY <1>4, ObservedKeeps
  <2>2. QED
    BY <1>4, <2>1 DEF SameTurn, Accounts, Covers, Past, Idle
<1>5. CASE ReadsOne
  <2>1. CASE IsAnswered
    BY <1>2, <1>4, <2>1 DEF IsAnswered
  <2>2. CASE IsPrompted /\ ~TurnStarts
    <3>1. /\ h.kind = "submitted" /\ h.prompt = claude.running /\ ~Idle
          /\ claude.stage = "running"
          /\ claude'.running = claude.running /\ claude'.stage = claude.stage
          /\ claude'.next = claude.next /\ claude'.queue = claude.queue + 1
      BY <1>2, <1>5, <2>2 DEF IsPrompted, ReadsOne
    <3>2. PICK o : o = Observed(l, h)
      OBVIOUS
    <3>3. /\ o.lastClosed = l.lastClosed /\ o.queued \in Nat /\ l.queued \in Nat
          /\ \/ /\ l.open = claude.running /\ o.open = l.open
                /\ o.queued = l.queued + 1 /\ o.unaccounted = l.unaccounted
             \/ /\ l.open # claude.running /\ o.open = claude.running
                /\ l.queued = 0 /\ o.queued = 0 /\ o.unaccounted = l.unaccounted
             \/ /\ l.open # claude.running /\ o.open = l.open
                /\ l.queued # 0 /\ o.unaccounted
      BY <1>0, <3>1, <3>2, SubmitBooks DEF Ledgers, Idle
    <3>4. claude.running < claude.next /\ claude.queue \in Nat /\ l.lastClosed # claude.running
      BY <1>0, <3>1 DEF Orderly, Accounts, Claudes
    <3>5. Covers(l) /\ Past(l.open) /\ Past(l.lastClosed)
      BY DEF Accounts
    <3>6. Accounts(o)'
      BY <3>1, <3>3, <3>4, <3>5 DEF Accounts, Covers, Past, Idle
    <3>7. QED
      BY <3>2, <3>6
  <2>3. QED
    BY <1>1, <1>3, <1>5, <2>1, <2>2 DEF ReadsOne, IgnoresIt, IsInterrupted, IsPrompted, IsTyped
<1>6. CASE EndsIt
  <2>1. /\ h.kind \in {"ended", "failed"} /\ h.prompt = claude.running /\ ~Idle
        /\ claude'.running = claude.running /\ claude'.stage # "running"
        /\ claude'.queue = claude.queue /\ claude'.next = claude.next
    BY <1>2, <1>6 DEF EndsIt, Ready
  <2>2. PICK o : o = Observed(l, h)
    OBVIOUS
  <2>3. /\ o.queued \in Nat /\ l.queued \in Nat
        /\ \/ /\ l.open = claude.running /\ o.open = NoPrompt
              /\ o.lastClosed = claude.running
              /\ o.queued = l.queued /\ o.unaccounted = l.unaccounted
           \/ SameBooks(o, l)
           \/ /\ o.open = l.open /\ o.lastClosed = claude.running
              /\ claude.running \notin {l.open, l.lastClosed}
              /\ l.queued # 0 /\ o.queued = l.queued - 1 /\ o.unaccounted = l.unaccounted
           \/ o.open = l.open /\ o.lastClosed = l.lastClosed /\ o.unaccounted
    BY <1>0, <2>1, <2>2, StopBooks DEF Ledgers, Idle
  <2>4. claude.running < claude.next /\ claude.queue \in Nat
    BY <1>0, <2>1 DEF Orderly, Claudes
  <2>5. Covers(l) /\ Past(l.open) /\ Past(l.lastClosed)
    BY DEF Accounts
  <2>6. Accounts(o)'
    BY <2>1, <2>3, <2>4, <2>5 DEF Accounts, Covers, Past, Idle, SameBooks
  <2>7. QED
    BY <2>2, <2>6
<1>7. CASE LeftOneEnds
  BY <1>1, <1>3, <1>7 DEF LeftOneEnds
<1>8. CASE Speaks
  BY <1>2, <1>4, <1>8 DEF Speaks
<1>9. QED
  BY <1>1, <1>5, <1>6, <1>7, <1>8 DEF ClaudeMoves, GoesOn, IsOver, LeavesOne

(* Each step of Claude's fires one hook or none, and only the report of a  *)
(* prompt comes with one more prompt taken.                                *)
LEMMA HooksGrow ==
    ASSUME TypeOK, Orderly, ClaudeMoves
    PROVE  /\ hooks' = hooks \/ \E h \in Hooks : hooks' = Append(hooks, h)
           /\ claude'.next + claude'.queue >= claude.next + claude.queue
           /\ \A h \in Hooks : hooks' = Append(hooks, h) /\ h.kind = "submitted" =>
                 claude'.next + claude'.queue = claude.next + claude.queue + 1
           /\ hooks' # hooks => Len(hooks) < MaxInFlight
<1>0. claude \in Claudes /\ hooks \in Seq(Hooks)
  BY DEF TypeOK, Claudes
<1>1. ASSUME NEW k, NEW p, NEW r, HookOut(k, p, r)
      PROVE  /\ hooks' = hooks \/ \E h \in Hooks : hooks' = Append(hooks, h)
             /\ \A h \in Hooks : hooks' = Append(hooks, h) => h.kind = k
             /\ Len(hooks) < MaxInFlight
  <2>1. \A h, g \in Hooks : Append(hooks, h) = Append(hooks, g) => h = g
    BY <1>0, Appended
  <2>2. \A h \in Hooks : Append(hooks, h) # hooks
    <3>1. \A h \in Hooks : Len(Append(hooks, h)) = Len(hooks) + 1 /\ Len(hooks) \in Nat
      BY <1>0, Appended
    <3>2. QED
      BY <3>1
  <2>3. QED
    BY <1>1, <2>1, <2>2 DEF HookOut
<1>2. \A h \in Hooks : Append(hooks, h) # hooks
  <2>1. \A h \in Hooks : Len(Append(hooks, h)) = Len(hooks) + 1 /\ Len(hooks) \in Nat
    BY <1>0, Appended
  <2>2. QED
    BY <2>1
<1>3. CASE ReadsOne
  <2>1. CASE IsInterrupted
    BY <1>0, <1>2, <2>1 DEF IsInterrupted, TurnOver, Claudes
  <2>2. CASE IsPrompted
    BY <1>0, <1>1, <2>2 DEF IsPrompted, TurnStarts, Claudes
  <2>3. CASE IsAnswered
    BY <1>0, <1>1, <2>3 DEF IsAnswered, SameTurn, Claudes
  <2>4. CASE IgnoresIt \/ IsTyped
    BY <1>0, <1>2, <2>4 DEF IgnoresIt, IsTyped, SameTurn, Claudes
  <2>5. QED
    BY <1>3, <2>1, <2>2, <2>3, <2>4 DEF ReadsOne
<1>4. CASE EndsIt
  BY <1>0, <1>1, <1>4 DEF EndsIt, Ready, Claudes
<1>5. CASE GoesOn \/ LeavesOne
  BY <1>0, <1>2, <1>5 DEF GoesOn, LeavesOne, Ready, SameTurn, Claudes
<1>6. CASE IsOver
  BY <1>0, <1>2, <1>6 DEF IsOver, TurnOver, Claudes
<1>7. CASE LeftOneEnds
  BY <1>0, <1>1, <1>2, <1>7 DEF LeftOneEnds, TurnStarts, SameTurn, Claudes
<1>8. CASE Speaks
  BY <1>0, <1>1, <1>8 DEF Speaks, SameTurn, Claudes
<1>9. QED
  BY <1>3, <1>4, <1>5, <1>6, <1>7, <1>8 DEF ClaudeMoves

LEMMA TypedParts ==
    ASSUME TypeOK
    PROVE  /\ turn \in Turns /\ ledger \in Ledgers /\ claude \in Claudes
           /\ hooks \in Seq(Hooks) /\ Len(hooks) \in Nat /\ Len(hooks) <= MaxInFlight
           /\ unread \in Seq(Chunks) /\ Len(unread) <= MaxInFlight
BY LedgerAssumption DEF TypeOK, Turns, Ledgers, Claudes

(* Claude's steps: no hook, the books stay; a hook, the run grows by one.  *)
LEMMA BooksWhileClaudeMoves ==
    ASSUME TypeOK, Orderly, BooksKept, ClaudeMoves
    PROVE  BooksKept'
<1>0. /\ ledger' = ledger /\ hooks \in Seq(Hooks) /\ Len(hooks) \in Nat
      /\ claude \in Claudes /\ claude' \in Claudes /\ (Reliable' <=> Reliable)
  BY TypedParts DEF ClaudeMoves, host, SameClaude, Reliable
<1>a. PICK s : RunOfBooks(s)
  BY DEF BooksKept
<1>1. /\ LedgerRun(s) /\ Bounded(s)
      /\ Reliable => Accounts(s[Len(hooks) + 1]) /\ AccountsAtEnd(s)
  BY <1>a DEF RunOfBooks
<1> DEFINE n == Len(hooks)
<1>2. \A i \in 1..(n + 1) : s[i] \in Ledgers /\ s[i].queued \in Nat
  BY <1>1 DEF LedgerRun, Ledgers
<1>3. Reliable => claude.stage = "running" \/ unread = <<>>
  BY <1>1 DEF AccountsAtEnd
<1>4. s[n + 1] \in Ledgers
  BY <1>0, <1>2
<1>5. claude.next + claude.queue \in Nat /\ claude'.next + claude'.queue \in Nat
  BY <1>0 DEF Claudes
<1>6. CASE hooks' = hooks
  <2>1. LedgerRun(s)'
    BY <1>0, <1>1, <1>6 DEF LedgerRun
  <2>2. Bounded(s)'
    BY <1>1, <1>2, <1>5, <1>6, HooksGrow DEF Bounded
  <2>3. ASSUME Reliable PROVE Accounts(s[Len(hooks) + 1])' /\ AccountsAtEnd(s)'
    <3>1. Accounts(s[n + 1])'
      <4>1. PICK l : l = s[n + 1]
        OBVIOUS
      <4>2. Accounts(l)'
        BY <1>1, <1>3, <1>4, <1>6, <2>3, <4>1, AccountsQuietly
      <4>3. l = s[Len(hooks') + 1]
        BY <1>6, <4>1
      <4>4. QED
        BY <4>2, <4>3, <1>6
    <3>2. AccountsAtEnd(s)'
      <4>1. CASE ReadsOne \/ IsOver
        <5>1. claude'.stage = "running"
          BY <1>3, <2>3, <4>1 DEF ReadsOne, IgnoresIt, IsInterrupted, IsAnswered, IsPrompted,
              IsTyped, IsOver, TurnOver, SameTurn, TurnStarts
        <5>2. QED
          BY <5>1 DEF AccountsAtEnd
      <4>2. CASE GoesOn
        BY <1>1, <1>6, <2>3, <4>2 DEF GoesOn, Ready, AtEnd, AccountsAtEnd, ClaudeMoves, ReadsOne
      <4>3. CASE EndsIt
        <5>1. \A k, p, r : ~HookOut(k, p, r)
          BY <1>0, <1>6, <2>3, ReliableHeard, Appended DEF HookOut
        <5>2. QED
          BY <4>3, <5>1 DEF EndsIt
      <4>4. CASE LeavesOne \/ LeftOneEnds \/ Speaks
        <5>1. \A k, p, r : ~HookOut(k, p, r)
          BY <1>0, <1>6, <2>3, ReliableHeard, Appended DEF HookOut
        <5>2. SameTurn
          BY <4>4, <5>1 DEF LeavesOne, LeftOneEnds, Speaks, TurnStarts
        <5>3. ~ReadsOne => unread' = unread
          BY DEF ClaudeMoves
        <5>4. QED
          BY <1>1, <1>6, <2>3, <4>1, <5>2, <5>3 DEF SameTurn, AccountsAtEnd
      <4>5. QED
        BY <4>1, <4>2, <4>3, <4>4 DEF ClaudeMoves
    <3>3. QED
      BY <3>1, <3>2
  <2>4. QED
    BY <1>0, <2>1, <2>2, <2>3 DEF BooksKept, RunOfBooks
<1>7. ASSUME NEW h \in Hooks, hooks' = Append(hooks, h)
      PROVE  BooksKept'
  <2>1. PICK t : /\ LedgerRun(t)'
                 /\ \A i \in 1..(n + 1) : t[i] = s[i]
                 /\ t[n + 2] = Observed(s[n + 1], h)
    BY <1>0, <1>1, <1>7, RunExtended
  <2>2. Len(hooks') = n + 1 /\ Len(hooks') + 1 = n + 2 /\ hooks' # hooks
    BY <1>0, <1>7, Appended
  <2>3. t[n + 2] \in Ledgers /\ t[n + 2].queued \in Nat
    BY <1>4, <1>7, <2>1, ObservedType DEF Ledgers
  <2>4. Bounded(t)'
    <3>1. \A i \in 1..(n + 1) : t[i].queued + 1 <= claude'.next + claude'.queue
      BY <1>1, <1>2, <1>5, <2>1, HooksGrow DEF Bounded
    <3>2. t[n + 2].queued + 1 <= claude'.next + claude'.queue
      <4>1. s[n + 1].queued + 1 <= claude.next + claude.queue /\ s[n + 1].queued \in Nat
        BY <1>0, <1>1, <1>2 DEF Bounded
      <4>2. CASE h.kind = "submitted"
        BY <1>4, <1>5, <1>7, <2>1, <2>3, <4>1, <4>2, HooksGrow, ObservedQueue
      <4>3. CASE h.kind # "submitted"
        BY <1>4, <1>5, <1>7, <2>1, <2>3, <4>1, <4>3, HooksGrow, ObservedQueue
      <4>4. QED
        BY <4>2, <4>3
    <3>3. \A i \in 1..(n + 2) : i \in 1..(n + 1) \/ i = n + 2
      BY <1>0
    <3>4. QED
      BY <2>2, <3>1, <3>2, <3>3 DEF Bounded
  <2>5. ASSUME Reliable PROVE Accounts(t[Len(hooks) + 1])' /\ AccountsAtEnd(t)'
    <3>0. PICK o : o = t[n + 2]
      OBVIOUS
    <3>1. Accounts(o)'
      <4>1. PICK l : l = s[n + 1]
        OBVIOUS
      <4>2. Accounts(Observed(l, h))'
        BY <1>1, <1>3, <1>4, <1>7, <2>5, <4>1, AccountsAloud
      <4>3. o = Observed(l, h)
        BY <2>1, <3>0, <4>1
      <4>4. QED
        BY <4>2, <4>3
    <3>2. AccountsAtEnd(t)'
      <4>1. CASE claude.stage # "running"
        <5>1. SameTurn \/ EndsIt
          BY <1>3, <2>2, <2>5, <4>1 DEF ClaudeMoves, ReadsOne, GoesOn, IsOver, LeavesOne,
              LeftOneEnds, Speaks, EndsIt, TurnStarts, Orderly
        <5>2. /\ claude'.queue = claude.queue
              /\ unread = <<>> /\ unread' = unread
          BY <1>3, <2>5, <4>1, <5>1 DEF SameTurn, EndsIt, Ready, ClaudeMoves, ReadsOne
        <5>3. \A i \in 1..(n + 1) : t[i].unaccounted \/ t[i].queued >= claude'.queue
          BY <1>1, <2>1, <2>5, <4>1, <5>2 DEF AccountsAtEnd
        <5>4. t[n + 2].unaccounted \/ t[n + 2].queued >= claude'.queue
          BY <3>0, <3>1 DEF Accounts, Covers
        <5>5. \A i \in 1..(n + 2) : i \in 1..(n + 1) \/ i = n + 2
          BY <1>0
        <5>6. QED
          BY <2>2, <5>2, <5>3, <5>4, <5>5 DEF AccountsAtEnd
      <4>2. CASE claude.stage = "running" /\ claude'.stage # "running"
        <5>1. EndsIt
          BY <4>2, <2>2 DEF ClaudeMoves, ReadsOne, IgnoresIt, IsInterrupted, IsAnswered,
              IsPrompted, IsTyped, GoesOn, IsOver, LeavesOne, LeftOneEnds, Speaks,
              TurnStarts, TurnOver, SameTurn
        <5>2. /\ claude'.queue = claude.queue /\ hooks = <<>>
              /\ unread = <<>> /\ unread' = unread
          BY <5>1 DEF EndsIt, Ready, Ending, ClaudeMoves, ReadsOne
        <5>3. n = 0
          BY <5>2
        <5>4. s[1].unaccounted \/ s[1].queued >= claude.queue
          BY <1>1, <2>5, <5>3 DEF Accounts, Covers
        <5>5. t[2].unaccounted \/ t[2].queued >= claude'.queue
          BY <3>0, <3>1, <5>3 DEF Accounts, Covers
        <5>6. t[1] = s[1] /\ Len(hooks') + 1 = 2
          BY <2>1, <2>2, <5>3
        <5>7. QED
          BY <5>2, <5>4, <5>5, <5>6 DEF AccountsAtEnd
      <4>3. QED
        BY <4>1, <4>2 DEF AccountsAtEnd
    <3>3. o = t[Len(hooks') + 1]
      BY <2>2, <3>0
    <3>4. QED
      BY <3>1, <3>2, <3>3
  <2>6. QED
    BY <1>0, <2>1, <2>4, <2>5 DEF BooksKept, RunOfBooks
<1>8. QED
  BY <1>6, <1>7, HooksGrow

(* The host's steps: a hook observed leaves the rest of the run; what is   *)
(* written is no part of the books.                                        *)
LEMMA BooksWhileHostMoves ==
    ASSUME TypeOK, Orderly, BooksKept, HostStep
    PROVE  BooksKept'
<1>0. /\ hooks \in Seq(Hooks) /\ Len(hooks) \in Nat /\ ledger \in Ledgers
      /\ claude' = claude
  BY TypedParts DEF HostStep, ObserveStart, ObserveTurn, WriteInput, Draw,
                    CheckTurn, CheckLedger, CheckScreen, LetGo
<1>a. PICK s : RunOfBooks(s)
  BY DEF BooksKept
<1>1. /\ LedgerRun(s) /\ Bounded(s)
      /\ Reliable => Accounts(s[Len(hooks) + 1]) /\ AccountsAtEnd(s)
  BY <1>a DEF RunOfBooks
<1>2. CASE ObserveTurn
  <2>1. /\ hooks # <<>> /\ hooks' = Tail(hooks) /\ unread' = unread
        /\ ledger' = Observed(ledger, Head(hooks))
    BY <1>2 DEF ObserveTurn
  <2>2. PICK t : LedgerRun(t)' /\ \A i \in 1..Len(hooks) : t[i] = s[i + 1]
    BY <1>0, <1>1, <2>1, RunShortened
  <2>3. Len(hooks') + 1 = Len(hooks) /\ Len(hooks) \in Nat \ {0}
    BY <1>0, <2>1, Shortened
  <2>4. t[Len(hooks)] = s[Len(hooks) + 1]
    BY <2>2, <2>3
  <2>5. \A i \in 1..Len(hooks) : t[i] = s[i + 1] /\ i + 1 \in 1..(Len(hooks) + 1)
    BY <2>2, <2>3
  <2>6. Bounded(t)'
    BY <1>0, <1>1, <2>3, <2>5 DEF Bounded
  <2>7. Reliable' => Accounts(t[Len(hooks) + 1])'
    <3>1. PICK l : l = t[Len(hooks)]
      OBVIOUS
    <3>2. Reliable => Accounts(l)
      BY <1>1, <2>4, <3>1
    <3>3. Reliable' => Accounts(l)'
      BY <1>0, <3>2 DEF Reliable, Accounts, Covers, Past, Idle
    <3>4. l = t[Len(hooks') + 1]
      BY <2>3, <3>1
    <3>5. QED
      BY <3>3, <3>4
  <2>8. Reliable' => AccountsAtEnd(t)'
    BY <1>0, <1>1, <2>1, <2>3, <2>5 DEF Reliable, AccountsAtEnd
  <2>9. QED
    BY <2>2, <2>6, <2>7, <2>8 DEF BooksKept, RunOfBooks
<1>3. CASE ~ObserveTurn
  <2>1. /\ hooks' = hooks /\ SameBooks(ledger', ledger)
    BY <1>0, <1>3 DEF HostStep, ObserveStart, WriteInput, Draw, CheckTurn, CheckLedger,
        CheckScreen, LetGo, Counted, SameBooks, Ledgers
  <2>2. LedgerRun(s)'
    BY <1>1, <2>1 DEF LedgerRun, SameBooks
  <2>3. Bounded(s)'
    BY <1>0, <1>1, <2>1 DEF Bounded
  <2>4. Reliable' => Accounts(s[Len(hooks) + 1])'
    <3>1. PICK l : l = s[Len(hooks) + 1]
      OBVIOUS
    <3>2. Reliable => Accounts(l)
      BY <1>1, <3>1
    <3>3. Reliable' => Accounts(l)'
      BY <1>0, <3>2 DEF Reliable, Accounts, Covers, Past, Idle
    <3>4. l = s[Len(hooks') + 1]
      BY <2>1, <3>1
    <3>5. QED
      BY <3>3, <3>4
  <2>5. Reliable' => AccountsAtEnd(s)'
    <3>1. Reliable /\ claude.stage # "running" => unread' = unread
      BY <1>3, ReliableHeard DEF HostStep, ObserveStart, WriteInput, Draw, CheckTurn,
          CheckLedger, CheckScreen, LetGo
    <3>2. QED
      BY <1>0, <1>1, <2>1, <3>1 DEF Reliable, AccountsAtEnd
  <2>6. QED
    BY <2>2, <2>3, <2>4, <2>5 DEF BooksKept, RunOfBooks
<1>4. QED
  BY <1>2, <1>3

-----------------------------------------------------------------------------
(* Types.  The bound on the queue count comes from the books.              *)

LEMMA TypesKept ==
    ASSUME TypeOK, Orderly, BooksKept, Next
    PROVE  TypeOK' /\ BooksKept'
<1>0. /\ turn \in Turns /\ ledger \in Ledgers /\ claude \in Claudes
      /\ hooks \in Seq(Hooks) /\ Len(hooks) \in Nat /\ Len(hooks) <= MaxInFlight
      /\ unread \in Seq(Chunks) /\ Len(unread) <= MaxInFlight /\ Len(unread) \in Nat
      /\ ledger.writes <= MaxWrites /\ MaxInFlight \in Nat /\ MaxWrites \in Nat
  BY TypedParts, LedgerAssumption DEF TypeOK
<1>1. BooksKept'
  BY BooksWhileClaudeMoves, BooksWhileHostMoves, ClaudeMoving DEF Next
<1>2. Orderly'
  BY OrderlyKept
<1>3. ASSUME turn' \in Turns, ledger' \in Ledgers, ledger'.writes <= MaxWrites,
             selected' \in BOOLEAN, seen' \in {"resting", "active", "asking"},
             check' \in {"open", "turn", "ledger", "admitted"}, claude' \in Claudes,
             unread' \in Seq(Chunks), Len(unread') <= MaxInFlight,
             hooks' \in Seq(Hooks), Len(hooks') <= MaxInFlight
      PROVE  TypeOK'
  <2>1. ledger'.queued \in 0..MaxPrompts
    <3>1. PICK s : RunOfBooks(s)'
      BY <1>1 DEF BooksKept
    <3>2. Len(hooks') \in Nat /\ 1 \in 1..(Len(hooks') + 1)
      BY <1>3
    <3>3. /\ s[1].queued + 1 <= claude'.next + claude'.queue
          /\ s[1].queued = ledger'.queued
      BY <3>1, <3>2 DEF RunOfBooks, Bounded, LedgerRun, SameBooks
    <3>4. /\ claude'.next + claude'.queue <= MaxPrompts + 1 /\ MaxPrompts \in Nat
          /\ ledger'.queued \in Nat /\ claude'.next + claude'.queue \in Nat
      BY <1>2, <1>3, LedgerAssumption DEF Orderly, Ledgers, Claudes
    <3>5. QED
      BY <3>3, <3>4
  <2>2. /\ ledger' \in [open : Prompts \union {NoPrompt},
                   lastClosed : Prompts \union {NoPrompt},
                   queued : 0..MaxPrompts, unaccounted : BOOLEAN,
                   writes : 0..MaxWrites, writesAtSubmit : 0..ledger'.writes,
                   halfTyped : BOOLEAN, afterStop : Reports]
    <3>1. ledger'.writes \in 0..MaxWrites /\ ledger'.writesAtSubmit \in 0..ledger'.writes
      BY <1>0, <1>3 DEF Ledgers
    <3>2. QED
      BY <1>3, <2>1, <3>1 DEF Ledgers
  <2>3. QED
    BY <1>3, <2>2 DEF TypeOK, Turns, Claudes
<1>4. CASE ClaudeStep
  <2>1. ClaudeMoves
    BY <1>4, ClaudeMoving
  <2>2. UNCHANGED host /\ claude' \in Claudes
    BY <2>1 DEF ClaudeMoves
  <2>3. hooks' \in Seq(Hooks) /\ Len(hooks') <= MaxInFlight
    BY <1>0, <2>1, HooksGrow, Appended
  <2>4. unread' \in Seq(Chunks) /\ Len(unread') <= MaxInFlight
    <3>1. unread' = unread \/ (unread # <<>> /\ unread' = Tail(unread))
      BY <2>1 DEF ClaudeMoves, ReadsOne
    <3>2. QED
      BY <1>0, <3>1, Shortened
  <2>5. QED
    BY <1>0, <1>1, <1>3, <2>2, <2>3, <2>4 DEF TypeOK, host
<1>5. CASE ObserveTurn
  <2>1. /\ Head(hooks) \in Hooks /\ hooks' \in Seq(Hooks) /\ Len(hooks') <= MaxInFlight
    BY <1>0, <1>5, Shortened DEF ObserveTurn
  <2>2. ledger' \in Ledgers /\ ledger'.writes = ledger.writes
    BY <1>0, <1>5, <2>1, ObservedType, ObservedKeeps DEF ObserveTurn
  <2>3. turn' \in Turns
    BY <1>0, <1>5, <2>1, AppliedType DEF ObserveTurn, Hooks
  <2>4. QED
    BY <1>0, <1>1, <1>3, <1>5, <2>1, <2>2, <2>3 DEF ObserveTurn, TypeOK
<1>6. CASE WriteInput
  <2>1. PICK chunk \in Chunks : ledger' = Counted(ledger, chunk) /\ unread' = Append(unread, chunk)
    BY <1>6 DEF WriteInput
  <2>2. ledger' \in Ledgers /\ ledger'.writes <= MaxWrites
    <3>1. CASE chunk = "focus"
      BY <1>0, <2>1, <3>1 DEF Counted
    <3>2. CASE chunk # "focus"
      <4>1. /\ ledger.writes + 1 \in Nat /\ ledger.writes + 1 <= MaxWrites
            /\ ledger.writesAtSubmit <= ledger.writes + 1
            /\ (chunk \notin {"line", "enter"}) \in BOOLEAN
        BY <1>0, <1>6 DEF WriteInput, Ledgers
      <4>2. ledger' = [ledger EXCEPT !.writes = ledger.writes + 1,
                                     !.halfTyped = chunk \notin {"line", "enter"}]
        BY <1>0, <2>1, <3>2 DEF Counted
      <4>3. QED
        BY <1>0, <4>1, <4>2 DEF Ledgers
    <3>3. QED
      BY <3>1, <3>2
  <2>3. unread' \in Seq(Chunks) /\ Len(unread') <= MaxInFlight
    BY <1>0, <1>6, <2>1, Appended DEF WriteInput
  <2>4. QED
    BY <1>0, <1>1, <1>3, <1>6, <2>2, <2>3 DEF WriteInput, TypeOK
<1>7. CASE ObserveStart \/ Draw \/ CheckTurn \/ CheckLedger \/ CheckScreen \/ LetGo
  <2>1. /\ UNCHANGED <<turn, ledger, claude, unread, hooks>>
        /\ selected' \in BOOLEAN /\ seen' \in {"resting", "active", "asking"}
        /\ check' \in {"open", "turn", "ledger", "admitted"}
    BY <1>7 DEF ObserveStart, Draw, Shown, CheckTurn, CheckLedger, CheckScreen, LetGo, TypeOK
  <2>2. QED
    BY <1>0, <1>1, <1>3, <2>1
<1>8. QED
  BY <1>1, <1>4, <1>5, <1>6, <1>7 DEF Next, HostStep

-----------------------------------------------------------------------------
(* Evidence.  What the ledger and the turn cannot have forgotten while     *)
(* Claude still has something to do.                                       *)

EndsTurn(h) == h.kind \in {"ended", "failed"}

(* The next hook to be observed ends a turn.                               *)
EndPending == hooks # <<>> /\ EndsTurn(hooks[1])

(* A hook that ends a turn fires when no other is under way.               *)
EndsFirst == \A i \in 1..Len(hooks) : EndsTurn(hooks[i]) => i = 1

(* Something was written that no prompt's report has covered.              *)
Lag == ledger.writes # ledger.writesAtSubmit

Unsettled == ledger.unaccounted \/ ledger.open # NoPrompt \/ ledger.queued # 0 \/ Lag

(* Neither the ledger nor the reported turn would let maintenance pass.    *)
Evident == Unsettled \/ ledger.afterStop # Clear \/ turn.phase # "ended"

Typed == \E i \in 1..Len(unread) : unread[i] # "focus"

(* Input not yet read leaves the ledger unsettled, and will even when a    *)
(* Stop now under way is observed first.                                   *)
InputUnsettles == Typed => Unsettled /\ (EndPending => Lag)

(* What is half typed was so marked: by the last chunk unread, if any.     *)
LastChunkMarks ==
    /\ ~Typed /\ claude.composer => ledger.halfTyped
    /\ \A i \in 1..Len(unread) :
          unread[i] # "focus" /\ (\A j \in (i + 1)..Len(unread) : unread[j] = "focus") =>
              (ledger.halfTyped <=> unread[i] \notin {"line", "enter"})

LEMMA HookOutFirst ==
    ASSUME TypeOK, NEW k, NEW p, NEW r, HookOut(k, p, r)
    PROVE  /\ k \notin {"ended", "failed"} => (EndPending' <=> EndPending)
           /\ EndsFirst /\ (k \notin {"ended", "failed"} \/ hooks = <<>>) => EndsFirst'
<1>0. hooks \in Seq(Hooks) /\ Len(hooks) \in Nat
  BY TypedParts
<1>1. CASE hooks' = hooks
  BY <1>1 DEF EndPending, EndsFirst
<1>2. ASSUME NEW h \in Hooks, h.kind = k, hooks' = Append(hooks, h)
      PROVE  /\ k \notin {"ended", "failed"} => (EndPending' <=> EndPending)
             /\ EndsFirst /\ (k \notin {"ended", "failed"} \/ hooks = <<>>) => EndsFirst'
  <2>1. /\ hooks' # <<>> /\ Len(hooks') = Len(hooks) + 1
        /\ \A i \in 1..Len(hooks) : hooks'[i] = hooks[i]
        /\ hooks'[Len(hooks) + 1] = h
        /\ hooks = <<>> => hooks'[1] = h
        /\ hooks # <<>> => hooks'[1] = hooks[1]
    BY <1>0, <1>2, Appended
  <2>2. k \notin {"ended", "failed"} => (EndPending' <=> EndPending)
    BY <1>2, <2>1 DEF EndPending, EndsTurn
  <2>3. ASSUME EndsFirst, k \notin {"ended", "failed"} \/ hooks = <<>>
        PROVE  EndsFirst'
    <3>1. ASSUME NEW i \in 1..(Len(hooks) + 1), EndsTurn(hooks'[i])
          PROVE  i = 1
      <4>1. CASE i \in 1..Len(hooks)
        BY <2>1, <2>3, <3>1, <4>1 DEF EndsFirst
      <4>2. CASE i = Len(hooks) + 1
        <5>1. hooks = <<>> \/ ~EndsTurn(h)
          BY <1>2, <2>3 DEF EndsTurn
        <5>2. QED
          BY <2>1, <3>1, <4>2, <5>1
      <4>3. QED
        BY <1>0, <4>1, <4>2
    <3>2. QED
      BY <2>1, <3>1 DEF EndsFirst
  <2>4. QED
    BY <2>2, <2>3
<1>3. QED
  BY <1>1, <1>2 DEF HookOut

(* Claude's steps leave the host's knowledge as it is.                     *)
LEMMA EvidenceWhileClaudeMoves ==
    ASSUME TypeOK, ClaudeMoves
    PROVE  /\ Unsettled' <=> Unsettled
           /\ Lag' <=> Lag
           /\ Evident' <=> Evident
           /\ EndsIt \/ (EndPending' <=> EndPending)
           /\ EndsFirst => EndsFirst'
<1>1. /\ Unsettled' <=> Unsettled
      /\ Lag' <=> Lag
      /\ Evident' <=> Evident
  BY DEF ClaudeMoves, host, Unsettled, Lag, Evident
<1>2. CASE hooks' = hooks
  BY <1>1, <1>2 DEF EndPending, EndsFirst
<1>3. ASSUME NEW k \in {"submitted", "question", "resolved", "denied", "moved_on"},
             NEW p, NEW r, HookOut(k, p, r)
      PROVE  (EndPending' <=> EndPending) /\ (EndsFirst => EndsFirst')
  BY <1>3, HookOutFirst
<1>4. CASE ReadsOne
  BY <1>1, <1>2, <1>3, <1>4
  DEF ReadsOne, IgnoresIt, IsInterrupted, IsAnswered, IsPrompted, IsTyped, TurnStarts
<1>5. CASE EndsIt
  BY <1>1, <1>5, HookOutFirst DEF EndsIt, Ending
<1>6. CASE LeftOneEnds \/ Speaks
  BY <1>1, <1>2, <1>3, <1>6 DEF LeftOneEnds, Speaks, TurnStarts
<1>7. QED
  BY <1>1, <1>2, <1>4, <1>5, <1>6 DEF ClaudeMoves, GoesOn, IsOver, LeavesOne

(* An observed hook: a prompt's leaves the ledger unsettled; one that ends *)
(* a turn settles nothing while a write is not covered.                    *)
LEMMA EvidenceWhenObserved ==
    ASSUME TypeOK, EndsFirst, ObserveTurn
    PROVE  /\ hooks # <<>> /\ hooks[1] \in Hooks /\ hooks' = Tail(hooks)
           /\ turn' = Applied(turn, hooks[1].kind) /\ ledger' = Observed(ledger, hooks[1])
           /\ EndsFirst' /\ ~EndPending'
           /\ hooks[1].kind = "submitted" => Unsettled'
           /\ hooks[1].kind # "submitted" => (Lag' <=> Lag)
           /\ hooks[1].kind \notin {"submitted", "ended", "failed"} => (Evident' <=> Evident)
           /\ Unsettled /\ (EndPending => Lag) => Unsettled'
           /\ Evident /\ (EndPending => Lag) => Evident'
           /\ hooks[1].kind = "ended" => ledger'.afterStop = hooks[1].report
           /\ hooks[1].kind = "failed" => Evident'
<1>0. /\ hooks \in Seq(Hooks) /\ Len(hooks) \in Nat /\ ledger \in Ledgers /\ turn \in Turns
      /\ hooks # <<>>
  BY TypedParts DEF ObserveTurn
<1>1. /\ Head(hooks) = hooks[1] /\ hooks[1] \in Hooks /\ Len(hooks) \in Nat \ {0}
      /\ Len(Tail(hooks)) = Len(hooks) - 1
      /\ \A i \in 1..(Len(hooks) - 1) : Tail(hooks)[i] = hooks[i + 1]
      /\ Tail(hooks) \in Seq(Hooks)
  BY <1>0, Shortened
<1>2. /\ hooks' = Tail(hooks)
      /\ turn' = Applied(turn, hooks[1].kind) /\ ledger' = Observed(ledger, hooks[1])
  BY <1>1 DEF ObserveTurn
<1>3. \A i \in 1..Len(hooks') : ~EndsTurn(hooks'[i])
  BY <1>1, <1>2 DEF EndsFirst
<1>4. EndsFirst'
  BY <1>3 DEF EndsFirst
<1>5. ~EndPending'
  <2>1. hooks' # <<>> => 1 \in 1..Len(hooks')
    BY <1>1, <1>2
  <2>2. QED
    BY <1>3, <2>1 DEF EndPending
<1>6. hooks[1].kind = "submitted" => Unsettled'
  BY <1>0, <1>1, <1>2, ObservedKeeps DEF Unsettled
<1>7. hooks[1].kind # "submitted" => (Lag' <=> Lag)
  BY <1>0, <1>1, <1>2, ObservedKeeps DEF Lag
<1>8. CASE hooks[1].kind = "submitted"
  BY <1>0, <1>1, <1>2, <1>4, <1>5, <1>6, <1>8 DEF Evident
<1>9. CASE EndsTurn(hooks[1])
  <2>1. EndPending
    BY <1>0, <1>9 DEF EndPending
  <2>2. hooks[1].kind = "ended" => ledger'.afterStop = hooks[1].report
    BY <1>0, <1>1, <1>2, ObservedKeeps
  <2>3. hooks[1].kind = "failed" => turn'.phase = "failed"
    BY <1>0, <1>2 DEF Applied, Turns
  <2>4. QED
    BY <1>0, <1>1, <1>2, <1>4, <1>5, <1>7, <1>9, <2>1, <2>2, <2>3
    DEF Evident, Unsettled, EndsTurn
<1>10. CASE hooks[1].kind \notin {"submitted", "ended", "failed"}
  <2>1. ledger' = ledger
    BY <1>0, <1>1, <1>2, <1>10, ObservedKeeps
  <2>2. turn'.phase = turn.phase
    BY <1>0, <1>1, <1>2, <1>10 DEF Applied, Turns, Hooks, Kinds
  <2>3. (Unsettled' <=> Unsettled) /\ (Evident' <=> Evident)
    BY <2>1, <2>2 DEF Unsettled, Evident, Lag
  <2>4. QED
    BY <1>0, <1>1, <1>2, <1>4, <1>5, <1>7, <1>10, <2>3
<1>11. QED
  BY <1>8, <1>9, <1>10 DEF EndsTurn

(* A write settles nothing.                                                *)
LEMMA EvidenceWhenWritten ==
    ASSUME TypeOK, NEW chunk \in Chunks, ledger' = Counted(ledger, chunk),
           turn' = turn, hooks' = hooks
    PROVE  /\ chunk # "focus" => Lag'
           /\ chunk = "focus" => ledger' = ledger
           /\ Lag => Lag'
           /\ Unsettled => Unsettled'
           /\ Evident => Evident'
           /\ EndPending' <=> EndPending
           /\ chunk # "focus" => (ledger'.halfTyped <=> chunk \notin {"line", "enter"})
<1>0. ledger \in Ledgers
  BY TypedParts
<1>1. CASE chunk = "focus"
  BY <1>1 DEF Counted, Lag, Unsettled, Evident, EndPending
<1>2. CASE chunk # "focus"
  <2>1. /\ ledger'.writes = ledger.writes + 1
        /\ ledger'.writesAtSubmit = ledger.writesAtSubmit
        /\ ledger'.halfTyped = (chunk \notin {"line", "enter"})
    BY <1>0, <1>2 DEF Counted, Ledgers
  <2>2. ledger.writes \in Nat /\ ledger.writesAtSubmit \in Nat
        /\ ledger.writesAtSubmit <= ledger.writes
    BY <1>0 DEF Ledgers
  <2>3. Lag'
    BY <2>1, <2>2 DEF Lag
  <2>4. QED
    BY <1>2, <2>1, <2>3 DEF Unsettled, Evident, EndPending
<1>3. QED
  BY <1>1, <1>2

LEMMA ChunkRead ==
    ASSUME TypeOK, unread # <<>>, unread' = Tail(unread)
    PROVE  /\ Head(unread) = unread[1] /\ Len(unread') = Len(unread) - 1
           /\ Len(unread) \in Nat \ {0}
           /\ \A i \in 1..Len(unread') : unread'[i] = unread[i + 1]
           /\ Typed' => Typed
           /\ Head(unread) # "focus" => Typed
           /\ Head(unread) = "focus" => (Typed' <=> Typed)
<1>1. /\ Head(unread) = unread[1] /\ Len(unread') = Len(unread) - 1
      /\ Len(unread) \in Nat \ {0}
      /\ \A i \in 1..Len(unread') : unread'[i] = unread[i + 1]
  BY TypedParts, Shortened
<1>2. Typed' => Typed
  <2>1. ASSUME NEW i \in 1..Len(unread'), unread'[i] # "focus" PROVE Typed
    <3>1. i + 1 \in 1..Len(unread) /\ unread[i + 1] # "focus"
      BY <1>1, <2>1
    <3>2. QED
      BY <3>1 DEF Typed
  <2>2. QED
    BY <2>1 DEF Typed
<1>3. Head(unread) # "focus" => Typed
  BY <1>1 DEF Typed
<1>4. Head(unread) = "focus" /\ Typed => Typed'
  <2>1. ASSUME NEW i \in 1..Len(unread), unread[i] # "focus", Head(unread) = "focus"
        PROVE  Typed'
    <3>1. i - 1 \in 1..Len(unread') /\ unread'[i - 1] # "focus"
      BY <1>1, <2>1
    <3>2. QED
      BY <3>1 DEF Typed
  <2>2. QED
    BY <2>1 DEF Typed
<1>5. QED
  BY <1>1, <1>2, <1>3, <1>4

LEMMA ChunkWritten ==
    ASSUME TypeOK, NEW chunk \in Chunks, unread' = Append(unread, chunk)
    PROVE  /\ Len(unread') = Len(unread) + 1 /\ Len(unread) \in Nat
           /\ \A i \in 1..Len(unread) : unread'[i] = unread[i]
           /\ unread'[Len(unread) + 1] = chunk
           /\ chunk = "focus" => (Typed' => Typed)
           /\ chunk # "focus" => Typed'
<1>1. /\ Len(unread') = Len(unread) + 1 /\ Len(unread) \in Nat
      /\ \A i \in 1..Len(unread) : unread'[i] = unread[i]
      /\ unread'[Len(unread) + 1] = chunk
  BY TypedParts, Appended
<1>2. QED
  BY <1>1 DEF Typed

(* What the host does beside observing and writing changes none of this.   *)
Settles ==
    /\ UNCHANGED <<turn, ledger, claude, unread, hooks>>
    /\ ObserveStart \/ Draw \/ CheckTurn \/ CheckLedger \/ CheckScreen \/ LetGo

LEMMA HostSteps ==
    ASSUME HostStep
    PROVE  \/ ObserveTurn
           \/ \E chunk \in Chunks : /\ WriteInput
                                   /\ ledger' = Counted(ledger, chunk)
                                   /\ unread' = Append(unread, chunk)
           \/ Settles
BY DEF HostStep, WriteInput, Settles, ObserveStart, Draw, CheckTurn, CheckLedger,
       CheckScreen, LetGo

LEMMA InputUnsettlesKept ==
    ASSUME TypeOK, Orderly, EndsFirst, InputUnsettles, Next
    PROVE  EndsFirst' /\ InputUnsettles'
<1>1. CASE ClaudeStep
  <2>1. ClaudeMoves
    BY <1>1, ClaudeMoving
  <2>2. CASE EndsIt /\ ~ReadsOne
    <3>1. ~Typed /\ unread' = unread
      BY <2>1, <2>2 DEF EndsIt, Ending, ClaudeMoves, Typed
    <3>2. QED
      BY <2>1, <3>1, EvidenceWhileClaudeMoves DEF InputUnsettles, Typed
  <2>3. CASE ReadsOne
    <3>1. Typed' => Typed
      BY <2>3, ChunkRead DEF ReadsOne
    <3>2. ~EndsIt
      BY <2>3 DEF ReadsOne, EndsIt, Ending
    <3>3. QED
      BY <2>1, <3>1, <3>2, EvidenceWhileClaudeMoves DEF InputUnsettles
  <2>4. CASE ~ReadsOne /\ ~EndsIt
    <3>1. Typed' <=> Typed
      BY <2>1, <2>4 DEF ClaudeMoves, Typed
    <3>2. QED
      BY <2>1, <2>4, <3>1, EvidenceWhileClaudeMoves DEF InputUnsettles
  <2>5. QED
    BY <2>2, <2>3, <2>4
<1>2. CASE ObserveTurn
  <2>1. Typed' <=> Typed
    BY <1>2 DEF ObserveTurn, Typed
  <2>2. QED
    BY <1>2, <2>1, EvidenceWhenObserved DEF InputUnsettles
<1>3. ASSUME NEW chunk \in Chunks, WriteInput, ledger' = Counted(ledger, chunk),
             unread' = Append(unread, chunk)
      PROVE  EndsFirst' /\ InputUnsettles'
  <2>1. turn' = turn /\ hooks' = hooks
    BY <1>3 DEF WriteInput
  <2>2. EndsFirst'
    BY <2>1 DEF EndsFirst
  <2>3. CASE chunk # "focus"
    BY <1>3, <2>1, <2>2, <2>3, EvidenceWhenWritten DEF InputUnsettles, Unsettled
  <2>4. CASE chunk = "focus"
    BY <1>3, <2>1, <2>2, <2>4, EvidenceWhenWritten, ChunkWritten
    DEF InputUnsettles, Unsettled, Lag
  <2>5. QED
    BY <2>3, <2>4
<1>4. CASE Settles
  BY <1>4 DEF Settles, EndsFirst, InputUnsettles, Typed, Unsettled, Lag, EndPending
<1>5. QED
  BY <1>1, <1>2, <1>3, <1>4, HostSteps DEF Next

LEMMA LastChunkMarksKept ==
    ASSUME TypeOK, Orderly, LastChunkMarks, Next
    PROVE  LastChunkMarks'
<1>0. Len(unread) \in Nat /\ \A i \in 1..Len(unread) : unread[i] \in AllChunks
  BY TypedParts, LedgerAssumption
<1>1. CASE ClaudeStep
  <2>1. ClaudeMoves /\ ledger' = ledger
    BY <1>1, ClaudeMoving DEF ClaudeMoves, host
  <2>2. CASE ReadsOne
    <3>0. unread # <<>> /\ unread' = Tail(unread)
      BY <2>2 DEF ReadsOne
    <3>1. \A i \in 1..Len(unread') :
             unread'[i] # "focus" /\ (\A j \in (i + 1)..Len(unread') : unread'[j] = "focus") =>
                 (ledger'.halfTyped <=> unread'[i] \notin {"line", "enter"})
      <4>1. SUFFICES ASSUME NEW i \in 1..Len(unread'), unread'[i] # "focus",
                            \A j \in (i + 1)..Len(unread') : unread'[j] = "focus"
                     PROVE  ledger'.halfTyped <=> unread'[i] \notin {"line", "enter"}
        OBVIOUS
      <4>2. i + 1 \in 1..Len(unread) /\ unread[i + 1] = unread'[i]
        BY <3>0, ChunkRead
      <4>3. \A j \in (i + 1 + 1)..Len(unread) : unread[j] = "focus"
        <5>1. TAKE j \in (i + 1 + 1)..Len(unread)
        <5>2. j - 1 \in (i + 1)..Len(unread') /\ j - 1 \in 1..Len(unread')
          BY <3>0, ChunkRead
        <5>3. unread'[j - 1] = unread[j]
          BY <3>0, <5>2, ChunkRead
        <5>4. QED
          BY <4>1, <5>2, <5>3
      <4>4. QED
        BY <2>1, <4>1, <4>2, <4>3 DEF LastChunkMarks
    <3>2. ~Typed' /\ claude'.composer => ledger'.halfTyped
      <4>1. SUFFICES ASSUME ~Typed', claude'.composer PROVE ledger'.halfTyped
        OBVIOUS
      <4>2. CASE Typed
        <5>1. unread[1] # "focus" /\ Head(unread) = unread[1] /\ 1 \in 1..Len(unread)
          BY <3>0, <4>1, <4>2, ChunkRead
        <5>2. \A j \in (1 + 1)..Len(unread) : unread[j] = "focus"
          <6>1. TAKE j \in (1 + 1)..Len(unread)
          <6>2. j - 1 \in 1..Len(unread') /\ unread'[j - 1] = unread[j]
            BY <3>0, ChunkRead
          <6>3. QED
            BY <4>1, <6>2 DEF Typed
        <5>3. ledger.halfTyped <=> unread[1] \notin {"line", "enter"}
          BY <5>1, <5>2 DEF LastChunkMarks
        <5>4. CASE unread[1] \notin {"line", "enter"}
          BY <2>1, <5>3, <5>4
        <5>5. CASE unread[1] \in {"line", "enter"}
          BY <2>2, <4>1, <5>1, <5>5 DEF ReadsOne, IgnoresIt, IsInterrupted, IsAnswered,
              IsPrompted, IsTyped, Aside, Orderly
        <5>6. QED
          BY <5>4, <5>5
      <4>3. CASE ~Typed
        <5>1. Head(unread) = "focus"
          BY <3>0, <4>3, ChunkRead
        <5>2. claude'.composer = claude.composer
          BY <2>2, <5>1 DEF ReadsOne, IgnoresIt, IsInterrupted, IsAnswered, IsPrompted, IsTyped
        <5>3. QED
          BY <2>1, <4>1, <4>3, <5>2 DEF LastChunkMarks
      <4>4. QED
        BY <4>2, <4>3
    <3>3. QED
      BY <3>1, <3>2 DEF LastChunkMarks
  <2>3. CASE ~ReadsOne
    <3>1. unread' = unread /\ claude'.composer = claude.composer
      BY <2>1, <2>3 DEF ClaudeMoves, EndsIt, GoesOn, IsOver, LeavesOne, LeftOneEnds, Speaks,
          Ready, TurnOver, Aside
    <3>2. QED
      BY <2>1, <3>1 DEF LastChunkMarks, Typed
  <2>4. QED
    BY <2>2, <2>3
<1>2. CASE ObserveTurn
  <2>1. ledger'.halfTyped = ledger.halfTyped /\ claude' = claude /\ unread' = unread
    BY <1>2, TypedParts, Shortened, ObservedKeeps DEF ObserveTurn
  <2>2. QED
    BY <2>1 DEF LastChunkMarks, Typed
<1>3. ASSUME NEW chunk \in Chunks, WriteInput, ledger' = Counted(ledger, chunk),
             unread' = Append(unread, chunk)
      PROVE  LastChunkMarks'
  <2>1. turn' = turn /\ hooks' = hooks /\ claude' = claude
    BY <1>3 DEF WriteInput
  <2>2. CASE chunk # "focus"
    <3>1. Typed' /\ Len(unread') = Len(unread) + 1 /\ unread'[Len(unread) + 1] = chunk
      BY <1>3, <2>2, ChunkWritten
    <3>2. ASSUME NEW i \in 1..Len(unread'), unread'[i] # "focus",
                 \A j \in (i + 1)..Len(unread') : unread'[j] = "focus"
          PROVE  ledger'.halfTyped <=> unread'[i] \notin {"line", "enter"}
      <4>1. i = Len(unread) + 1
        BY <1>0, <2>2, <3>1, <3>2
      <4>2. QED
        BY <1>3, <2>1, <2>2, <3>1, <4>1, EvidenceWhenWritten
    <3>3. QED
      BY <3>1, <3>2 DEF LastChunkMarks
  <2>3. CASE chunk = "focus"
    <3>1. /\ Len(unread') = Len(unread) + 1 /\ ledger' = ledger
          /\ \A i \in 1..Len(unread) : unread'[i] = unread[i]
          /\ unread'[Len(unread) + 1] = "focus" /\ (Typed' => Typed)
      BY <1>3, <2>1, <2>3, ChunkWritten, EvidenceWhenWritten
    <3>2. ~Typed' => ~Typed
      BY <1>0, <3>1 DEF Typed
    <3>3. ASSUME NEW i \in 1..Len(unread'), unread'[i] # "focus",
                 \A j \in (i + 1)..Len(unread') : unread'[j] = "focus"
          PROVE  ledger'.halfTyped <=> unread'[i] \notin {"line", "enter"}
      <4>1. i \in 1..Len(unread) /\ unread'[i] = unread[i]
        BY <1>0, <3>1, <3>3
      <4>2. \A j \in (i + 1)..Len(unread) : unread[j] = "focus"
        BY <1>0, <3>1, <3>3, <4>1
      <4>3. QED
        BY <3>1, <3>3, <4>1, <4>2 DEF LastChunkMarks
    <3>4. QED
      BY <2>1, <3>1, <3>2, <3>3 DEF LastChunkMarks
  <2>4. QED
    BY <2>2, <2>3
<1>4. CASE Settles
  BY <1>4 DEF Settles, LastChunkMarks, Typed
<1>5. QED
  BY <1>1, <1>2, <1>3, <1>4, HostSteps DEF Next

-----------------------------------------------------------------------------
(* What Claude is still doing, and what shows it.                          *)

(* A turn the screen does not show yet has left its mark on the ledger, or *)
(* was started by what an earlier turn left, which the ledger or the turn  *)
(* still shows if every hook is heard.                                     *)
UnseenTurnsEvident ==
    seen = "resting" /\ ~Idle /\ (~May("leaves") \/ Heard) =>
        /\ EndPending => Lag
        /\ Unsettled \/ (May("leaves") /\ Evident)

(* A Stop outlives its turn only by an Esc that no report has covered.     *)
LateEndLags == EndPending => AtEnd \/ Lag

(* A Stop says what its turn leaves behind, or that it does not know.      *)
StopsTellTheTruth ==
    EndPending /\ AtEnd /\ hooks[1].kind = "ended" /\ claude.left # {} =>
        hooks[1].report # Clear

(* What a turn left behind shows in the ledger or the turn once the turn's *)
(* end is observed; before, the turn is on the screen or its end is due.   *)
LeavingsEvident ==
    Heard /\ claude.left # {} =>
        \/ Evident
        \/ ~Idle /\ ~AtEnd /\ seen # "resting"
        \/ AtEnd /\ EndPending

(* Hooks that take a denial back.                                          *)
Answers(h) == h.kind \in {"submitted", "moved_on"}

NoAnswer == \A i \in 1..Len(hooks) : ~Answers(hooks[i])

DeniedLast ==
    \E i \in 1..Len(hooks) :
       /\ hooks[i].kind = "denied"
       /\ \A j \in (i + 1)..Len(hooks) : ~Answers(hooks[j])

(* A denial nobody has answered is in the reported turn or under way, or a *)
(* queued prompt will answer it.                                           *)
DenialEvident ==
    Heard /\ claude.asking = "operator" =>
        \/ claude.queue > 0
        \/ turn.denial /\ NoAnswer
        \/ ~AtEnd /\ ~Idle /\ DeniedLast

(* With hooks in time and with their ids, a turn under way shows.          *)
ReliableTurnsEvident ==
    Reliable /\ ~Idle /\ claude.stage = "running" => Evident /\ (EndPending => Lag)

Evidence ==
    /\ EndsFirst /\ InputUnsettles /\ LastChunkMarks
    /\ UnseenTurnsEvident /\ LateEndLags /\ StopsTellTheTruth
    /\ LeavingsEvident /\ DenialEvident /\ ReliableTurnsEvident

(* Whatever Claude reads but ignores, was typed, and so shows.             *)
LEMMA ReadsUnsettled ==
    ASSUME TypeOK, ClaudeMoves, ReadsOne, InputUnsettles
    PROVE  \/ claude' = claude /\ hooks' = hooks
           \/ Unsettled' /\ (EndPending' => Lag') /\ Evident'
<1>1. CASE Head(unread) = "focus"
  BY <1>1 DEF ReadsOne, IgnoresIt, IsInterrupted, IsAnswered, IsPrompted, IsTyped
<1>2. CASE Head(unread) # "focus"
  <2>1. Unsettled /\ (EndPending => Lag)
    BY <1>2, ChunkRead DEF ReadsOne, InputUnsettles
  <2>2. ~EndsIt
    BY DEF ReadsOne, EndsIt, Ending
  <2>3. QED
    BY <2>1, <2>2, EvidenceWhileClaudeMoves DEF Evident
<1>3. QED
  BY <1>1, <1>2

LEMMA UnseenTurnsEvidentKept ==
    ASSUME TypeOK, Orderly, Evidence, Next
    PROVE  UnseenTurnsEvident'
<1>1. CASE ClaudeStep
  <2>1. /\ ClaudeMoves /\ seen' = seen
        /\ claude'.hooked = claude.hooked /\ claude'.manner = claude.manner
    BY <1>1, ClaudeMoving DEF ClaudeMoves, host, SameClaude
  <2>2. (May("leaves")' <=> May("leaves")) /\ (Heard' <=> Heard)
    BY <2>1 DEF May, Heard
  <2>3. CASE ReadsOne
    <3>1. CASE claude' = claude /\ hooks' = hooks
      BY <2>1, <3>1, EvidenceWhileClaudeMoves
      DEF Evidence, UnseenTurnsEvident, Idle, May, Heard, EndPending
    <3>2. QED
      BY <2>1, <2>3, <3>1, ReadsUnsettled DEF Evidence, UnseenTurnsEvident
  <2>4. CASE EndsIt
    BY <2>1, <2>4 DEF EndsIt, Ending, UnseenTurnsEvident
  <2>5. CASE LeftOneEnds /\ ~SameTurn
    <3>1. /\ Idle /\ claude.left # {} /\ claude.stage = "running"
          /\ ~EndPending /\ ~EndPending'
      <4>1. Idle /\ claude.left # {} /\ HookOut("submitted", claude.next, Clear)
        BY <2>5 DEF LeftOneEnds, TurnStarts
      <4>2. EndPending' <=> EndPending
        BY <4>1, HookOutFirst
      <4>3. ~EndPending
        BY <4>1, <2>5 DEF LeftOneEnds, EndPending
      <4>4. QED
        BY <4>1, <4>2, <4>3 DEF Orderly
    <3>2. May("leaves")
      BY <3>1 DEF Orderly
    <3>3. Heard => Evident
      BY <3>1 DEF Evidence, LeavingsEvident, AtEnd
    <3>4. QED
      BY <2>1, <2>2, <3>1, <3>2, <3>3, EvidenceWhileClaudeMoves DEF UnseenTurnsEvident
  <2>6. CASE ~ReadsOne /\ ~EndsIt /\ ~(LeftOneEnds /\ ~SameTurn)
    <3>1. ~Idle' => ~Idle
      BY <2>1, <2>6 DEF ClaudeMoves, GoesOn, IsOver, LeavesOne, LeftOneEnds, Speaks, Ready,
          SameTurn, Idle, AtEnd, Orderly
    <3>2. QED
      BY <2>1, <2>2, <2>6, <3>1, EvidenceWhileClaudeMoves DEF Evidence, UnseenTurnsEvident
  <2>7. QED
    BY <2>3, <2>4, <2>5, <2>6
<1>2. CASE ObserveTurn
  <2>1. claude' = claude /\ seen' = seen
    BY <1>2 DEF ObserveTurn
  <2>2. (Idle' <=> Idle) /\ (May("leaves")' <=> May("leaves")) /\ (Heard' <=> Heard)
    BY <2>1 DEF Idle, May, Heard
  <2>3. QED
    BY <1>2, <2>1, <2>2, EvidenceWhenObserved DEF Evidence, UnseenTurnsEvident
<1>3. ASSUME NEW chunk \in Chunks, WriteInput, ledger' = Counted(ledger, chunk),
             unread' = Append(unread, chunk)
      PROVE  UnseenTurnsEvident'
  <2>1. turn' = turn /\ hooks' = hooks /\ claude' = claude /\ seen' = seen
    BY <1>3 DEF WriteInput
  <2>2. (Idle' <=> Idle) /\ (May("leaves")' <=> May("leaves")) /\ (Heard' <=> Heard)
    BY <2>1 DEF Idle, May, Heard
  <2>3. QED
    BY <1>3, <2>1, <2>2, EvidenceWhenWritten DEF Evidence, UnseenTurnsEvident
<1>4. CASE Settles
  <2>1. seen' = "resting" /\ ~Idle => seen = "resting"
    BY <1>4 DEF Settles, ObserveStart, Draw, Shown, CheckTurn, CheckLedger, CheckScreen, LetGo
  <2>2. QED
    BY <1>4, <2>1 DEF Settles, Evidence, UnseenTurnsEvident, Idle, May, Heard, EndPending, Lag,
        Unsettled, Evident
<1>5. QED
  BY <1>1, <1>2, <1>3, <1>4, HostSteps DEF Next

LEMMA LateEndLagsKept ==
    ASSUME TypeOK, Orderly, Evidence, Next
    PROVE  LateEndLags'
<1>1. CASE ClaudeStep
  <2>1. ClaudeMoves
    BY <1>1, ClaudeMoving
  <2>2. CASE ReadsOne
    <3>1. CASE claude' = claude /\ hooks' = hooks
      BY <2>1, <3>1, EvidenceWhileClaudeMoves DEF Evidence, LateEndLags, AtEnd, EndPending
    <3>2. QED
      BY <2>1, <2>2, <3>1, ReadsUnsettled DEF Evidence, LateEndLags
  <2>3. CASE EndsIt
    BY <2>3 DEF EndsIt, Ready, LateEndLags, AtEnd
  <2>4. CASE GoesOn \/ IsOver
    BY <2>4 DEF GoesOn, IsOver, LateEndLags, EndPending
  <2>5. CASE ~EndsIt /\ (LeavesOne \/ LeftOneEnds \/ Speaks)
    <3>1. claude'.stage = claude.stage
      BY <2>5 DEF LeavesOne, LeftOneEnds, Speaks, SameTurn, TurnStarts
    <3>2. QED
      BY <2>1, <2>5, <3>1, EvidenceWhileClaudeMoves DEF Evidence, LateEndLags, AtEnd
  <2>6. QED
    BY <2>1, <2>2, <2>3, <2>4, <2>5 DEF ClaudeMoves
<1>2. CASE ObserveTurn
  BY <1>2, EvidenceWhenObserved DEF Evidence, LateEndLags
<1>3. ASSUME NEW chunk \in Chunks, WriteInput, ledger' = Counted(ledger, chunk),
             unread' = Append(unread, chunk)
      PROVE  LateEndLags'
  <2>1. turn' = turn /\ hooks' = hooks /\ claude' = claude
    BY <1>3 DEF WriteInput
  <2>2. QED
    BY <1>3, <2>1, EvidenceWhenWritten DEF Evidence, LateEndLags, AtEnd
<1>4. CASE Settles
  BY <1>4 DEF Settles, Evidence, LateEndLags, AtEnd, EndPending, Lag
<1>5. QED
  BY <1>1, <1>2, <1>3, <1>4, HostSteps DEF Next

LEMMA StopsTellTheTruthKept ==
    ASSUME TypeOK, Orderly, Evidence, Next
    PROVE  StopsTellTheTruth'
<1>0. hooks \in Seq(Hooks) /\ claude \in Claudes /\ Len(hooks) \in Nat
  BY TypedParts
<1>1. CASE ClaudeStep
  <2>1. ClaudeMoves
    BY <1>1, ClaudeMoving
  <2>2. CASE EndsIt
    <3>1. hooks = <<>> /\ claude'.left = claude.left
      BY <2>2 DEF EndsIt, Ending, Ready, Aside
    <3>2. ASSUME NEW k, NEW r, HookOut(k, claude.running, r),
                 k = "ended" /\ claude.left # {} => r # Clear
          PROVE  StopsTellTheTruth'
      <4>1. CASE hooks' = hooks
        BY <3>1, <4>1 DEF StopsTellTheTruth, EndPending
      <4>2. CASE \E h \in Hooks : h.kind = k /\ h.report = r /\ hooks' = Append(hooks, h)
        BY <1>0, <3>1, <3>2, <4>2, Appended DEF StopsTellTheTruth, EndPending
      <4>3. QED
        BY <3>2, <4>1, <4>2 DEF HookOut
    <3>3. claude.left # {} => Truth(claude.left) # Clear /\ Unknown # Clear
      BY <1>0 DEF Claudes, Leavings, Truth, Clear, Unknown
    <3>4. QED
      BY <2>2, <3>2, <3>3 DEF EndsIt
  <2>3. CASE hooks' = hooks
    <3>1. \/ EndsIt
          \/ (AtEnd' => AtEnd) /\ (AtEnd' => claude'.left \subseteq claude.left)
      BY <2>1, <2>3 DEF ClaudeMoves, ReadsOne, IgnoresIt, IsInterrupted, IsAnswered, IsPrompted,
          IsTyped, GoesOn, IsOver, LeavesOne, LeftOneEnds, Speaks, Ready, TurnOver, TurnStarts,
          SameTurn, Aside, AtEnd
    <3>2. QED
      BY <2>2, <2>3, <3>1 DEF Evidence, StopsTellTheTruth, EndPending
  <2>4. ASSUME NEW k \in {"submitted", "question", "resolved", "denied", "moved_on"},
               NEW p, NEW r, HookOut(k, p, r), AtEnd' => AtEnd,
               claude'.left \subseteq claude.left
        PROVE  StopsTellTheTruth'
    <3>1. PICK h \in Hooks : hooks' = hooks \/ (h.kind = k /\ hooks' = Append(hooks, h))
      <4>1. CASE hooks' = hooks
        <5>1. [kind |-> "denied", prompt |-> NoPrompt, report |-> Clear] \in Hooks
          BY DEF Hooks, Kinds, Reports, Amounts, Clear
        <5>2. QED
          BY <4>1, <5>1
      <4>2. QED
        BY <2>4, <4>1 DEF HookOut
    <3>2. CASE hooks' = hooks
      BY <2>4, <3>2 DEF Evidence, StopsTellTheTruth, EndPending
    <3>3. CASE hooks # <<>> /\ hooks' = Append(hooks, h)
      <4>1. hooks'[1] = hooks[1]
        BY <1>0, <3>3, Appended
      <4>2. QED
        BY <2>4, <3>3, <4>1 DEF Evidence, StopsTellTheTruth, EndPending
    <3>4. CASE hooks = <<>> /\ h.kind = k /\ hooks' = Append(hooks, h)
      <4>1. hooks'[1] = h
        BY <1>0, <3>4, Appended
      <4>2. QED
        BY <2>4, <3>4, <4>1 DEF StopsTellTheTruth
    <3>5. QED
      BY <3>1, <3>2, <3>3, <3>4
  <2>5. CASE ReadsOne
    BY <2>3, <2>4, <2>5 DEF ReadsOne, IgnoresIt, IsInterrupted, IsAnswered, IsPrompted, IsTyped,
        TurnStarts, SameTurn, Aside, AtEnd
  <2>6. CASE LeftOneEnds \/ Speaks
    BY <2>3, <2>4, <2>6 DEF LeftOneEnds, Speaks, TurnStarts, SameTurn, Aside, AtEnd
  <2>7. QED
    BY <2>1, <2>2, <2>3, <2>5, <2>6 DEF ClaudeMoves, GoesOn, IsOver, LeavesOne
<1>2. CASE ObserveTurn
  BY <1>2, EvidenceWhenObserved DEF Evidence, StopsTellTheTruth
<1>3. CASE WriteInput \/ Settles
  <2>1. hooks' = hooks /\ claude' = claude
    BY <1>3 DEF WriteInput, Settles
  <2>2. QED
    BY <2>1 DEF Evidence, StopsTellTheTruth, EndPending, AtEnd
<1>4. QED
  BY <1>1, <1>2, <1>3, HostSteps DEF Next

LEMMA LeavingsEvidentKept ==
    ASSUME TypeOK, Orderly, Evidence, Next
    PROVE  LeavingsEvident'
<1>1. CASE ClaudeStep
  <2>1. /\ ClaudeMoves /\ seen' = seen
        /\ claude'.hooked = claude.hooked /\ claude'.manner = claude.manner
    BY <1>1, ClaudeMoving DEF ClaudeMoves, host, SameClaude
  <2>2. Heard' <=> Heard
    BY <2>1 DEF May, Heard
  <2>3. CASE ReadsOne
    <3>1. CASE claude' = claude /\ hooks' = hooks
      BY <2>1, <3>1, EvidenceWhileClaudeMoves
      DEF Evidence, LeavingsEvident, Idle, AtEnd, Heard, May, EndPending
    <3>2. QED
      BY <2>1, <2>3, <3>1, ReadsUnsettled DEF Evidence, LeavingsEvident
  <2>4. CASE EndsIt
    <3>1. hooks = <<>> /\ hooks \in Seq(Hooks) /\ AtEnd'
      BY <2>4, TypedParts DEF EndsIt, Ending, Ready, AtEnd
    <3>2. ASSUME NEW k \in {"ended", "failed"}, NEW r, HookOut(k, claude.running, r), Heard
          PROVE  EndPending'
      <4>1. PICK h \in Hooks : h.kind = k /\ hooks' = Append(hooks, h)
        BY <3>2 DEF HookOut
      <4>2. hooks' # <<>> /\ hooks'[1] = h
        BY <3>1, <4>1, Appended
      <4>3. QED
        BY <3>2, <4>1, <4>2 DEF EndPending, EndsTurn
    <3>3. Heard => EndPending'
      BY <2>4, <3>2 DEF EndsIt
    <3>4. QED
      BY <2>2, <3>1, <3>3 DEF LeavingsEvident
  <2>5. CASE GoesOn \/ IsOver
    <3>1. /\ AtEnd /\ ~EndPending /\ claude'.left = claude.left
      BY <2>5 DEF GoesOn, IsOver, Ready, TurnOver, Aside, EndPending
    <3>2. QED
      BY <2>1, <2>2, <3>1, EvidenceWhileClaudeMoves DEF Evidence, LeavingsEvident
  <2>6. CASE LeavesOne
    <3>1. /\ ~Idle /\ ~AtEnd /\ May("leaves") /\ ~Idle' /\ ~AtEnd'
      BY <2>6 DEF LeavesOne, SameTurn, Idle, AtEnd
    <3>2. Heard => Evident \/ seen # "resting"
      BY <3>1 DEF Evidence, UnseenTurnsEvident, Evident
    <3>3. QED
      BY <2>1, <2>2, <3>1, <3>2, EvidenceWhileClaudeMoves DEF LeavingsEvident
  <2>7. CASE (LeftOneEnds /\ SameTurn) \/ Speaks
    <3>1. /\ claude'.left # {} => claude.left # {}
          /\ (Idle' <=> Idle) /\ (AtEnd' <=> AtEnd)
      BY <2>7 DEF LeftOneEnds, Speaks, SameTurn, Aside, Idle, AtEnd
    <3>2. QED
      BY <2>1, <2>2, <2>4, <3>1, EvidenceWhileClaudeMoves DEF Evidence, LeavingsEvident
  <2>8. CASE LeftOneEnds /\ ~SameTurn
    <3>1. Idle /\ ~AtEnd /\ claude.left # {}
      BY <2>8 DEF LeftOneEnds, TurnStarts, Orderly, AtEnd
    <3>2. QED
      BY <2>1, <2>2, <3>1, EvidenceWhileClaudeMoves DEF Evidence, LeavingsEvident
  <2>9. QED
    BY <2>1, <2>3, <2>4, <2>5, <2>6, <2>7, <2>8 DEF ClaudeMoves
<1>2. CASE ObserveTurn
  <2>1. claude' = claude /\ seen' = seen
    BY <1>2 DEF ObserveTurn
  <2>2. (Idle' <=> Idle) /\ (AtEnd' <=> AtEnd) /\ (Heard' <=> Heard)
    BY <2>1 DEF Idle, AtEnd, Heard, May
  <2>3. CASE hooks[1].kind = "submitted"
    BY <1>2, <2>3, EvidenceWhenObserved DEF LeavingsEvident, Evident, Evidence
  <2>4. CASE hooks[1].kind = "failed"
    BY <1>2, <2>4, EvidenceWhenObserved DEF LeavingsEvident, Evidence
  <2>5. CASE hooks[1].kind = "ended"
    <3>1. EndPending
      BY <1>2, <2>5 DEF ObserveTurn, EndPending, EndsTurn
    <3>2. AtEnd \/ Lag'
      BY <1>2, <2>5, <3>1, EvidenceWhenObserved DEF Evidence, LateEndLags
    <3>3. AtEnd /\ claude.left # {} => ledger'.afterStop # Clear
      BY <1>2, <2>5, <3>1, EvidenceWhenObserved DEF Evidence, StopsTellTheTruth
    <3>4. QED
      BY <2>1, <3>2, <3>3 DEF LeavingsEvident, Evident, Unsettled
  <2>6. CASE hooks[1].kind \notin {"submitted", "ended", "failed"}
    <3>1. ~EndPending
      BY <2>6 DEF EndPending, EndsTurn
    <3>2. QED
      BY <1>2, <2>1, <2>2, <2>6, <3>1, EvidenceWhenObserved DEF LeavingsEvident, Evidence
  <2>7. QED
    BY <2>3, <2>4, <2>5, <2>6
<1>3. ASSUME NEW chunk \in Chunks, WriteInput, ledger' = Counted(ledger, chunk),
             unread' = Append(unread, chunk)
      PROVE  LeavingsEvident'
  <2>1. turn' = turn /\ hooks' = hooks /\ claude' = claude /\ seen' = seen
    BY <1>3 DEF WriteInput
  <2>2. (Idle' <=> Idle) /\ (AtEnd' <=> AtEnd) /\ (Heard' <=> Heard)
    BY <2>1 DEF Idle, AtEnd, Heard, May
  <2>3. QED
    BY <1>3, <2>1, <2>2, EvidenceWhenWritten DEF Evidence, LeavingsEvident
<1>4. CASE Settles
  <2>1. seen' = "resting" /\ ~Idle => seen = "resting"
    BY <1>4 DEF Settles, ObserveStart, Draw, Shown, CheckTurn, CheckLedger, CheckScreen, LetGo
  <2>2. QED
    BY <1>4, <2>1 DEF Settles, Evidence, LeavingsEvident, Idle, AtEnd, May, Heard, EndPending,
        Lag, Unsettled, Evident
<1>5. QED
  BY <1>1, <1>2, <1>3, <1>4, HostSteps DEF Next

LEMMA DenialHooks ==
    ASSUME TypeOK, NEW k, NEW p, NEW r, HookOut(k, p, r), k \notin {"submitted", "moved_on"}
    PROVE  /\ NoAnswer => NoAnswer'
           /\ DeniedLast => DeniedLast'
           /\ Heard /\ k = "denied" => DeniedLast'
<1>0. hooks \in Seq(Hooks) /\ Len(hooks) \in Nat
  BY TypedParts
<1>1. CASE hooks' = hooks
  <2>1. ~(Heard /\ k = "denied") \/ \E h \in Hooks : h.kind = k /\ hooks' = Append(hooks, h)
    BY DEF HookOut
  <2>2. \A h \in Hooks : hooks # Append(hooks, h)
    <3>1. \A h \in Hooks : Len(Append(hooks, h)) = Len(hooks) + 1
      BY <1>0, Appended
    <3>2. QED
      BY <1>0, <3>1
  <2>3. QED
    BY <1>1, <2>1, <2>2 DEF NoAnswer, DeniedLast
<1>2. ASSUME NEW h \in Hooks, h.kind = k, hooks' = Append(hooks, h)
      PROVE  /\ NoAnswer => NoAnswer'
             /\ DeniedLast => DeniedLast'
             /\ Heard /\ k = "denied" => DeniedLast'
  <2>1. /\ Len(hooks') = Len(hooks) + 1 /\ hooks'[Len(hooks) + 1] = h /\ ~Answers(h)
        /\ \A i \in 1..Len(hooks) : hooks'[i] = hooks[i]
        /\ \A i \in 1..Len(hooks') : i \in 1..Len(hooks) \/ i = Len(hooks) + 1
    BY <1>0, <1>2, Appended DEF Answers
  <2>2. NoAnswer => NoAnswer'
    BY <2>1 DEF NoAnswer
  <2>3. ASSUME NEW i \in 1..Len(hooks), hooks[i].kind = "denied",
               \A j \in (i + 1)..Len(hooks) : ~Answers(hooks[j])
        PROVE  DeniedLast'
    <3>1. i \in 1..Len(hooks') /\ hooks'[i].kind = "denied"
      BY <1>0, <2>1, <2>3
    <3>2. ASSUME NEW j \in (i + 1)..Len(hooks') PROVE ~Answers(hooks'[j])
      <4>1. CASE j = Len(hooks) + 1
        BY <2>1, <4>1
      <4>2. CASE j # Len(hooks) + 1
        <5>1. j \in (i + 1)..Len(hooks) /\ j \in 1..Len(hooks)
          BY <1>0, <2>1, <3>2, <4>2
        <5>2. QED
          BY <2>1, <2>3, <5>1
      <4>3. QED
        BY <4>1, <4>2
    <3>3. QED
      BY <3>1, <3>2 DEF DeniedLast
  <2>4. k = "denied" => DeniedLast'
    <3>1. /\ Len(hooks') \in 1..Len(hooks') /\ hooks'[Len(hooks')] = h
          /\ \A j \in (Len(hooks') + 1)..Len(hooks') : ~Answers(hooks'[j])
      BY <1>0, <2>1
    <3>2. QED
      BY <1>2, <3>1 DEF DeniedLast
  <2>5. QED
    BY <2>2, <2>3, <2>4 DEF DeniedLast
<1>3. QED
  BY <1>1, <1>2 DEF HookOut

LEMMA DenialEvidentKept ==
    ASSUME TypeOK, Orderly, Evidence, Next
    PROVE  DenialEvident'
<1>0. claude \in Claudes /\ claude.queue \in Nat /\ DenialEvident
  BY TypedParts DEF Claudes, Evidence
<1>1. CASE ClaudeStep
  <2>1. /\ ClaudeMoves /\ turn' = turn
        /\ claude'.hooked = claude.hooked /\ claude'.manner = claude.manner
    BY <1>1, ClaudeMoving DEF ClaudeMoves, host, SameClaude
  <2>2. Heard' <=> Heard
    BY <2>1 DEF May, Heard
  <2>3. CASE claude' = claude /\ hooks' = hooks
    BY <2>1, <2>3, <1>0 DEF DenialEvident, Heard, May, Idle, AtEnd, NoAnswer, DeniedLast
  <2>4. CASE claude'.asking # "operator"
    BY <2>4 DEF DenialEvident
  <2>5. ASSUME claude'.asking = claude.asking, claude'.queue = claude.queue,
               (~AtEnd /\ ~Idle /\ DeniedLast) => (~AtEnd' /\ ~Idle' /\ DeniedLast'),
               NoAnswer => NoAnswer'
        PROVE  DenialEvident'
    BY <2>1, <2>2, <2>5, <1>0 DEF DenialEvident
  <2>6. CASE ReadsOne
    <3>1. CASE IsPrompted /\ claude'.asking = "operator"
      <4>1. claude'.queue > 0
        BY <1>0, <3>1 DEF IsPrompted, TurnStarts
      <4>2. QED
        BY <4>1 DEF DenialEvident
    <3>2. CASE IsTyped
      BY <2>5, <3>2 DEF IsTyped, SameTurn, AtEnd, Idle, NoAnswer, DeniedLast
    <3>3. CASE IsInterrupted \/ IsAnswered
      <4>1. claude'.asking = "nothing"
        BY <3>3 DEF IsInterrupted, IsAnswered, TurnOver
      <4>2. QED
        BY <2>4, <4>1
    <3>4. QED
      BY <2>3, <2>4, <2>6, <3>1, <3>2, <3>3 DEF ReadsOne, IgnoresIt
  <2>7. CASE EndsIt
    <3>1. hooks = <<>> /\ claude'.asking = claude.asking /\ claude'.queue = claude.queue
      BY <2>7 DEF EndsIt, Ending, Ready
    <3>2. Len(hooks) = 0 /\ ~DeniedLast
      BY <3>1 DEF DeniedLast
    <3>3. NoAnswer => NoAnswer'
      BY <2>7, DenialHooks DEF EndsIt
    <3>4. QED
      BY <2>5, <3>1, <3>2, <3>3
  <2>8. CASE GoesOn
    BY <2>5, <2>8 DEF GoesOn, Ready, NoAnswer
  <2>9. CASE IsOver
    <3>1. AtEnd /\ hooks' = hooks /\ (claude.queue # 0 => claude'.asking = "nothing")
          /\ (claude.queue = 0 => claude'.asking = claude.asking /\ claude'.queue = claude.queue)
      BY <2>9 DEF IsOver, TurnOver
    <3>2. NoAnswer => NoAnswer'
      BY <3>1 DEF NoAnswer
    <3>3. QED
      BY <2>4, <2>5, <3>1, <3>2
  <2>10. CASE LeavesOne \/ (LeftOneEnds /\ SameTurn /\ claude'.asking = claude.asking
                              /\ hooks' = hooks)
    BY <2>5, <2>10 DEF LeavesOne, SameTurn, AtEnd, Idle, NoAnswer, DeniedLast
  <2>11. CASE LeftOneEnds /\ TurnStarts
    BY <2>4, <2>11 DEF TurnStarts
  <2>12. CASE Speaks /\ claude'.asking = "operator"
    <3>1. HookOut("denied", claude.running, Clear) /\ ~Idle' /\ ~AtEnd'
      BY <2>12 DEF Speaks, SameTurn, Idle, AtEnd
    <3>2. QED
      BY <2>2, <3>1, DenialHooks DEF DenialEvident
  <2>13. QED
    BY <2>1, <2>4, <2>6, <2>7, <2>8, <2>9, <2>10, <2>11, <2>12 DEF ClaudeMoves, LeftOneEnds
<1>2. CASE ObserveTurn
  <2>0. /\ hooks \in Seq(Hooks) /\ hooks # <<>> /\ turn \in Turns
        /\ turn' = Applied(turn, hooks[1].kind) /\ hooks[1] \in Hooks
        /\ claude' = claude
    BY <1>2, TypedParts, EvidenceWhenObserved DEF ObserveTurn, Evidence
  <2>1. /\ Len(hooks) \in Nat \ {0} /\ Len(hooks') = Len(hooks) - 1
        /\ \A i \in 1..Len(hooks') : hooks'[i] = hooks[i + 1]
    BY <1>2, <2>0, Shortened DEF ObserveTurn
  <2>2. (Idle' <=> Idle) /\ (AtEnd' <=> AtEnd) /\ (Heard' <=> Heard)
    BY <2>0 DEF Idle, AtEnd, Heard, May
  <2>3. ASSUME turn.denial, NoAnswer PROVE turn'.denial /\ NoAnswer'
    <3>1. ~Answers(hooks[1])
      BY <2>1, <2>3 DEF NoAnswer
    <3>2. turn'.denial
      BY <2>0, <2>3, <3>1 DEF Applied, Answers, Turns, Hooks, Kinds
    <3>3. NoAnswer'
      <4>1. ASSUME NEW i \in 1..Len(hooks') PROVE ~Answers(hooks'[i])
        <5>1. i + 1 \in 1..Len(hooks) /\ hooks'[i] = hooks[i + 1]
          BY <2>1
        <5>2. QED
          BY <2>3, <5>1 DEF NoAnswer
      <4>2. QED
        BY <4>1 DEF NoAnswer
    <3>4. QED
      BY <3>2, <3>3
  <2>4. ASSUME DeniedLast PROVE DeniedLast' \/ (turn'.denial /\ NoAnswer')
    <3>1. PICK i \in 1..Len(hooks) : /\ hooks[i].kind = "denied"
                                     /\ \A j \in (i + 1)..Len(hooks) : ~Answers(hooks[j])
      BY <2>4 DEF DeniedLast
    <3>2. CASE i = 1
      <4>1. turn'.denial
        BY <2>0, <3>1, <3>2 DEF Applied, Turns
      <4>2. ASSUME NEW j \in 1..Len(hooks') PROVE ~Answers(hooks'[j])
        <5>1. j + 1 \in (i + 1)..Len(hooks) /\ hooks'[j] = hooks[j + 1]
          BY <2>1, <3>2
        <5>2. QED
          BY <3>1, <5>1
      <4>3. QED
        BY <4>1, <4>2 DEF NoAnswer
    <3>3. CASE i # 1
      <4>1. i - 1 \in 1..Len(hooks') /\ hooks'[i - 1] = hooks[i]
        BY <2>1, <3>1, <3>3
      <4>2. ASSUME NEW j \in ((i - 1) + 1)..Len(hooks') PROVE ~Answers(hooks'[j])
        <5>1. j + 1 \in (i + 1)..Len(hooks) /\ j \in 1..Len(hooks') /\ hooks'[j] = hooks[j + 1]
          BY <2>1, <3>1, <3>3
        <5>2. QED
          BY <3>1, <5>1
      <4>3. QED
        BY <3>1, <4>1, <4>2 DEF DeniedLast
    <3>4. QED
      BY <3>2, <3>3
  <2>5. QED
    BY <1>0, <2>0, <2>2, <2>3, <2>4 DEF DenialEvident
<1>3. CASE WriteInput \/ Settles
  <2>1. hooks' = hooks /\ claude' = claude /\ turn' = turn
    BY <1>3 DEF WriteInput, Settles
  <2>2. QED
    BY <1>0, <2>1 DEF DenialEvident, Heard, May, Idle, AtEnd, NoAnswer, DeniedLast
<1>4. QED
  BY <1>1, <1>2, <1>3, HostSteps DEF Next

LEMMA ReliableTurnsEvidentKept ==
    ASSUME TypeOK, Orderly, BooksKept, Evidence, Next
    PROVE  ReliableTurnsEvident'
<1>0. claude \in Claudes /\ claude.queue \in Nat /\ ledger \in Ledgers
  BY TypedParts DEF Claudes
<1>1. CASE ClaudeStep
  <2>1. /\ ClaudeMoves
        /\ claude'.hooked = claude.hooked /\ claude'.manner = claude.manner
    BY <1>1, ClaudeMoving DEF ClaudeMoves, SameClaude
  <2>2. Reliable' <=> Reliable
    BY <2>1 DEF Reliable
  <2>3. CASE ReadsOne
    <3>1. CASE claude' = claude /\ hooks' = hooks
      BY <2>1, <2>2, <3>1, EvidenceWhileClaudeMoves
      DEF Evidence, ReliableTurnsEvident, Idle, EndPending
    <3>2. QED
      BY <2>1, <2>3, <3>1, ReadsUnsettled DEF Evidence, ReliableTurnsEvident
  <2>4. CASE EndsIt \/ GoesOn
    BY <2>4 DEF EndsIt, GoesOn, Ready, ReliableTurnsEvident
  <2>5. CASE IsOver
    <3>1. hooks = <<>> /\ ~EndPending' /\ (claude.queue = 0 => Idle')
      BY <2>5 DEF IsOver, TurnOver, EndPending, Idle
    <3>2. Reliable /\ claude.queue # 0 => Unsettled
      <4>1. SUFFICES ASSUME Reliable, claude.queue # 0 PROVE Unsettled
        OBVIOUS
      <4>2. PICK s : RunOfBooks(s)
        BY DEF BooksKept
      <4>3. Len(hooks) = 0
        BY <3>1
      <4>4. SameBooks(s[1], ledger) /\ Accounts(s[1])
        BY <4>1, <4>2, <4>3 DEF RunOfBooks, LedgerRun
      <4>5. QED
        BY <1>0, <4>1, <4>4 DEF SameBooks, Accounts, Covers, Unsettled
    <3>3. QED
      BY <2>1, <2>2, <3>1, <3>2, EvidenceWhileClaudeMoves DEF ReliableTurnsEvident, Evident
  <2>6. CASE LeavesOne \/ (LeftOneEnds /\ SameTurn) \/ Speaks
    <3>1. (Idle' <=> Idle) /\ claude'.stage = claude.stage
      BY <2>6 DEF LeavesOne, LeftOneEnds, Speaks, SameTurn, Idle
    <3>2. QED
      BY <2>1, <2>2, <2>4, <3>1, EvidenceWhileClaudeMoves DEF Evidence, ReliableTurnsEvident
  <2>7. CASE LeftOneEnds /\ ~SameTurn
    <3>1. Idle /\ claude.left # {} /\ HookOut("submitted", claude.next, Clear)
          /\ ~EndPending /\ ~AtEnd
      BY <2>7 DEF LeftOneEnds, TurnStarts, EndPending, Orderly, AtEnd
    <3>2. ~EndPending'
      BY <3>1, HookOutFirst
    <3>3. Reliable => Evident
      BY <3>1, ReliableHeard DEF Evidence, LeavingsEvident
    <3>4. QED
      BY <2>1, <2>2, <3>2, <3>3, EvidenceWhileClaudeMoves DEF ReliableTurnsEvident
  <2>8. QED
    BY <2>1, <2>3, <2>4, <2>5, <2>6, <2>7 DEF ClaudeMoves
<1>2. CASE ObserveTurn
  <2>1. claude' = claude
    BY <1>2 DEF ObserveTurn
  <2>2. (Idle' <=> Idle) /\ (Reliable' <=> Reliable)
    BY <2>1 DEF Idle, Reliable
  <2>3. QED
    BY <1>2, <2>1, <2>2, EvidenceWhenObserved DEF Evidence, ReliableTurnsEvident
<1>3. ASSUME NEW chunk \in Chunks, WriteInput, ledger' = Counted(ledger, chunk),
             unread' = Append(unread, chunk)
      PROVE  ReliableTurnsEvident'
  <2>1. turn' = turn /\ hooks' = hooks /\ claude' = claude
    BY <1>3 DEF WriteInput
  <2>2. (Idle' <=> Idle) /\ (Reliable' <=> Reliable)
    BY <2>1 DEF Idle, Reliable
  <2>3. QED
    BY <1>3, <2>1, <2>2, EvidenceWhenWritten DEF Evidence, ReliableTurnsEvident
<1>4. CASE Settles
  BY <1>4 DEF Settles, Evidence, ReliableTurnsEvident, Idle, Reliable, EndPending, Lag,
      Unsettled, Evident
<1>5. QED
  BY <1>1, <1>2, <1>3, <1>4, HostSteps DEF Next

LEMMA EvidenceKept ==
    ASSUME TypeOK, Orderly, BooksKept, Evidence, Next
    PROVE  Evidence'
<1>1. EndsFirst' /\ InputUnsettles'
  BY InputUnsettlesKept DEF Evidence
<1>2. LastChunkMarks'
  BY LastChunkMarksKept DEF Evidence
<1>3. UnseenTurnsEvident' /\ LateEndLags' /\ StopsTellTheTruth'
  BY UnseenTurnsEvidentKept, LateEndLagsKept, StopsTellTheTruthKept
<1>4. LeavingsEvident' /\ DenialEvident' /\ ReliableTurnsEvident'
  BY LeavingsEvidentKept, DenialEvidentKept, ReliableTurnsEvidentKept
<1>5. QED
  BY <1>1, <1>2, <1>3, <1>4 DEF Evidence

-----------------------------------------------------------------------------
(* The checks.  What one check found still holds when the next is made.    *)

Quiet == ~May("leaves") /\ ~May("denies")

(* Nothing lands between two checks.                                       *)
Prompt == ~claude.manner.slow

ChecksHold ==
    /\ selected => claude.hooked
    /\ check # "open" => selected
    /\ check = "ledger" /\ Quiet =>
          ~Typed /\ ~claude.composer /\ (seen = "resting" => Idle)
    /\ check = "ledger" /\ Prompt => Settled(ledger)
    /\ check \in {"turn", "ledger"} /\ Prompt => turn.phase = "ended" /\ ~turn.denial
    /\ check = "admitted" /\ Sound(claude.manner) => NothingToLose

LEMMA SettledLeaves ==
    ASSUME TypeOK, InputUnsettles, LastChunkMarks, Settled(ledger)
    PROVE  ~Unsettled /\ ~Typed /\ ~claude.composer /\ ledger.afterStop = Clear
BY DEF Settled, Unsettled, Lag, InputUnsettles, LastChunkMarks

LEMMA NothingLeft ==
    ASSUME TypeOK, Orderly, Idle, ~Typed, ~claude.composer, claude.left = {},
           claude.asking # "operator"
    PROVE  NothingToLose
<1>1. claude.asking = "nothing" /\ claude.queue = 0
  BY TypedParts DEF Orderly, Claudes
<1>2. \A i \in DOMAIN unread : unread[i] = "focus"
  <2>1. DOMAIN unread = 1..Len(unread)
    BY TypedParts
  <2>2. QED
    BY <2>1 DEF Typed
<1>3. QED
  BY <1>1, <1>2 DEF NothingToLose, InputTaken

(* Once there is nothing to lose and nobody can write, nothing starts.     *)
LEMMA NothingStarts ==
    ASSUME TypeOK, Orderly, NothingToLose, ClaudeMoves
    PROVE  NothingToLose'
<1>0. /\ Idle /\ claude.queue = 0 /\ ~claude.composer /\ claude.left = {} /\ ~AtEnd
      /\ claude.asking = "nothing"
      /\ \A i \in 1..Len(unread) : unread[i] = "focus"
      /\ DOMAIN unread = 1..Len(unread) /\ unread \in Seq(Chunks)
  BY TypedParts DEF NothingToLose, InputTaken, Orderly, AtEnd
<1>1. CASE ReadsOne
  <2>1. /\ Head(unread) = "focus" /\ unread # <<>> /\ unread' = Tail(unread)
        /\ Len(unread) \in Nat /\ Len(unread') = Len(unread) - 1
        /\ \A i \in 1..Len(unread') : unread'[i] = unread[i + 1]
        /\ DOMAIN unread' = 1..Len(unread')
    BY <1>0, <1>1, ChunkRead, Shortened DEF ReadsOne
  <2>2. claude' = claude
    BY <1>1, <2>1 DEF ReadsOne, IgnoresIt, IsInterrupted, IsAnswered, IsPrompted, IsTyped
  <2>3. \A i \in DOMAIN unread' : unread'[i] = "focus"
    BY <1>0, <2>1
  <2>4. QED
    BY <1>0, <2>2, <2>3 DEF NothingToLose, InputTaken, Idle
<1>2. CASE ~ReadsOne
  BY <1>0, <1>2 DEF ClaudeMoves, EndsIt, Ending, GoesOn, IsOver, LeavesOne, LeftOneEnds, Speaks
<1>3. QED
  BY <1>1, <1>2

(* The last check: the screen is at rest, and the other two still hold.    *)
LEMMA ScreenAtRest ==
    ASSUME TypeOK, Orderly, Evidence, ChecksHold, check = "ledger", seen = "resting",
           Sound(claude.manner)
    PROVE  NothingToLose
<1>1. CASE Quiet
  <2>1. /\ Idle /\ ~Typed /\ ~claude.composer
        /\ claude.left = {} /\ claude.asking # "operator"
    BY <1>1 DEF ChecksHold, Quiet, Orderly
  <2>2. QED
    BY <2>1, NothingLeft
<1>2. CASE ~Quiet
  <2>1. Prompt /\ Heard
    BY <1>2 DEF Sound, Quiet, May, Prompt, Heard, ChecksHold
  <2>2. Settled(ledger) /\ turn.phase = "ended" /\ ~turn.denial
    BY <2>1 DEF ChecksHold
  <2>3. ~Unsettled /\ ~Typed /\ ~claude.composer /\ ~Evident
    BY <2>2, SettledLeaves DEF Evidence, Evident
  <2>4. Idle
    BY <2>1, <2>3 DEF Evidence, UnseenTurnsEvident
  <2>5. ~AtEnd /\ claude.queue = 0
    BY <2>4 DEF Orderly, AtEnd
  <2>6. claude.left = {}
    BY <2>1, <2>3, <2>4, <2>5 DEF Evidence, LeavingsEvident
  <2>7. claude.asking # "operator"
    BY <2>1, <2>2, <2>4, <2>5 DEF Evidence, DenialEvident
  <2>8. QED
    BY <2>3, <2>4, <2>6, <2>7, NothingLeft
<1>3. QED
  BY <1>1, <1>2

LEMMA ChecksHoldKept ==
    ASSUME TypeOK, Orderly, Evidence, ChecksHold, Next
    PROVE  ChecksHold'
<1>1. CASE ClaudeStep
  <2>1. /\ ClaudeMoves /\ UNCHANGED <<turn, ledger, selected, seen, check>>
        /\ claude'.hooked = claude.hooked /\ claude'.manner = claude.manner
    BY <1>1, ClaudeMoving DEF ClaudeMoves, SameClaude, host
  <2>2. (Quiet' <=> Quiet) /\ (Prompt' <=> Prompt)
    BY <2>1 DEF Quiet, Prompt, May
  <2>3. check = "admitted" /\ Sound(claude.manner) => NothingToLose'
    BY <2>1, NothingStarts DEF ChecksHold
  <2>4. ASSUME check = "ledger", Quiet
        PROVE  ~Typed' /\ ~claude'.composer /\ (seen = "resting" => Idle')
    <3>1. ~Typed /\ ~claude.composer /\ (seen = "resting" => Idle) /\ claude.left = {}
      BY <2>4 DEF ChecksHold, Quiet, Orderly
    <3>2. CASE ReadsOne
      <4>1. Head(unread) = "focus" /\ ~Typed'
        BY <3>1, <3>2, ChunkRead DEF ReadsOne
      <4>2. claude' = claude
        BY <3>2, <4>1
        DEF ReadsOne, IgnoresIt, IsInterrupted, IsAnswered, IsPrompted, IsTyped
      <4>3. QED
        BY <3>1, <4>1, <4>2 DEF Idle
    <3>3. CASE ~ReadsOne
      <4>1. unread' = unread /\ claude'.composer = claude.composer
        BY <2>1, <3>3 DEF ClaudeMoves, EndsIt, GoesOn, IsOver, LeavesOne, LeftOneEnds, Speaks,
            Ready, TurnOver, Aside
      <4>2. ~Idle
        BY <2>1, <3>1, <3>3 DEF ClaudeMoves, EndsIt, Ending, GoesOn, IsOver, LeavesOne,
            LeftOneEnds, Speaks, Orderly, AtEnd
      <4>3. QED
        BY <3>1, <4>1, <4>2 DEF Typed
    <3>4. QED
      BY <3>2, <3>3
  <2>5. QED
    BY <2>1, <2>2, <2>3, <2>4 DEF ChecksHold
<1>2. CASE ObserveTurn
  <2>1. /\ UNCHANGED <<selected, seen, check, claude, unread>>
        /\ Prompt => check \in {"open", "admitted"}
    BY <1>2 DEF ObserveTurn, Undisturbed, Prompt
  <2>2. QED
    BY <2>1 DEF ChecksHold, Quiet, Prompt, May, Typed, Idle, NothingToLose, InputTaken
<1>3. CASE WriteInput
  <2>1. check' = "open" /\ selected' = selected /\ claude' = claude
    BY <1>3 DEF WriteInput
  <2>2. QED
    BY <2>1 DEF ChecksHold
<1>4. CASE Settles
  <2>0. UNCHANGED <<turn, ledger, claude, unread, hooks>>
    BY <1>4 DEF Settles
  <2>1. /\ (Quiet' <=> Quiet) /\ (Prompt' <=> Prompt) /\ (Idle' <=> Idle)
        /\ (Typed' <=> Typed) /\ (NothingToLose' <=> NothingToLose)
    BY <2>0 DEF Quiet, Prompt, May, Idle, Typed, NothingToLose, InputTaken
  <2>2. CASE ObserveStart
    BY <2>0, <2>1, <2>2 DEF ObserveStart, ChecksHold
  <2>3. CASE Draw
    <3>1. seen' = "resting" => Idle
      BY <2>3 DEF Draw, Shown
    <3>2. QED
      BY <2>0, <2>1, <2>3, <3>1 DEF Draw, ChecksHold
  <2>4. CASE CheckTurn
    BY <2>0, <2>1, <2>4 DEF CheckTurn, ChecksHold
  <2>5. CASE CheckLedger
    <3>1. ASSUME Settled(ledger), Quiet
          PROVE  ~Typed /\ ~claude.composer /\ (seen = "resting" => Idle)
      BY <3>1, SettledLeaves DEF Evidence, UnseenTurnsEvident, Quiet
    <3>2. QED
      BY <2>0, <2>1, <2>5, <3>1 DEF CheckLedger, ChecksHold
  <2>6. CASE CheckScreen
    BY <2>0, <2>1, <2>6, ScreenAtRest DEF CheckScreen, ChecksHold
  <2>7. CASE LetGo
    BY <2>0, <2>1, <2>7 DEF LetGo, ChecksHold
  <2>8. QED
    BY <1>4, <2>2, <2>3, <2>4, <2>5, <2>6, <2>7 DEF Settles
<1>5. QED
  BY <1>1, <1>2, <1>3, <1>4, HostSteps DEF Next

-----------------------------------------------------------------------------
LedgerInv == TypeOK /\ Orderly /\ BooksKept /\ Evidence /\ ChecksHold

LEMMA LedgerInvStarts ==
    ASSUME Init
    PROVE  LedgerInv
<1>0. /\ turn = IdleTurn /\ ledger = EmptyLedger /\ selected = FALSE
      /\ seen = "resting" /\ check = "open" /\ unread = <<>> /\ hooks = <<>>
      /\ claude \in [hooked : BOOLEAN, manner : Manners,
                     running : {NoPrompt}, stage : {"running"},
                     queue : {0}, composer : {FALSE}, asking : {"nothing"},
                     left : {{}}, next : {1}]
      /\ Clear \in Reports
      /\ MaxPrompts \in Nat /\ MaxWrites \in Nat /\ MaxInFlight \in Nat
  BY LedgerAssumption DEF Init, Clear, Reports, Amounts
<1>1. /\ claude \in Claudes /\ Idle /\ claude.queue = 0 /\ claude.next = 1
      /\ claude.stage = "running" /\ ~claude.composer /\ claude.asking = "nothing"
      /\ claude.left = {}
  <2>1. 0 \in 0..MaxPrompts /\ 1 \in 1..(MaxPrompts + 1) /\ {} \in SUBSET Leavings
    BY <1>0
  <2>2. claude \in Claudes
    BY <1>0, <2>1 DEF Claudes
  <2>3. QED
    BY <1>0, <2>2 DEF Claudes, Idle
<1>2. /\ ledger \in Ledgers /\ ledger.queued = 0 /\ ledger.open = NoPrompt
      /\ ledger.lastClosed = NoPrompt /\ ledger.writes = 0
      /\ ledger.writesAtSubmit = 0 /\ ~ledger.unaccounted
  BY <1>0 DEF EmptyLedger, Ledgers
<1>3. TypeOK
  <2>1. ledger \in [open : Prompts \union {NoPrompt},
                   lastClosed : Prompts \union {NoPrompt},
                   queued : 0..MaxPrompts, unaccounted : BOOLEAN,
                   writes : 0..MaxWrites, writesAtSubmit : 0..ledger.writes,
                   halfTyped : BOOLEAN, afterStop : Reports]
    BY <1>0, <1>2 DEF EmptyLedger
  <2>2. /\ unread \in Seq(Chunks) /\ Len(unread) = 0
        /\ hooks \in Seq(Hooks) /\ Len(hooks) = 0
    BY <1>0
  <2>3. QED
    <3>1. turn \in [phase : {"working", "ended", "failed"},
                   waiting : BOOLEAN, denial : BOOLEAN]
      BY <1>0 DEF IdleTurn
    <3>2. /\ selected \in BOOLEAN /\ seen \in {"resting", "active", "asking"}
          /\ check \in {"open", "turn", "ledger", "admitted"}
          /\ Len(unread) <= MaxInFlight /\ Len(hooks) <= MaxInFlight
      <4>1. selected \in BOOLEAN
        BY <1>0, Zenon
      <4>2. seen \in {"resting", "active", "asking"} /\ check \in {"open", "turn", "ledger", "admitted"}
        BY <1>0, Zenon
      <4>3. Len(unread) <= MaxInFlight /\ Len(hooks) <= MaxInFlight
        BY <1>0
      <4>4. QED
        BY <4>1, <4>2, <4>3
    <3>3. claude \in [hooked : BOOLEAN, manner : Manners,
                   running : Prompts \union {NoPrompt},
                   stage : {"running", "stopping", "failing", "continuing"},
                   queue : 0..MaxPrompts, composer : BOOLEAN,
                   asking : {"nothing", "question", "operator"},
                   left : SUBSET Leavings, next : 1..(MaxPrompts + 1)]
      BY <1>1 DEF Claudes
    <3>4. QED
      BY <2>1, <2>2, <3>1, <3>2, <3>3, Zenon DEF TypeOK
<1>4. Orderly
  BY <1>0, <1>1 DEF Orderly, AtEnd
<1>5. BooksKept
  <2>1. PICK s : s = [i \in 1..1 |-> ledger]
    OBVIOUS
  <2>2. Len(hooks) = 0
    BY <1>0
  <2>3. LedgerRun(s) /\ s[1] = ledger
    BY <1>2, <2>1, <2>2 DEF LedgerRun, SameBooks
  <2>4. Bounded(s)
    BY <1>1, <1>2, <2>2, <2>3 DEF Bounded
  <2>5. Accounts(ledger) /\ AccountsAtEnd(s)
    BY <1>1, <1>2 DEF Accounts, Past, Covers, AccountsAtEnd
  <2>6. RunOfBooks(s)
    BY <2>2, <2>3, <2>4, <2>5 DEF RunOfBooks
  <2>7. QED
    BY <2>6 DEF BooksKept
<1>6. Evidence
  <2>1. ~Typed /\ ~EndPending /\ Len(hooks) = 0 /\ Len(unread) = 0
    BY <1>0 DEF Typed, EndPending
  <2>2. EndsFirst /\ InputUnsettles /\ LastChunkMarks
    BY <1>1, <2>1 DEF EndsFirst, InputUnsettles, LastChunkMarks
  <2>3. QED
    BY <1>1, <2>1, <2>2 DEF Evidence, UnseenTurnsEvident, LateEndLags, StopsTellTheTruth,
        LeavingsEvident, DenialEvident, ReliableTurnsEvident
<1>7. ChecksHold
  BY <1>0 DEF ChecksHold
<1>8. QED
  BY <1>3, <1>4, <1>5, <1>6, <1>7 DEF LedgerInv

(* The ledger, the hooks under way and the screen never lose sight of what *)
(* Claude still has to do, whatever the order of hooks, writes, redraws    *)
(* and checks.                                                             *)
THEOREM LedgerInvariant == Spec => []LedgerInv
<1>1. Init => LedgerInv
  BY LedgerInvStarts
<1>2. LedgerInv /\ [Next]_vars => LedgerInv'
  <2>1. SUFFICES ASSUME LedgerInv, [Next]_vars PROVE LedgerInv'
    OBVIOUS
  <2>2. CASE Next
    BY <2>1, <2>2, TypesKept, OrderlyKept, EvidenceKept, ChecksHoldKept DEF LedgerInv
  <2>3. CASE UNCHANGED vars
    <3>1. UNCHANGED <<turn, ledger, selected, seen, check, claude, unread, hooks>>
      BY <2>3 DEF vars
    <3>2. TypeOK' /\ Orderly' /\ ChecksHold'
      BY <2>1, <3>1 DEF LedgerInv, TypeOK, Orderly, ChecksHold, Idle, AtEnd, May, Quiet, Prompt,
          Typed, NothingToLose, InputTaken
    <3>3. BooksKept'
      BY <2>1, <3>1 DEF LedgerInv, BooksKept, RunOfBooks, LedgerRun, Bounded, Accounts,
          AccountsAtEnd, Covers, Past, Reliable, Idle
    <3>4. Evidence'
      BY <2>1, <3>1 DEF LedgerInv, Evidence, EndsFirst, InputUnsettles, LastChunkMarks,
          UnseenTurnsEvident, LateEndLags, StopsTellTheTruth, LeavingsEvident, DenialEvident,
          ReliableTurnsEvident, EndPending, Lag, Unsettled, Evident, Typed, Heard, May, Idle,
          AtEnd, NoAnswer, DeniedLast, Reliable
    <3>5. QED
      BY <3>2, <3>3, <3>4 DEF LedgerInv
  <2>4. QED
    BY <2>1, <2>2, <2>3
<1>3. QED
  BY <1>1, <1>2, PTL DEF Spec

(* Every variable keeps its type; the queue count never falls below zero   *)
(* nor exceeds the prompts taken (TurnLedger::queued), and the submit mark *)
(* never runs ahead of the writes.                                         *)
THEOREM LedgerTypes == Spec => []TypeOK
<1>1. LedgerInv => TypeOK
  BY DEF LedgerInv
<1>2. QED
  BY <1>1, LedgerInvariant, PTL

(* A session whose checks all passed has nothing to lose, whatever a sound *)
(* Claude does (Session::maintenance_settled).                             *)
THEOREM SoundAdmissionLosesNothing == Spec => []AdmissionLosesNothing
<1>1. LedgerInv => AdmissionLosesNothing
  BY DEF LedgerInv, ChecksHold, AdmissionLosesNothing
<1>2. QED
  BY <1>1, LedgerInvariant, PTL

(* With hooks installed, in time and with their ids, a settled ledger has  *)
(* accounted for every message (TurnLedger::settled).                      *)
THEOREM SettledLedgerAccounts == Spec => []LedgerAccounts
<1>1. ASSUME LedgerInv PROVE LedgerAccounts
  <2>1. SUFFICES ASSUME Reliable, turn.phase = "ended", Settled(ledger)
                 PROVE  InputTaken /\ (Idle \/ claude.stage # "running")
    BY DEF LedgerAccounts
  <2>2. /\ ~Unsettled /\ ~Typed /\ ~claude.composer /\ ~Evident
    BY <1>1, <2>1, SettledLeaves DEF LedgerInv, Evidence, Evident
  <2>3. Idle \/ claude.stage # "running"
    BY <1>1, <2>1, <2>2 DEF LedgerInv, Evidence, ReliableTurnsEvident
  <2>4. claude.queue = 0
    <3>1. CASE Idle
      BY <1>1, <3>1 DEF LedgerInv, Orderly
    <3>2. CASE claude.stage # "running"
      <4>1. PICK s : RunOfBooks(s)
        BY <1>1 DEF LedgerInv, BooksKept
      <4>2. claude.queue \in Nat /\ Len(hooks) \in Nat
        BY <1>1, TypedParts DEF LedgerInv, Claudes
      <4>3. 1 \in 1..(Len(hooks) + 1)
        BY <4>2
      <4>4. /\ s[1].unaccounted \/ s[1].queued >= claude.queue
            /\ SameBooks(s[1], ledger)
        BY <2>1, <3>2, <4>1, <4>3 DEF RunOfBooks, AccountsAtEnd, LedgerRun
      <4>5. QED
        BY <2>1, <4>2, <4>4 DEF SameBooks, Settled
    <3>3. QED
      BY <2>3, <3>1, <3>2
  <2>5. \A i \in DOMAIN unread : unread[i] = "focus"
    <3>1. DOMAIN unread = 1..Len(unread)
      BY <1>1, TypedParts DEF LedgerInv
    <3>2. QED
      BY <2>2, <3>1 DEF Typed
  <2>6. QED
    BY <2>2, <2>3, <2>4, <2>5 DEF InputTaken
<1>2. QED
  BY <1>1, LedgerInvariant, PTL
=============================================================================
