------------------------------ MODULE TurnLedger ------------------------------
(***************************************************************************)
(* Whether stopping a Claude session unattended can lose work.             *)
(*                                                                         *)
(* The host sees a session only through three channels: the turn hooks     *)
(* Claude sends (turn_ledger.rs, provider_turn.rs), the writes made to its *)
(* terminal, and what its screen shows.  Session::maintenance_settled      *)
(* (process.rs) reads the three under three locks, one after the other,    *)
(* while the session's control guard keeps writers out.                    *)
(*                                                                         *)
(* Claude is external.  Its actions are the behaviour the source says was  *)
(* measured (turn_ledger.rs:8-19, ADR 0156) and nothing more; Manners name *)
(* what it may do in an instance.  The hooks are command hooks             *)
(* (provider_settings.rs): Claude waits for each, so a turn goes no further *)
(* than its next step before the hook is observed, or lost.  Two facts     *)
(* about speed are assumed: a turn does not fire its Stop before it has    *)
(* read the input already written and before its footer has been drawn.    *)
(***************************************************************************)
EXTENDS Naturals, Sequences

CONSTANTS
    NoPrompt,       \* no prompt id
    Chunks,         \* the kinds of write clients make
    Manners,        \* what Claude may do in each behaviour of this instance
    MaxPrompts,     \* bound: prompts with an id of their own
    MaxWrites,      \* bound: writes counted
    MaxInFlight     \* bound: hooks, and writes, under way

AllChunks == {"text", "line", "enter", "esc", "focus"}
AllHabits == {"fails", "asks", "denies", "leaves", "unnamed", "loses", "typed_late"}

ASSUME LedgerAssumption ==
    /\ MaxPrompts \in Nat /\ MaxWrites \in Nat /\ MaxInFlight \in Nat
    /\ NoPrompt \notin Nat
    /\ Chunks \subseteq AllChunks
    /\ Manners \subseteq [habits : SUBSET AllHabits, slow : BOOLEAN]

VARIABLES
    turn,       \* ProviderTurn: what the hooks say of the latest turn
    ledger,     \* TurnLedger: what maintenance may believe
    selected,   \* the lifecycle gate has seen startup evidence
    seen,       \* how the screen reads
    check,      \* how far maintenance has checked, holding the control guard
    claude,     \* Claude itself
    unread,     \* writes in the terminal that Claude has not read
    hooks       \* hooks fired and not yet observed

host == <<turn, ledger, selected, seen, check>>
vars == <<turn, ledger, selected, seen, check, claude, unread, hooks>>

Prompts == 1..MaxPrompts
Leavings == {"background", "scheduled"}
Amounts == {"none", "some", "unknown"}

(* What a Stop says it left running and scheduled (AfterStop).             *)
Reports == [background : Amounts, scheduled : Amounts]
Clear == [background |-> "none", scheduled |-> "none"]
Unknown == [background |-> "unknown", scheduled |-> "unknown"]
Truth(left) == [background |-> IF "background" \in left THEN "some" ELSE "none",
                scheduled |-> IF "scheduled" \in left THEN "some" ELSE "none"]

Kinds == {"submitted", "ended", "failed", "question", "resolved",
          "denied", "moved_on"}
Hooks == [kind : Kinds, prompt : Prompts \union {NoPrompt}, report : Reports]

-----------------------------------------------------------------------------
(* The ledger's bookkeeping.                                               *)

EmptyLedger ==
    [open |-> NoPrompt, lastClosed |-> NoPrompt, queued |-> 0,
     unaccounted |-> FALSE, writes |-> 0, writesAtSubmit |-> 0,
     halfTyped |-> FALSE, afterStop |-> Clear]

Lost(l) == [l EXCEPT !.unaccounted = TRUE]

Closed(l, prompt) == [l EXCEPT !.open = NoPrompt, !.lastClosed = prompt]

\* Mistake: a message typed mid-turn is taken for a fresh prompt.
SubmittedUnqueued(l, prompt) ==
    IF prompt = NoPrompt THEN Lost(l)
    ELSE [l EXCEPT !.writesAtSubmit = l.writes, !.open = prompt]

(* A submit under the open id was typed mid-turn and will run later; a     *)
(* fresh id closes an interrupted turn, unless a queued one may hide it.   *)
Submitted(l, prompt) ==
    LET taken == [l EXCEPT !.writesAtSubmit = l.writes]
    IN  CASE prompt = NoPrompt -> Lost(taken)
          [] prompt # NoPrompt /\ l.open = prompt -> [taken EXCEPT !.queued = @ + 1]
          [] prompt # NoPrompt /\ l.open # prompt /\ l.queued = 0 ->
                [taken EXCEPT !.open = prompt]
          [] OTHER -> Lost(taken)

\* Mistake: a Stop nobody submitted still counts a queued turn off.
EndedUnasked(l, prompt, report) ==
    [l EXCEPT !.afterStop = report, !.open = NoPrompt, !.lastClosed = prompt,
              !.queued = IF l.open = prompt THEN @ ELSE @ - 1]

(* A Stop closes the open turn, repeats the last one closed, or ends a     *)
(* queued turn whose id no submit named.                                   *)
Ended(l, prompt, report) ==
    LET told == [l EXCEPT !.afterStop = report]
    IN  CASE prompt = NoPrompt -> Lost(told)
          [] prompt # NoPrompt /\ l.open = prompt -> Closed(told, prompt)
          [] prompt # NoPrompt /\ l.open # prompt /\ l.lastClosed = prompt -> told
          [] prompt \notin {NoPrompt, l.open, l.lastClosed} /\ l.queued > 0 ->
                [told EXCEPT !.queued = @ - 1, !.lastClosed = prompt]
          [] OTHER -> Lost(told)

Failed(l, prompt) ==
    IF prompt # NoPrompt /\ l.open = prompt THEN Closed(l, prompt) ELSE l

(* One report applied to the ledger.                                       *)
Observed(l, hook) ==
    CASE hook.kind = "submitted" -> Submitted(l, hook.prompt)
      [] hook.kind = "ended" -> Ended(l, hook.prompt, hook.report)
      [] hook.kind = "failed" -> Failed(l, hook.prompt)
      [] OTHER -> l

\* Mistake: the submit mark is kept, but what was half typed is forgotten.
CountedWhole(l, chunk) ==
    IF chunk \in {"focus", "text"} THEN l
    ELSE [l EXCEPT !.writes = @ + 1, !.halfTyped = chunk = "esc"]

(* A write is counted before it is attempted; a focus report is not one.   *)
Counted(l, chunk) ==
    IF chunk = "focus" THEN l
    ELSE [l EXCEPT !.writes = @ + 1, !.halfTyped = chunk \notin {"line", "enter"}]

Settled(l) ==
    /\ ~l.unaccounted
    /\ l.open = NoPrompt
    /\ l.queued = 0
    /\ ~l.halfTyped
    /\ l.writes = l.writesAtSubmit
    /\ l.afterStop = Clear

-----------------------------------------------------------------------------
(* The reported turn (ProviderTurn::apply).                                *)

IdleTurn == [phase |-> "ended", waiting |-> FALSE, denial |-> FALSE]

Applied(t, kind) ==
    CASE kind = "submitted" ->
            [phase |-> "working",
             waiting |-> t.phase = "working" /\ t.waiting,
             denial |-> t.phase = "working" /\ t.denial]
      [] kind = "ended" -> [t EXCEPT !.phase = "ended", !.waiting = FALSE]
      [] kind = "failed" -> [t EXCEPT !.phase = "failed", !.waiting = FALSE]
      [] kind = "question" -> [t EXCEPT !.waiting = TRUE]
      [] kind = "resolved" -> [t EXCEPT !.waiting = FALSE]
      [] kind = "denied" -> [t EXCEPT !.denial = TRUE]
      [] kind = "moved_on" -> [t EXCEPT !.waiting = FALSE, !.denial = FALSE]

-----------------------------------------------------------------------------
(* Claude.                                                                 *)

Idle == claude.running = NoPrompt

(* What its screen shows: the footer stays up until the hooks that end a   *)
(* turn have returned.                                                     *)
Shown ==
    IF claude.asking = "question" THEN "asking"
    ELSE IF Idle THEN "resting" ELSE "active"

(* Its Stop or failure hook is out, and the turn is over but for that.     *)
AtEnd == claude.stage \in {"stopping", "failing"}

(* A turn about to end: its hooks have returned, its input is read and its *)
(* footer drawn.                                                           *)
Ending ==
    /\ ~Idle /\ ~AtEnd /\ claude.asking # "question"
    /\ hooks = <<>> /\ unread = <<>> /\ seen = "active"

May(habit) == habit \in claude.manner.habits

(* Hooks reach the host in order; one may carry no id, or be lost.         *)
Fires(kind, prompt, report) ==
    LET sent(p) == Append(hooks, [kind |-> kind, prompt |-> p, report |-> report])
    IN  /\ Len(hooks) < MaxInFlight
        /\ IF ~claude.hooked THEN hooks' = hooks
           ELSE \/ hooks' = sent(prompt)
                \/ May("unnamed") /\ hooks' = sent(NoPrompt)
                \/ May("loses") /\ hooks' = hooks

(* Claude, its turn over: a queued message runs at once under a new id     *)
(* that no submit names.                                                   *)
AfterTurn(c) ==
    IF c.queue = 0
    THEN [c EXCEPT !.running = NoPrompt, !.stage = "running"]
    ELSE [c EXCEPT !.running = c.next, !.stage = "running",
                   !.queue = @ - 1, !.next = @ + 1, !.asking = "nothing"]

(* A prompt is taken: a turn of its own when idle, otherwise queued and    *)
(* reported under the running prompt's id.                                 *)
TakesPrompt ==
    IF Idle
    THEN /\ claude.next \in Prompts
         /\ claude' = [claude EXCEPT !.running = claude.next, !.next = @ + 1,
                                     !.composer = FALSE, !.asking = "nothing"]
         /\ Fires("submitted", claude.next, Clear)
    ELSE /\ claude.next + claude.queue \in Prompts
         /\ claude' = [claude EXCEPT !.queue = @ + 1, !.composer = FALSE]
         /\ Fires("submitted", claude.running, Clear)

(* A question takes the keys typed at it, and Enter answers it.            *)
TakesAnswer ==
    /\ claude' = [claude EXCEPT !.asking = "nothing"]
    /\ Fires("resolved", claude.running, Clear)

(* Esc ends the running turn without a hook.                               *)
Interrupted ==
    /\ claude' = IF Idle THEN claude
                 ELSE AfterTurn([claude EXCEPT !.asking = "nothing"])
    /\ UNCHANGED hooks

Reads ==
    /\ unread # <<>>
    /\ unread' = Tail(unread)
    /\ LET chunk == Head(unread)
       IN  \/ /\ chunk = "esc" /\ Interrupted
           \/ /\ chunk # "esc" /\ claude.asking = "question"
              /\ IF chunk = "enter" THEN TakesAnswer ELSE UNCHANGED <<claude, hooks>>
           \/ /\ claude.asking # "question"
              /\ chunk = "line" \/ (chunk = "enter" /\ claude.composer)
              /\ TakesPrompt
           \/ /\ claude.asking # "question" /\ chunk = "text"
              /\ claude' = [claude EXCEPT !.composer = TRUE]
              /\ UNCHANGED hooks
           \/ /\ claude.asking # "question"
              /\ chunk = "focus" \/ (chunk = "enter" /\ ~claude.composer)
              /\ UNCHANGED <<claude, hooks>>
    /\ UNCHANGED host

(* The Stop hook fires while the turn is still on the screen.              *)
Stops ==
    /\ Ending
    /\ claude' = [claude EXCEPT !.stage = "stopping"]
    /\ \E report \in {Truth(claude.left), Unknown} :
          Fires("ended", claude.running, report)
    /\ UNCHANGED <<host, unread>>

(* A Stop hook continues the turn: a second Stop under the same id.        *)
Continues ==
    /\ claude.stage = "stopping" /\ hooks = <<>>
    /\ claude' = [claude EXCEPT !.stage = "continuing"]
    /\ UNCHANGED <<host, unread, hooks>>

Finishes ==
    /\ AtEnd /\ hooks = <<>>
    /\ claude' = AfterTurn(claude)
    /\ UNCHANGED <<host, unread, hooks>>

(* The turn dies on an API error.                                          *)
Fails ==
    /\ May("fails")
    /\ Ending
    /\ claude' = [claude EXCEPT !.stage = "failing"]
    /\ Fires("failed", claude.running, Clear)
    /\ UNCHANGED <<host, unread>>

(* A turn starts something that outlives it.                               *)
Leaves ==
    /\ May("leaves")
    /\ ~Idle /\ ~AtEnd
    /\ \E kind \in Leavings \ claude.left :
          claude' = [claude EXCEPT !.left = @ \union {kind}]
    /\ UNCHANGED <<host, unread, hooks>>

(* What a turn left behind ends, and may start a prompt of Claude's own.   *)
LeftEnds ==
    /\ \E kind \in claude.left :
          \/ /\ claude' = [claude EXCEPT !.left = @ \ {kind}]
             /\ UNCHANGED hooks
          \/ /\ Idle /\ hooks = <<>> /\ claude.next \in Prompts
             /\ claude' = [claude EXCEPT !.left = @ \ {kind}, !.asking = "nothing",
                              !.running = claude.next, !.next = @ + 1]
             /\ Fires("submitted", claude.next, Clear)
    /\ UNCHANGED <<host, unread>>

(* A question dialog opens over an empty composer.                         *)
Asks ==
    /\ May("asks")
    /\ ~Idle /\ ~AtEnd /\ claude.asking = "nothing"
    /\ ~claude.composer
    /\ claude' = [claude EXCEPT !.asking = "question"]
    /\ Fires("question", claude.running, Clear)
    /\ UNCHANGED <<host, unread>>

(* Auto mode refuses a tool call; Claude moves on, or stops on it.         *)
Denied ==
    /\ May("denies")
    /\ ~Idle /\ ~AtEnd
    /\ \/ /\ claude.asking = "nothing"
          /\ claude' = [claude EXCEPT !.asking = "operator"]
          /\ Fires("denied", claude.running, Clear)
       \/ /\ claude.asking = "operator"
          /\ claude' = [claude EXCEPT !.asking = "nothing"]
          /\ Fires("moved_on", claude.running, Clear)
    /\ UNCHANGED <<host, unread>>

-----------------------------------------------------------------------------
(* The host.                                                               *)

(* Hooks and redraws land between two checks only where they are slow.     *)
Undisturbed == claude.manner.slow \/ check \in {"open", "admitted"}

(* SessionStart evidence selects the conversation; only installed hooks    *)
(* produce it.                                                             *)
ObserveStart ==
    /\ claude.hooked /\ ~selected
    /\ selected' = TRUE
    /\ UNCHANGED <<turn, ledger, seen, check, claude, unread, hooks>>

(* One turn hook is observed; startup evidence is not needed for it.       *)
ObserveTurn ==
    /\ hooks # <<>> /\ Undisturbed
    /\ turn' = Applied(turn, Head(hooks).kind)
    /\ ledger' = Observed(ledger, Head(hooks))
    /\ hooks' = Tail(hooks)
    /\ UNCHANGED <<selected, seen, check, claude, unread>>

(* Someone writes to the terminal.  While maintenance holds the control    *)
(* guard nobody can; typed_late allows writing beside a Stop hook.         *)
WriteInput ==
    /\ check = "open"
    /\ ledger.writes < MaxWrites /\ Len(unread) < MaxInFlight
    /\ claude.stage = "running" \/ May("typed_late")
    /\ \E chunk \in Chunks :
          /\ ledger' = Counted(ledger, chunk)
          /\ unread' = Append(unread, chunk)
    /\ UNCHANGED <<turn, selected, seen, check, claude, hooks>>

(* The reader brings the screen the host classifies up to date.            *)
Draw ==
    /\ seen # Shown /\ Undisturbed
    /\ seen' = Shown
    /\ UNCHANGED <<turn, ledger, selected, check, claude, unread, hooks>>

(* The four checks of maintenance_settled, each under a lock of its own.   *)
CheckTurn ==
    /\ check = "open" /\ selected
    /\ turn.phase = "ended" /\ ~turn.waiting /\ ~turn.denial
    /\ check' = "turn"
    /\ UNCHANGED <<turn, ledger, selected, seen, claude, unread, hooks>>

CheckLedger ==
    /\ check = "turn"
    /\ check' = IF Settled(ledger) THEN "ledger" ELSE "open"
    /\ UNCHANGED <<turn, ledger, selected, seen, claude, unread, hooks>>

\* Mistake: the screen is trusted to be at rest.
CheckScreenBlind ==
    /\ check = "ledger"
    /\ check' = "admitted"
    /\ UNCHANGED <<turn, ledger, selected, seen, claude, unread, hooks>>

CheckScreen ==
    /\ check = "ledger"
    /\ check' = IF seen = "resting" THEN "admitted" ELSE "open"
    /\ UNCHANGED <<turn, ledger, selected, seen, claude, unread, hooks>>

(* Another session of the set refuses: this one is let go of.              *)
LetGo ==
    /\ check = "admitted"
    /\ check' = "open"
    /\ UNCHANGED <<turn, ledger, selected, seen, claude, unread, hooks>>

-----------------------------------------------------------------------------
Init ==
    /\ turn = IdleTurn /\ ledger = EmptyLedger /\ selected = FALSE
    /\ seen = "resting" /\ check = "open"
    /\ claude \in [hooked : BOOLEAN, manner : Manners,
                   running : {NoPrompt}, stage : {"running"},
                   queue : {0}, composer : {FALSE}, asking : {"nothing"},
                   left : {{}}, next : {1}]
    /\ unread = <<>> /\ hooks = <<>>

ClaudeStep ==
    \/ Reads \/ Stops \/ Continues \/ Finishes \/ Fails
    \/ Leaves \/ LeftEnds \/ Asks \/ Denied

HostStep ==
    \/ ObserveStart \/ ObserveTurn \/ WriteInput \/ Draw
    \/ CheckTurn \/ CheckLedger \/ CheckScreen \/ LetGo

Next == ClaudeStep \/ HostStep

Spec == Init /\ [][Next]_vars

-----------------------------------------------------------------------------
(* Every variable keeps its type: the ledger's queue count never falls     *)
(* below zero and its submit mark never runs ahead of its writes.          *)
TypeOK ==
    /\ turn \in [phase : {"working", "ended", "failed"},
                 waiting : BOOLEAN, denial : BOOLEAN]
    /\ ledger \in [open : Prompts \union {NoPrompt},
                   lastClosed : Prompts \union {NoPrompt},
                   queued : 0..MaxPrompts, unaccounted : BOOLEAN,
                   writes : 0..MaxWrites, writesAtSubmit : 0..ledger.writes,
                   halfTyped : BOOLEAN, afterStop : Reports]
    /\ selected \in BOOLEAN
    /\ seen \in {"resting", "active", "asking"}
    /\ check \in {"open", "turn", "ledger", "admitted"}
    /\ claude \in [hooked : BOOLEAN, manner : Manners,
                   running : Prompts \union {NoPrompt},
                   stage : {"running", "stopping", "failing", "continuing"},
                   queue : 0..MaxPrompts, composer : BOOLEAN,
                   asking : {"nothing", "question", "operator"},
                   left : SUBSET Leavings, next : 1..(MaxPrompts + 1)]
    /\ unread \in Seq(Chunks) /\ Len(unread) <= MaxInFlight
    /\ hooks \in Seq(Hooks) /\ Len(hooks) <= MaxInFlight

(* Every message typed or written has been taken.                          *)
InputTaken ==
    /\ claude.queue = 0 /\ ~claude.composer
    /\ \A i \in DOMAIN unread : unread[i] = "focus"

(* What a stop would lose.                                                 *)
NothingToLose ==
    Idle /\ InputTaken /\ claude.left = {} /\ claude.asking = "nothing"

(* The restriction of AdmissionLosesNothing: where Claude may leave work   *)
(* behind or be denied, no hook is lost and none lands between two checks. *)
Sound(m) ==
    \/ m.habits \intersect {"leaves", "denies"} = {}
    \/ ~m.slow /\ "loses" \notin m.habits

(* A session whose checks all passed has no turn running or queued, no     *)
(* input unread or typed and unsent, nothing in the background or          *)
(* scheduled, and nobody to answer: maintenance may stop it and lose       *)
(* nothing, although hooks, screen and checks interleave                   *)
(* (Session::maintenance_settled), with a Claude that is Sound.            *)
AdmissionLosesNothing ==
    check = "admitted" /\ Sound(claude.manner) => NothingToLose

(* "Whether stopping this session now can lose nothing" (process.rs:806),  *)
(* of every Claude: what the code does does not keep it.                   *)
AdmittedLosesNothing == check = "admitted" => NothingToLose

(* With hooks installed, in time and with an id, a settled ledger after a  *)
(* turn that did not fail has accounted for every message: none queued,    *)
(* none unread or half typed, and no turn running but one a Stop hook      *)
(* holds or continues (TurnLedger::settled).                               *)
Reliable == claude.hooked /\ claude.manner.habits \intersect {"unnamed", "loses", "typed_late"} = {}
LedgerAccounts ==
    (Reliable /\ turn.phase = "ended" /\ Settled(ledger)) =>
        /\ InputTaken
        /\ Idle \/ claude.stage # "running"
=============================================================================
