-------------------------- MODULE TerminalControl --------------------------
(* The single interactive owner of a terminal session                      *)
(* (swarm-domain/src/terminal_control.rs), as operators on the value the   *)
(* engine guards with a mutex.                                             *)
(*                                                                         *)
(* A fallible operation is the SET of values it may leave behind: the      *)
(* empty set is a refusal, and a refusal changes nothing.  Which error is  *)
(* reported (OwnedElsewhere, StaleGeneration, Expired, Exhausted) is left  *)
(* out, as no caller in the engine branches on it.                         *)
EXTENDS Naturals

CONSTANTS
    Identities,     \* (device, view) pairs: two views of a device differ
    NoOwner,        \* Option::None for the owner
    MaxU64,         \* the largest u64, of generations and of ticks alike
    ViewingLease,   \* TerminalControlPresence::Viewing.lease_ms()
    TypingLease     \* TerminalControlPresence::Typing.lease_ms()

U64 == 0..MaxU64
Grant == [identity: Identities, generation: U64, expires: U64]
Control == [generation: U64, owner: Grant \cup {NoOwner}]

ASSUME ControlAssumption ==
    /\ MaxU64 \in Nat
    /\ ViewingLease \in Nat \ {0}
    /\ TypingLease \in Nat \ {0}
    /\ NoOwner \notin Grant

FreshControl == [generation |-> 0, owner |-> NoOwner]

\* owner(now): the owner whose lease has not run out.
Live(c, now) == c.owner # NoOwner /\ now < c.owner.expires

LiveOwnerIs(c, i, now) == Live(c, now) /\ c.owner.identity = i

\* Mistake: any view of the session passes, not only the owner.
AuthorizedAnyView(c, i, g, now) == g = c.generation /\ Live(c, now)

\* The exact view and generation, immediately before an effect.
Authorized(c, i, g, now) == g = c.generation /\ LiveOwnerIs(c, i, now)

Later(a, b) == IF a < b THEN b ELSE a

\* A presence refresh extends a lease and never shortens it.
Renewals(c, i, g, now, lease) ==
    IF Authorized(c, i, g, now) /\ now + lease \in U64
    THEN {[c EXCEPT !.owner =
              [c.owner EXCEPT !.expires = Later(c.owner.expires, now + lease)]]}
    ELSE {}

\* Mistake: an unchecked addition.
ReplacementsUnchecked(c, i, now) ==
    {[generation |-> c.generation + 1,
      owner |-> [identity   |-> i,
                 generation |-> c.generation + 1,
                 expires    |-> now + ViewingLease]]}

Replacements(c, i, now) ==
    IF c.generation + 1 \in U64 /\ now + ViewingLease \in U64
    THEN {[generation |-> c.generation + 1,
           owner |-> [identity   |-> i,
                      generation |-> c.generation + 1,
                      expires    |-> now + ViewingLease]]}
    ELSE {}

\* acquire: only an unowned session, or this exact view again.
Acquisitions(c, i, now) ==
    IF Live(c, now)
    THEN IF c.owner.identity = i
         THEN Renewals(c, i, c.owner.generation, now, ViewingLease)
         ELSE {}
    ELSE Replacements(c, i, now)

\* take_over: compare-and-swap on the generation the view observed.
Takeovers(c, i, observed, now) ==
    IF observed # c.generation THEN {}
    ELSE IF LiveOwnerIs(c, i, now)
         THEN Renewals(c, i, observed, now, ViewingLease)
         ELSE Replacements(c, i, now)

\* Mistake: a wrapping addition.
ReleasesWrapping(c, i, g, now) ==
    IF Authorized(c, i, g, now)
    THEN {[generation |-> (c.generation + 1) % (MaxU64 + 1),
           owner |-> NoOwner]}
    ELSE {}

\* release: only by the live owner; the revision moves on so that a delayed
\* resume cannot undo it.
Releases(c, i, g, now) ==
    IF Authorized(c, i, g, now) /\ c.generation + 1 \in U64
    THEN {[generation |-> c.generation + 1, owner |-> NoOwner]}
    ELSE {}
=============================================================================
