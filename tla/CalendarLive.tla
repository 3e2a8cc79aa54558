---------------------------- MODULE CalendarLive ----------------------------
(***************************************************************************)
(* GCalSync over a live Calendar service, the answer 410 GONE included: a  *)
(* process of the worker that syncs cycle after cycle, one listing and one *)
(* batch per sync, and a service that may refuse the stored token.         *)
(*                                                                         *)
(* The handler of a 410 calls force_resync, which evaluates calendar_id,   *)
(* which calls _load_meta and so lists again with the token still stored:  *)
(* only when that call returns is the token cleared.  stack is the number  *)
(* of _load_live calls on the interpreter's stack.                         *)
(*                                                                         *)
(* A token is the number of changes it stands for; 0 is the absent token.  *)
(* Appending is one step here; CalendarSync takes it apart.                *)
(***************************************************************************)
EXTENDS Integers

CONSTANTS
  MaxChanges,     \* bound on the changes made to the calendar
  MaxExpiries,    \* bound on the times the service drops old tokens
  RecursionLimit  \* how many _load_live calls the interpreter's stack holds

VARIABLES
  changes,   \* service: the changes made so far
  oldest,    \* service: tokens from 1 up to this one are gone
  expiries,  \* service: the times tokens were dropped
  cursor,    \* sync_cursors: the stored token
  logged,    \* every change up to this one is in the event log
  pc,        \* where the process stands
  stack,     \* _load_live calls on the stack
  listed     \* the nextSyncToken of the listing in hand

liveVars == <<changes, oldest, expiries, cursor, logged, pc, stack, listed>>

Gone(token) == token \in 1 .. oldest

LiveInit ==
  /\ changes = 1
  /\ oldest = 0
  /\ expiries = 0
  /\ cursor = 0
  /\ logged = 0
  /\ pc = "idle"
  /\ stack = 0
  /\ listed = 0

-----------------------------------------------------------------------------
\* Somebody edits the calendar.
Edit ==
  /\ changes < MaxChanges
  /\ changes' = changes + 1
  /\ UNCHANGED <<oldest, expiries, cursor, logged, pc, stack, listed>>

\* The service drops the tokens handed out so far.
Expire ==
  /\ expiries < MaxExpiries
  /\ oldest' = changes
  /\ expiries' = expiries + 1
  /\ UNCHANGED <<changes, cursor, logged, pc, stack, listed>>

\* run_sync: sync calls _load_meta, which calls _load_live.
CallLoad ==
  /\ pc = "idle"
  /\ pc' = "list"
  /\ stack' = 1
  /\ UNCHANGED <<changes, oldest, expiries, cursor, logged, listed>>

\* events().list with the stored token: what has changed since, or everything.
List ==
  /\ pc = "list"
  /\ ~ Gone(cursor)
  /\ listed' = changes
  /\ pc' = "return"
  /\ UNCHANGED <<changes, oldest, expiries, cursor, logged, stack>>

\* A 410: force_resync asks for calendar_id, and that loads again.
ListGone ==
  /\ pc = "list"
  /\ Gone(cursor)
  /\ stack < RecursionLimit
  /\ stack' = stack + 1
  /\ UNCHANGED <<changes, oldest, expiries, cursor, logged, pc, listed>>

\* The stack is full: RecursionError leaves every call, the sync and the cycle.
Overflow ==
  /\ pc = "list"
  /\ Gone(cursor)
  /\ stack = RecursionLimit
  /\ pc' = "idle"
  /\ stack' = 0
  /\ UNCHANGED <<changes, oldest, expiries, cursor, logged, listed>>

\* An inner _load_live returns to calendar_id and force_resync clears the token;
\* the call of _load_live that caught the 410 then lists once more.  Nobody else
\* replaces the token meanwhile, so no inner call returns and this is never taken.
ClearToken ==
  /\ pc = "return"
  /\ stack > 1
  /\ cursor' = 0
  /\ stack' = stack - 1
  /\ pc' = "list"
  /\ UNCHANGED <<changes, oldest, expiries, logged, listed>>

\* The outermost _load_live returns: sync appends the batch, unless the stored
\* token says it is consumed, and stores the batch's token.
ConsumeBatch ==
  /\ pc = "return"
  /\ stack = 1
  /\ logged' = IF listed > logged THEN listed ELSE logged
  /\ cursor' = listed
  /\ pc' = "idle"
  /\ stack' = 0
  /\ UNCHANGED <<changes, oldest, expiries, listed>>

WorkerStep ==
  \/ CallLoad
  \/ List
  \/ ListGone
  \/ Overflow
  \/ ClearToken
  \/ ConsumeBatch

LiveNext == Edit \/ Expire \/ WorkerStep

\* run_forever starts another cycle whatever the last one raised.
LiveSpec == LiveInit /\ [][LiveNext]_liveVars /\ WF_liveVars(WorkerStep)

-----------------------------------------------------------------------------
\* _load_live's docstring: "On an HttpError with status 410 the token is cleared
\* and a full sync is performed".  Every change to the calendar is logged in the
\* end, expired tokens or not.
RecoversFromGone == \A n \in 1 .. MaxChanges : (changes >= n) ~> (logged >= n)

=============================================================================
