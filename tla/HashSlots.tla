----------------------------- MODULE HashSlots -----------------------------
(***************************************************************************)
(* What a request may wait for while it holds something: the Argon2id      *)
(* slots (HASH_SLOTS, services/password_crypto.rs), a connection of the    *)
(* pool and SQLite's single writer (models/database.rs), and the mutex of  *)
(* first_time (controllers/setup.rs).                                      *)
(*                                                                         *)
(* Every password is hashed on a blocking thread while its request holds a *)
(* slot.  OperatorRepository::create does so inside its write transaction; *)
(* everything else hashes first and writes afterwards.  A request may be   *)
(* dropped at any point (lost client, request timeout, an error or a form  *)
(* that is turned away); its future gives back what it holds, but the      *)
(* blocking thread hashes on.                                              *)
(*                                                                         *)
(* Reads are left out: they take a connection for one statement and wait   *)
(* for nothing while they have it.                                         *)
(***************************************************************************)
EXTENDS Naturals, Sequences, SequencesExt, FiniteSets

CONSTANTS Requests,
          Loads,         \* which handler each of them runs: the combinations considered
          Permits,       \* available_parallelism
          Connections,   \* max_connections of the pool
          Nobody

VARIABLES kind,      \* which handler each request runs
          at,        \* the operation of its handler it has come to
          free,      \* permits of HASH_SLOTS nobody has
          waiting,   \* the requests waiting for one, in order
          held,      \* the requests that have one
          open,      \* the requests that have a connection
          writer,    \* the one whose transaction is SQLite's writer
          guard,     \* the one that holds first_time_lock
          detached   \* hashes whose request is gone

vars == <<kind, at, free, waiting, held, open, writer, guard, detached>>

-----------------------------------------------------------------------------
\* What handlers that hash do, in order: login_submit, with its rehash and
\* record_authenticated; update_password_action; insert_user_action, whose step-up
\* records itself before create; first_time.  Left out are the look-ups and the
\* session rows, which take a connection or the writer and hold nothing else, and
\* the handlers with a step-up and no hash after it (update_user, delete_user, the
\* two-factor ones, update): what they take, these take in the same order.
Program ==
    [sign_in    |-> <<"hash", "open", "write", "commit", "open", "write", "commit">>,
     password   |-> <<"hash", "hash", "open", "write", "commit">>,
     insert     |-> <<"hash", "open", "write", "commit", "open", "write", "hash", "commit">>,
     first_time |-> <<"guard", "open", "write", "hash", "commit">>]

Kinds == DOMAIN Program

ASSUME SlotConstants ==
    /\ Permits \in Nat \ {0} /\ Connections \in Nat \ {0}
    /\ Nobody \notin Requests /\ IsFiniteSet(Requests)
    /\ Loads \subseteq [Requests -> Kinds]

Finished(r) == at[r] > Len(Program[kind[r]])
Op(r) == IF Finished(r) THEN "none" ELSE Program[kind[r]][at[r]]
Advance(r) == at' = [at EXCEPT ![r] = @ + 1]

\* Hashes on behalf of a request that is still there.
Hashing == {r \in Requests : Op(r) = "hash" /\ r \in held}

Init ==
    /\ kind \in Loads
    /\ at = [r \in Requests |-> 1]
    /\ free = Permits /\ waiting = <<>> /\ held = {}
    /\ open = {} /\ writer = Nobody /\ guard = Nobody
    /\ detached = 0

-----------------------------------------------------------------------------
\* Mutant: "let _ = hash_slot().await", which drops the permit at once.
HashSlotUnbound(r) ==
    /\ Op(r) = "hash" /\ r \notin held
    /\ free > 0
    /\ held' = held \cup {r}
    /\ UNCHANGED <<kind, at, free, waiting, open, writer, guard, detached>>

\* hash_slot: a permit, or a place in the semaphore's queue.  With the permit the
\* blocking task starts.
HashSlot(r) ==
    /\ Op(r) = "hash" /\ r \notin held /\ ~Contains(waiting, r)
    /\ IF free > 0
       THEN free' = free - 1 /\ held' = held \cup {r} /\ UNCHANGED waiting
       ELSE waiting' = Append(waiting, r) /\ UNCHANGED <<free, held>>
    /\ UNCHANGED <<kind, at, open, writer, guard, detached>>

\* SemaphorePermit::drop gives the permit to the request that has waited longest;
\* a request that waits itself leaves the queue.
DropPermit(r) ==
    IF r \notin held
    THEN waiting' = RemoveFirst(waiting, r) /\ UNCHANGED <<free, held>>
    ELSE IF waiting # <<>>
    THEN held' = (held \ {r}) \cup {Head(waiting)} /\ waiting' = Tail(waiting) /\ UNCHANGED free
    ELSE held' = held \ {r} /\ free' = free + 1 /\ UNCHANGED waiting

\* Mutant: the permit is given back by hand, and dropped as well.
HashedReturned(r) ==
    /\ Op(r) = "hash" /\ r \in held
    /\ held' = held \ {r} /\ free' = free + 2
    /\ Advance(r)
    /\ UNCHANGED <<kind, waiting, open, writer, guard, detached>>

\* Mutant: the permit lives as long as the request.
HashedKept(r) ==
    /\ Op(r) = "hash" /\ r \in held
    /\ Advance(r)
    /\ UNCHANGED <<kind, free, waiting, held, open, writer, guard, detached>>

\* spawn_verify, spawn_encrypt, spawn_dummy: the task has joined, the permit drops.
Hashed(r) ==
    /\ Op(r) = "hash" /\ r \in held
    /\ DropPermit(r)
    /\ Advance(r)
    /\ UNCHANGED <<kind, open, writer, guard, detached>>

\* first_time_lock.lock().await
Guard(r) ==
    /\ Op(r) = "guard" /\ guard = Nobody
    /\ guard' = r
    /\ Advance(r)
    /\ UNCHANGED <<kind, free, waiting, held, open, writer, detached>>

\* begin, or the connection of a single statement.
Open(r) ==
    /\ Op(r) = "open" /\ Cardinality(open) < Connections
    /\ open' = open \cup {r}
    /\ Advance(r)
    /\ UNCHANGED <<kind, free, waiting, held, writer, guard, detached>>

\* The first INSERT or UPDATE makes the transaction the writer.
Write(r) ==
    /\ Op(r) = "write" /\ writer = Nobody
    /\ writer' = r
    /\ Advance(r)
    /\ UNCHANGED <<kind, free, waiting, held, open, guard, detached>>

Without(holder, r) == IF holder = r THEN Nobody ELSE holder

\* The end of a transaction; the last one ends first_time too.
Commit(r) ==
    /\ Op(r) = "commit"
    /\ open' = open \ {r} /\ writer' = Nobody
    /\ guard' = Without(guard, r)
    /\ Advance(r)
    /\ UNCHANGED <<kind, free, waiting, held, detached>>

\* The future is dropped: permit, place in the queue, transaction (rolled back),
\* connection and mutex go with it.  The hash goes on if its thread has it.  That is
\* the timeout of middleware/rate_limit.rs; of a client that is gone it is hyper that
\* drops the future.
Cancel(r) ==
    /\ ~Finished(r)
    /\ at' = [at EXCEPT ![r] = Len(Program[kind[r]]) + 1]
    /\ DropPermit(r)
    /\ open' = open \ {r} /\ writer' = Without(writer, r) /\ guard' = Without(guard, r)
    /\ \E begun \in {0} \cup (IF r \in Hashing THEN {1} ELSE {}) : detached' = detached + begun
    /\ UNCHANGED kind

\* busy_timeout: the writer has not come free in five seconds; the error ends the
\* request.
Busy(r) ==
    /\ Op(r) = "write" /\ writer # Nobody
    /\ Cancel(r)

DetachedEnds ==
    /\ detached > 0
    /\ detached' = detached - 1
    /\ UNCHANGED <<kind, at, free, waiting, held, open, writer, guard>>

-----------------------------------------------------------------------------
Proceed(r) == HashSlot(r) \/ Hashed(r) \/ Guard(r) \/ Open(r) \/ Write(r) \/ Commit(r)

Next ==
    \/ \E r \in Requests : Proceed(r) \/ Cancel(r) \/ Busy(r)
    \/ DetachedEnds

\* Tasks that can run are run, a hash ends, and SQLite's busy handler keeps asking;
\* that anybody gives up is not assumed.
Fairness == \A r \in Requests : WF_vars(Proceed(r))

Spec == Init /\ [][Next]_vars /\ Fairness

-----------------------------------------------------------------------------
(***************************************************************************)
(* Properties.                                                             *)
(***************************************************************************)

TypeOK ==
    /\ kind \in [Requests -> Kinds]
    /\ \A r \in Requests : at[r] \in 1..(Len(Program[kind[r]]) + 1)
    /\ free \in 0..Permits
    /\ waiting \in Seq(Requests)
    /\ held \subseteq Requests /\ open \subseteq Requests
    /\ writer \in Requests \cup {Nobody} /\ guard \in Requests \cup {Nobody}
    /\ detached \in Nat

\* No drop, in whatever order requests come, finish and vanish, loses or doubles a
\* permit or skips a waiter: the free ones and the ones in use are all there are,
\* nobody waits beside a free one, and who waits or holds is at a hash.  With
\* that, at most Permits hashes run for requests that are still there; those of
\* requests that are gone are not counted by HASH_SLOTS.
SlotsConserved ==
    /\ free + Cardinality(held) = Permits
    /\ waiting # <<>> => free = 0
    /\ IsInjective(waiting) /\ ToSet(waiting) \cap held = {}
    /\ \A r \in ToSet(waiting) \cup held : Op(r) = "hash"

\* Nobody waits for ever: although create waits for a slot as SQLite's writer, and
\* first_time in its mutex too, every request ends, without any timeout's help.
EveryoneAnswered == <>(\A r \in Requests : Finished(r))

=============================================================================
