# The oneshot channel in TLA+

A verification development for the `oneshot` crate (version 0.2.1): TLA+ modules
that model the whole channel, TLC runs that check it on small instances,
an abstract specification it is shown to implement, and TLAPS proofs of its memory
safety, data-race freedom included, of what it promises its clients, of its wakeups and
of that refinement, which hold for every number of calls and every set of task wakers.
Source paths below are relative to the crate's `src/` directory.

## The system

A oneshot channel carries one message from a `Sender` to a `Receiver`. The two ends
share one heap block with an atomic byte and two uninitialised slots, and nothing
else: there is no lock. All of the difficulty is in a protocol of about thirty
atomic operations, each with the weakest memory ordering its author could justify.

| Component | State | Operations | Talks to |
|---|---|---|---|
| `Channel`, `states.rs` | `state: AtomicU8`, slots `message`, `waker` | `write_message`, `take_message`, `drop_message`, `message`, `write_waker`, `take_waker`, `drop_waker`, `write_async_waker` | both ends |
| `Sender` | the pointer; consumed by `send` and by drop | `send`, `drop`, `is_closed`, `into_raw`, `from_raw` | `Channel`, `ReceiverWaker::unpark` |
| `SendError` | owns message and block | `as_inner`, `into_inner`, `drop` | `Channel`, `dealloc` |
| `Receiver` | the pointer; consumed by `recv`, `into_future`, drop | `try_recv`, `recv`, `recv_ref`, `recv_timeout`, `recv_deadline`, `is_closed`, `has_message`, `into_raw`, `from_raw`, `into_future`, `drop` | `Channel`, `thread::park` |
| `AsyncReceiver` | the pointer; a future | `poll`, `is_closed`, `has_message`, `drop` | `Channel`, the executor |
| `ReceiverWaker`, `thread.rs` | a `Thread` or a task `Waker` | `current_thread`, `task_waker`, `unpark` | std, the executor |
| `channel`, `async_channel`, `dealloc` | the allocation | create, free | all |
| loom shims | | only in loom tests | |

The state byte is `EMPTY`, `RECEIVING` (a waker is in the slot), `UNPARKING` (the
sender has claimed the waker), `MESSAGE` or `DISCONNECTED`. The receiver registers by
writing its waker and setting `RECEIVING`. The sender acts with one `fetch_add` (send)
or `fetch_xor` (drop); having met `RECEIVING` it takes the waker, sets the final
state, and wakes. The last end to leave frees the block, and which one is last is
told by the value each one's final atomic operation returns.

What is hard: the sender acts between any two accesses of the receiver; relaxed loads
are stale; `park` returns spuriously; a deadline passes while the sender is at work;
a task is polled with another waker, or dropped, while the sender is waking it; and
most accesses synchronise through fences and release sequences rather than by
themselves; and four of its operations run code of the client, which may panic in the
middle of the protocol. `PROJECT.json` lists these hazards line by line, with the properties that
watch over them.

What makes each component correct:

* `Channel`: slots are only read when initialised, and every access to one is ordered
  after the other end's; the state byte is one of its five values, and means what
  `states.rs` says it does.
* `Sender`: after `is_closed` returned true the message comes back; the final state is
  set before the wake.
* `Receiver`: disconnection is only reported if it is true, a timed out call leaves
  nothing registered, a deadline is honoured, a message that was seen is delivered.
* `AsyncReceiver`: the waker of the last poll is the one that is woken.
* the whole: freed exactly once, after everything else, and nothing leaked.

## Modules

| Module | Models |
|---|---|
| `Memory` | one heap block: the atomic byte under release/acquire, two cells, use after free, data races |
| `ReceiverWaker` | `waker.rs`, `thread.rs`: park token, wakes of tasks |
| `Channel` | `states.rs`, `channel.rs`, `dealloc` of `lib.rs` |
| `Sender` | `sender.rs`, `SendError` of `errors.rs` |
| `Receiver` | `Receiver` of `receiver.rs` |
| `AsyncReceiver` | `AsyncReceiver` of `receiver.rs`, `write_async_waker` of `channel.rs` |
| `Oneshot` | both ends over one channel; fairness; the properties |
| `OneshotInv` | the inductive invariant of ownership |
| `PromiseInv` | the inductive invariant of what the clients were told |
| `WakeupInv` | the inductive invariant of who wakes a waiting receiver |
| `RaceInv` | the inductive invariant over the vector clocks |
| `CancelInv` | what is left of the invariants after a drop in the middle of a wake |
| `IdealChannel` | what the channel promises its clients: the atomic handover of one item |
| `Refinement` | the mapping under which `Oneshot` implements `IdealChannel` |
| `MCOneshot` | the instance TLC checks |
| `MemoryProofs`, `OneshotProofs`, `OwnershipProofs`, `PromiseProofs`, `WakeupProofs`, `RaceProofs`, `RefinementProofs`, `SpecProofs` | the lemmas and theorems |

Each module extends the ones above it; `Oneshot` composes `Sender` and
`AsyncReceiver` (which extends `Receiver`); `IdealChannel` stands alone and `Refinement`
instantiates it.

### State and actions

One action is one access of one end to shared memory (or to the park token), so TLC
interleaves the ends as finely as hardware does. `spc` and `rpc` name the access that
is next. The `match` of the code on a value read is an operator `...Arms(v)` that maps
the value to the next label and to the result the call will return; an arm
`_ => unreachable!()` leads to the label `unreachable`. The straight-line rest of a
match arm is a label made of verbs: `drop_mark_fence_take` means drop the waker, store
`DISCONNECTED`, fence, take the message, return. The tables `AfterDropWaker`,
`AfterMark`, ... of `Receiver` peel the verbs off one by one, in the code's order, so
that the shared tails of `try_recv`, `recv_ref`, `poll` and the rest are modelled once.

`handle` is what the receiver's client holds; consuming calls (`recv`, drops) set it to
`"none"` when they start, as ownership moves into the call. `finish` is the closure
that `start_recv_ref` is given. `sawClosed` and `promise` are history variables.

Left out of the data: the message is only "uninit", "init" or how it left the slot;
a deadline is only whether it has passed; a `RecvError` is a word. The integer values
of the states are kept, because `fetch_add` and `fetch_xor` compute with them, and
`fetch_add` wraps at 256.

Operators commented "Slip" change one definition the way a plausible mistake would.
They are part of no specification; each of them is caught by a property.

### Panics of the client's code

The channel runs code it does not know: the `Drop` of the message (`drop_message`), and
`clone`, `drop` and `wake` (or `wake_by_ref`) of a task's waker. `Panics` says which of
these may panic; a panic unwinds out of the call and skips the rest of it.

| Callback | Where | What is left |
|---|---|---|
| `Drop` of the message | `SendError::drop`, `Receiver::drop`, `AsyncReceiver::drop` | the block is not freed (`"leaked"`); the channel is closed and nobody holds an end of it |
| `clone` of a waker | `poll`, before the slot is written | an unregistered future; the client may poll it again |
| `drop` of a waker | `poll`, in three places | the same; a message that is there stays there for the next poll |
| `drop` of a waker | `AsyncReceiver::drop`, before it closes the channel | the receiver is gone, the state is `EMPTY` (`"lost"`) |
| `wake` | `send`, `Sender::drop` | the final state is set, the receiver was not woken (`"unwoken"`) |
| `wake_by_ref` | `poll` | the future, whose old waker the sender is waking |

None of these breaks memory safety, as the runs and the proofs include them. What a panic
costs is stated where it matters: `NoLeak` only asks for the block to be freed when both
ends have gone the way they should, `NoLostWakeup` leaves out a wake that panicked. The
fourth line is the one a client would not expect: a later `send` returns `Ok` although
"Returns an error if the receiver has already been dropped" (`sender.rs:61`), and the
message and the block are never freed. `IdealChannel` has it as `LoseReceiver`.

### The abstract channel

`IdealChannel` has no state byte, no waker and no memory. A sender and a receiver are open
or closed, and one item goes from `none` to `channel` (or to `error`, if the receiver was
closed first), from there to `taken` and `received`, or is `dropped` or `returned`. What the
clients were told is part of its state: `known` is what `is_closed`, `has_message` or a
received message have told the receiver's client, `told` what `Sender::is_closed` has told
the sender's. Its guards are the promises: `ReportDisconnected` needs that nothing is left
to receive and nothing will come, `ReportNothing` (`Empty`, `Timeout`, `Pending`) a client
that does not know better, `Take` an open receiver.

`Refinement` says when a step of the code takes effect: a `send` or a drop of the sender
with its `fetch_add` or `fetch_xor` (not with the later swap of the final state), the drop
of a receiver with its swap, a successful receive when the message is taken, an answer
when the call returns. `recv` closes the receiver when it takes the message, or when it
has nothing left to do but free the block. All else is a stuttering step.

### The memory model

* A read-modify-write reads the newest write. A load reads some write the thread has
  not moved past; `stale[t]` keeps those, and `Propagate` moves on. Both ends can thus
  act on old values for as long as coherence lets them.
* Happens-before is a vector clock. A release carries the writer's view; a
  read-modify-write of either end continues the release sequence it found; a relaxed
  store breaks it (the C++20 rule). `acq[t]` collects what an acquire fence would take.
* An access to a cell races if the other end's last access to that cell is not in the
  view; freeing the block conflicts with every access, to `state` as well.
  All cell accesses count as exclusive, also the shared reference of
  `SendError::as_inner`, which is stricter than the language.
* A failed `compare_exchange` is a relaxed load. (All of the code's exchanges are
  strong, so there are no spurious failures.)
* `unpark` synchronises with the `park` that takes its token, as std documents. A wake
  by an executor is not assumed to synchronise with the poll it causes.
* A relaxed store is the newest write at once. That is exact here: the code stores
  only after the sender's last write of `state`, so no other write could overtake it.
* There is one park token, since a thread that registers parks within the same call.
* `Defined`: after undefined behaviour nothing further is modelled. A leak is not
  undefined and does not stop the model.

## Runs

All runs use the module `MCOneshot`. Full instance: both features, spurious wakeups,
two interchangeable task wakers (symmetry in the safety runs, none in `live`), and every
callback may panic. The two runs that expect a violation have no panics.

| Run | Specification | Calls | Distinct states | Shows |
|---|---|---|---|---|
| `channel` | `Spec` | 3 | 66 254 | `TypeOK`, `NoPanic`, `NoUninitAccess`, `SlotsOrdered`, `StateIsTrue`, `ClosedForSender`, `PromisesKept`, `DisconnectedIsTrue`, `NoStaleRegistration`, `NoLostWakeup` |
| `uncancelled` | `UncancelledSpec` | 3 | 64 004 | `NoUseAfterFree`, `NoLeak` |
| `calm` | `CalmSpec` | 3 | 62 714 | `NoDataRace` |
| `ownership` | `UncancelledSpec` | 4 | 126 963 | `OwnershipInv`, `PromiseInv`, `WakeupInv` |
| `races` | `CalmSpec` | 4 | 124 519 | `RaceInv` |
| `cancelled` | `Spec` | 4 | 131 507 | `SpecInv` |
| `refinement` | `Spec` | 3 | 66 254 | `Implements` |
| `std_only` | `Spec`, without `async` | 6 | 163 873 | `NoUseAfterFree`, `NoLeak` |
| `live` | `FairSpec` | 2 | 36 485 | `BlockedCallReturns`, `DeadlineCallReturns`, `PendingTaskAnswered` |
| `cancel_during_wake` | `Spec` | 1 | | `NoUseAfterFree` is violated |
| `timeout_during_wake` | `Spec` | 1 | | `NoDataRace` is violated |

Three of the properties of `channel` deserve a word. `fetch_add` and `fetch_xor` compute the
next state by arithmetic, so `TypeOK` asks that the byte is one of the five states: nothing
but the protocol keeps it there. `StateIsTrue` is what
`states.rs` says of each state, asked between two calls of the receiver's client, when
nobody is in the middle of repairing it: `EMPTY` means that the sender has not acted and no
waker is in the slot, `DISCONNECTED` that the sender was dropped or the message received,
and so on; and as long as the sender has not acted, `DISCONNECTED` means exactly that the
receiver is gone. `SlotsOrdered` is the part of data-race freedom that needs no exclusion:
whoever is about to access the message or the waker has the other end's accesses in its
view. What can race, in `timeout_during_wake`, is the deallocation only.

The properties of `channel` and of `refinement` hold of every behaviour of the code up to
its first undefined behaviour. Deadlock is checked in every run: the only terminal states
are those in which both ends are gone (or the execution was undefined).

**Bounds.** `MaxCalls` bounds the calls that borrow the receiver (`try_recv`,
`recv_ref`, `recv_timeout`, `recv_deadline`, polls of the executor's own accord);
queries, raw conversions, consuming calls and polls that answer a wake are unbounded.
Two calls are needed for a timeout followed by a retry, or a poll with a second waker;
three for a second replacement of a waker. More calls should add nothing, as the channel
is back in one of the same few states after each call: that is what `OwnershipInv` says,
and for all of the safety properties the proofs remove the bound. Two wakers are needed to
tell the last one from an earlier one. There is one message, one sender and one
receiver because the types allow no more.

**Fairness.** `FairSpec` assumes that a thread inside a call is scheduled again (weak
fairness of `SenderStep` and of `ReceiverStep`), that a store becomes visible to a
thread that keeps loading (the guarantee the language gives, and the spin loops need),
that time passes, and that the executor polls a task whose waker was woken. It does
not assume that a client ever makes a call, that the sender is ever used, or that
`park` ever returns spuriously: nothing in the code or in std promises these.

**Exclusions.** Two steps lead to undefined behaviour, described next.
`UncancelledSpec` is `Spec` without the first, `CalmSpec` without either. Both steps are
single transitions named in `Oneshot` (`CancelDuringWake`, `WakeWithoutUnpark`); nothing
else is taken away.

## Two disagreements between code and comments

1. **`cancel_during_wake`.** `AsyncReceiver::drop` swaps in `DISCONNECTED` and, if it got
   `UNPARKING`, waits for the sender by loading `state` until it is `MESSAGE` or
   `DISCONNECTED` (`receiver.rs:850-891`). Its own swap has just stored `DISCONNECTED`,
   so the loop ends at once, unless the sender happens to have finished, and the block
   is freed while the sender is between `fetch_add` and its final `swap`
   (`sender.rs:113-133`). The sender then takes the waker from, or swaps, freed memory.
   `states.rs:18-20` says that a receiver that sees `UNPARKING` must wait for the sender
   to finish.
2. **`timeout_during_wake`.** A `recv_deadline` whose deadline passes during the wake
   waits in `wait_for_unpark`. If `park` there returns without the unpark, the relaxed
   load can see the final state without acquiring it (`receiver.rs:373`), and the
   relaxed store of line 377 replaces the write that a later `drop` would have
   acquired. The message itself is safe (`SlotOrder` proves it): the earlier swap acquired
   it. The deallocation
   is not ordered after the sender's use of the waker slot and its last write of
   `state`, which the contract of `dealloc` (`lib.rs:204-207`) asks for.

Two statements of the documentation are looser than they read, without a run of their
own: `recv_timeout` "will not block longer than `timeout`" (`receiver.rs:334`), but
`wait_for_unpark` parks without a limit until the sender, once in `UNPARKING`, has
finished (`DeadlineCallReturns` therefore relies on the sender being scheduled); and the
comment in the spin loop of `poll` (`receiver.rs:759`) says the load before it has
synchronised with the message, while it is the fence after the loop that does.

## Proofs

TLAPS proves, for every `Tasks`, `MaxCalls`, `Features`, `SpuriousWakeups` and `Panics` that
satisfy the five assumptions (named wakers are not the words "thread" and "none"; the rest
are types):

* `TypeCorrect`: `Spec => []TypeOK`.
* `Ownership`, `Promises`, `Wakeups`: `OwnershipInv`, `PromiseInv` and `WakeupInv` are
  invariants of `UncancelledSpec`; from the first, `UseAfterFreeFreedom`
  (`NoUseAfterFree`) and `LeakFreedom` (`NoLeak`) under `UncancelledSpec`.
* `Races`: `RaceInv` is an invariant of `CalmSpec`, and with it `RaceFreedom`
  (`NoDataRace`) under `CalmSpec`.
* `Safety`: `Spec => []SpecInv`, and from it, under `Spec` with nothing excluded,
  `PanicFreedom` (`NoPanic`), `InitialisedAccess` (`NoUninitAccess`), `SlotOrder`
  (`SlotsOrdered`), `StateTruth` (`StateIsTrue`),
  `RegistrationTakenBack` (`NoStaleRegistration`), `DisconnectionTruth`
  (`DisconnectedIsTrue`), `ReceiverPromises` (`PromisesKept`), `SenderPromise`
  (`ClosedForSender`) and `WakeupsArrive` (`NoLostWakeup`).
* `Refines`: `Spec => Implements`, with nothing excluded.
* What the build leaves out. `StdIsUncancelled`: without `async`, `Spec =>
  UncancelledSpec`; `StdUseAfterFreeFreedom`, `StdLeakFreedom`. `AsyncIsCalm`: without
  `std`, `UncancelledSpec => CalmSpec`, and so `AsyncRaceFreedom`: `UncancelledSpec =>
  []NoDataRace`. The argument is that a label only a future, or only
  a blocking call, gets to is never reached when the feature is not there.

Every safety property the runs check is thus proved, each under the specification of its
run.

**The type invariant.** `TypeOK` is not inductive by itself: `unpark` puts the waker the
sender holds among the woken tasks, so it must be a waker (`HeldInv`); `start_recv_ref`
goes on at the label of its closure (`FinishInv`); `poll` writes the waker of its context
(`PollInv`). `TypeInv` adds these. That the byte is a state is `ByteInv`: before the sender
has acted it is `EMPTY`, `RECEIVING` or `DISCONNECTED`, the three values from which
`fetch_add` and `fetch_xor` lead to a state again.

**The ownership invariant.** None of the safety properties is inductive. What makes them
true is an agreement on ownership that depends on how far the sender has come, so
`PhaseInv` is a disjunction over the sender's progress:

* `FreshInv`: the sender has not written `state`. The receiver sees everything it needs;
  a waker is in the slot iff the state is `RECEIVING` or the receiver is between writing
  the waker and setting the state (or the reverse).
* `WakingInv`: the sender is between its first and its final write. The waker is the
  sender's; the receiver waits, possibly still seeing `RECEIVING`, or has set the state
  to `EMPTY` at its deadline.
* `OwnerInv`: the receiver was gone first; all is the sender's.
* `DoneInv`: the sender has made its last access. Either the receiver has not acted
  upon it (`OpenInv`, which says how many writes it may lag behind at which label: a load
  may see one or two older states), or it is finishing (`ClosingInv`: it is up to date and
  the label tells whether a message is left to take), or it has freed the block, or has
  unwound out of its drop (`FreedInv`).

The lag is the reason why the invariant speaks of `stale`: whether an arm is reachable
depends on which old value a load can still return. `HandleInv` ties the label to what
the client holds, and says that a thread finds its own waker in the slot: the drop of a
task waker may panic where that of a thread's may not, and a panic in the arms that have
set `RECEIVING` over a final state would leave it there. The proof has one lemma for the steps of each kind (loads, swaps,
exchanges, straight-line tails, sleeping, calls, the sender's steps, propagation), each
with a case per action. `MemoryProofs` states what the memory operations preserve.

Without `~CancelDuringWake` no invariant could imply `NoUseAfterFree`, as the run
`cancel_during_wake` shows; what remains true then is the subject of `CancelInv`, below.

**The invariant of the promises.** What a client was told is about the past, what an access
returns about the present, so `PromiseInv` says how the one binds the other. Towards the
receiver (`AnswerInv`): a result is decided by a label from which it comes true
(`ResultInv`); a client that was told "closed" has caught up with every write, and the state
is `DISCONNECTED` for as long as the block lives (`ClosedInv`); one that was told of a
message is in front of a load that can only return `MESSAGE`, or on a path that takes or
drops it (`MessageInv`); and nobody registers once the message was taken (`ReceivedInv`).
Towards the sender (`ToldInv`): `DISCONNECTED` is never an older write a sender could still
read before it has acted (`NewestInv`), so that an `is_closed` that returned true cannot be
overtaken (`SawClosedInv`). The proof follows the same kinds of steps; `OwnershipInv` supplies
which labels are reachable in which phase of the sender.

**The invariant of the wakeups.** `NoLostWakeup` speaks of a sender that is done; what makes
it true is that a wakeup is never lost on the way there. The waker of a thread that waits
is in the slot until the sender takes it, then in `held`, then a token (`ThreadInv`); a
thread that has taken the token and is not back in its loop yet has seen the sender's last
write, because `unpark` synchronises, so it does not park again. The waker of the last poll
that returned `Pending` is in the slot, in `held` or woken (`TaskInv`), unless its wake has
panicked. The delicate case is a second poll: it takes the registration back or finds the
sender with the old waker, and then wakes the new one itself.

**The race invariant.** A race is an access whose predecessor by the other end is not in the
view, so `RaceInv` says, for every moment, in which view the past of an end is. `Covers(v,
t)` is "view `v` includes all that `t` has done to the block". The sender's past is in the
receiver's view (`Synced`), or in what an acquire fence would add (`Fenced`), or in the
newest write of `state` (`Carried`), and the label tells which: an arm with a fence to come
is at least `Fenced`, one that takes, drops or frees is `Synced` (`DoneRace`). In the other
direction the sender has acquired the registration before it takes the waker
(`WakingRace`) and the whole drop before it owns the block (`OwnerRace`), because the
receiver's release has put it into the newest write (`FreshRace`). An unpark carries the
sender's past with the token (`TokenRace`); and a receiver that is about to use the waker
slot without having synchronised can only do so because the sender never touched the slot
(`SlotRace`). A thread in `wait_for_unpark` has acquired `UNPARKING`, and with it the message
(`WaitRace`). `MemoryProofs` has one lemma per memory operation on the clocks (views only
grow, an acquire joins what the write carries, a release sequence survives an exchange and
dies with a store); `RaceProofs` derives from them what an access of either end does to the
named coverings, and then goes through the actions. `WakeWithoutUnpark` is where
the invariant would break: the arm after it would be `AfterAcquire` without being `Synced`
with the waker slot and the state byte, though it is with the message. The coverings
therefore take a set of locations, and `OrderInv(ls)` is the invariant for it:
`RaceInv` is `OrderInv(Locations)` and holds of a calm channel, `SlotInv` is
`OrderInv(Message)`, holds without that exclusion and is what `SlotsOrdered` follows from.
One set of lemmas proves both.

**The cancelled channel.** When `AsyncReceiver::drop` overwrites `UNPARKING`, the two ends no
longer agree on who frees the block, and `OwnershipInv` is gone. `Cancelled` is what is left:
the drop can only spin, drop the message, free and return; until one end commits undefined
behaviour the sender still has its waker in the slot, the state is `DISCONNECTED` until the
sender sets the final one, and the drop only goes for the message if there is one. Its swap has acquired `UNPARKING`, and
with it the message it is going to drop (`CancelledOrder`). No client is told anything any
more. `SpecInv` is the invariants of ownership, promises, wakeups and slots, or `Cancelled`; it is inductive
under `Next` without exclusion, and carries the theorems that do not depend on who frees.

**The refinement.** With the two invariants in both states of a step, no step needs to look
at the memory any more. Most steps of the receiver are `Quiet`: inside a call, without
moving the message; one lemma shows that the clients see nothing of those but, at most,
that the receiver is closed, and a case per action shows that it is quiet. The others
(returns, calls, queries, taking or dropping the message, panics, the sender's first write,
`SendError`, `is_closed`) are matched with an action of `IdealChannel` each. The ideal
channel of a cancelled one is closed on both sides and can but discard its item.

**Only model-checked:** the three liveness properties (fairness and `ENABLED` are beyond the
prover) and the absence of deadlock. The two violations are counterexamples of TLC.

## Not modelled

* Panics that std itself may raise (`thread::current` while a thread is torn down), and
  running out of memory in `channel`.
* Moves of an end between threads: a move synchronises, so an end counts as one thread. `Sender` is
  `Sync`, so several threads may call `is_closed` at once, but only while none of them can
  send or drop: each is a relaxed load of a sender that has written nothing yet.
* Formatting of errors, `Debug`, `Display`; the loom variants (`loombox.rs` is a `Box` that
  loom can track, loom's `park_timeout` an early return, which `SpuriousPark` covers);
  benchmarks and examples.
* Misuse of `from_raw`, which the documentation excludes.

## Plan

Done: memory, channel, both ends, the panics of the client's code, their composition,
safety and liveness runs, the abstract specification and the refinement; proofs of type
correctness, the meaning of the state byte, ownership, promises, wakeups, data-race freedom,
the refinement, and of what
holds without any exclusion. Next:

1. The safety half of the liveness arguments: from which states a waiting call can still be
   waiting, as a bound on the steps of the sender it waits for.
