------------------------------ MODULE SrtQueue ------------------------------
(***************************************************************************)
(* base::srt_queue (base/src/mqueue.h): the queue without locks that hands *)
(* messages from the threads of the server to the one thread that pops     *)
(* them.  A directory holds Pages pointers to pages of PageMsgs slots.  A  *)
(* pusher tests for room, takes an index with one atomic increment, finds  *)
(* or allocates the page of that index (the only step under the mutex),    *)
(* stores its message and then raises the flag of the slot.  The reader    *)
(* takes slots in order and deletes a page with its last slot.             *)
(*                                                                         *)
(* One action is one access to shared memory; the mutex section is one     *)
(* action because the threads outside it only ever see its last store.     *)
(* Pages are never allocated twice here, so that a pointer to a deleted    *)
(* page stays recognisable.                                                *)
(***************************************************************************)
EXTENDS Integers, Sequences, FiniteSets

CONSTANTS
  Pushers,     \* the threads that push
  Pushes,      \* bound: how often each of them calls push
  PageMsgs,    \* page_msg_count_, slots of a page
  Pages,       \* page_index_count_, entries of the directory
  Reader,      \* the thread that pops
  Null         \* no pointer; also: no message

ASSUME SrtAssumption ==
  /\ Pushes \in Nat /\ PageMsgs \in Nat \ {0} /\ Pages \in Nat \ {0, 1}
  /\ Reader \notin Pushers /\ IsFiniteSet(Pushers) /\ Null \notin Nat

VARIABLES
  post_index,    \* post_index_: indices given out
  get_index,     \* get_index_: indices popped
  page_indexes,  \* page_indexes_: the directory, a page number or Null
  heap,          \* every page allocated so far: whether it lives, its slots
  qpc,           \* where each thread is: the access it makes next
  seen,          \* what each pusher loaded of post_index_ for its test
  index,         \* the index each thread works on
  page,          \* the pointer each thread got from get_msg_page
  calls,         \* calls of push each pusher has begun
  accepted,      \* history: the messages whose push got an index, in order
  popped         \* history: the messages pop returned, in order

srtVars == <<post_index, get_index, page_indexes, heap, qpc, seen, index,
             page, calls, accepted, popped>>

SrtThreads == Pushers \cup {Reader}
SrtMessages == Pushers \X (1..Pushes)

(* A page as new[] and memset leave it. *)
FreshPage == [live |-> TRUE, slots |-> [i \in 0..PageMsgs - 1 |->
                                          [msg |-> Null, flag |-> FALSE]]]

(* The directory entry and the slot of an index. *)
Entry(i) == (i \div PageMsgs) % Pages
Slot(i) == i % PageMsgs

SrtInit ==
  /\ post_index = 0 /\ get_index = 0
  /\ page_indexes = [e \in 0..Pages - 1 |-> IF e = 0 THEN 1 ELSE Null]
  /\ heap = <<FreshPage>>
  /\ qpc = [t \in SrtThreads |-> "idle"]
  /\ seen = [p \in Pushers |-> 0]
  /\ index = [t \in SrtThreads |-> 0]
  /\ page = [t \in SrtThreads |-> Null]
  /\ calls = [p \in Pushers |-> 0]
  /\ accepted = << >> /\ popped = << >>

At(t, from, to) == qpc[t] = from /\ qpc' = [qpc EXCEPT ![t] = to]

(* push: the test for room loads the two counters one after the other, and *)
(* the shift in it rounds down, below zero too.                            *)
LoadPost(p) ==
  /\ calls[p] < Pushes
  /\ At(p, "idle", "room")
  /\ calls' = [calls EXCEPT ![p] = @ + 1]
  /\ seen' = [seen EXCEPT ![p] = post_index]
  /\ UNCHANGED <<post_index, get_index, page_indexes, heap, index, page,
                 accepted, popped>>

\* Fault: the last page is given out too.
TestRoomLast(p) ==
  /\ At(p, "room", IF (seen[p] - get_index) \div PageMsgs >= Pages
                     THEN "idle" ELSE "claim")
  /\ UNCHANGED <<post_index, get_index, page_indexes, heap, seen, index, page,
                 calls, accepted, popped>>

TestRoom(p) ==
  /\ At(p, "room", IF (seen[p] - get_index) \div PageMsgs >= Pages - 1
                     THEN "idle" ELSE "claim")
  /\ UNCHANGED <<post_index, get_index, page_indexes, heap, seen, index, page,
                 calls, accepted, popped>>

\* Fault: the index after the increment is used.
ClaimIndexAfter(p) ==
  /\ At(p, "claim", "page")
  /\ index' = [index EXCEPT ![p] = post_index + 1]
  /\ post_index' = post_index + 1
  /\ accepted' = Append(accepted, <<p, calls[p]>>)
  /\ UNCHANGED <<get_index, page_indexes, heap, seen, page, calls, popped>>

ClaimIndex(p) ==
  /\ At(p, "claim", "page")
  /\ index' = [index EXCEPT ![p] = post_index]
  /\ post_index' = post_index + 1
  /\ accepted' = Append(accepted, <<p, calls[p]>>)
  /\ UNCHANGED <<get_index, page_indexes, heap, seen, page, calls, popped>>

(* get_msg_page: test, allocate under the mutex after a second test, and   *)
(* read the directory again for the result.                                *)
TestPage(t) ==
  /\ At(t, "page", IF page_indexes[Entry(index[t])] = Null
                     THEN "allocate" ELSE "fetch")
  /\ UNCHANGED <<post_index, get_index, page_indexes, heap, seen, index, page,
                 calls, accepted, popped>>

AllocatePage(t) ==
  /\ At(t, "allocate", "fetch")
  /\ IF page_indexes[Entry(index[t])] = Null
       THEN /\ heap' = Append(heap, FreshPage)
            /\ page_indexes' =
                 [page_indexes EXCEPT ![Entry(index[t])] = Len(heap) + 1]
       ELSE UNCHANGED <<heap, page_indexes>>
  /\ UNCHANGED <<post_index, get_index, seen, index, page, calls, accepted,
                 popped>>

FetchPage(t) ==
  /\ At(t, "fetch", IF t = Reader THEN "test" ELSE "store")
  /\ page' = [page EXCEPT ![t] = page_indexes[Entry(index[t])]]
  /\ UNCHANGED <<post_index, get_index, page_indexes, heap, seen, index,
                 calls, accepted, popped>>

StoreMessage(p) ==
  /\ At(p, "store", "flag")
  /\ heap' = [heap EXCEPT ![page[p]].slots[Slot(index[p])].msg = <<p, calls[p]>>]
  /\ UNCHANGED <<post_index, get_index, page_indexes, seen, index, page,
                 calls, accepted, popped>>

RaiseFlag(p) ==
  /\ At(p, "flag", "idle")
  /\ heap' = [heap EXCEPT ![page[p]].slots[Slot(index[p])].flag = TRUE]
  /\ UNCHANGED <<post_index, get_index, page_indexes, seen, index, page,
                 calls, accepted, popped>>

(* pop, called over and over: a call that finds nothing changes nothing.   *)
BeginPop ==
  /\ get_index < post_index
  /\ At(Reader, "idle", "page")
  /\ index' = [index EXCEPT ![Reader] = get_index]
  /\ UNCHANGED <<post_index, get_index, page_indexes, heap, seen, page,
                 calls, accepted, popped>>

TestFlag ==
  /\ At(Reader, "test", IF heap[page[Reader]].slots[Slot(index[Reader])].flag
                          THEN "take" ELSE "idle")
  /\ UNCHANGED <<post_index, get_index, page_indexes, heap, seen, index, page,
                 calls, accepted, popped>>

\* Fault: the page goes with its first slot, not with its last.
TakeMessageFirst ==
  /\ At(Reader, "take", IF Slot(index[Reader]) = 0 THEN "delete" ELSE "advance")
  /\ popped' = Append(popped, heap[page[Reader]].slots[Slot(index[Reader])].msg)
  /\ UNCHANGED <<post_index, get_index, page_indexes, heap, seen, index, page,
                 calls, accepted>>

TakeMessage ==
  /\ At(Reader, "take", IF Slot(index[Reader]) = PageMsgs - 1
                          THEN "delete" ELSE "advance")
  /\ popped' = Append(popped, heap[page[Reader]].slots[Slot(index[Reader])].msg)
  /\ UNCHANGED <<post_index, get_index, page_indexes, heap, seen, index, page,
                 calls, accepted>>

DeletePage ==
  /\ At(Reader, "delete", "unlink")
  /\ heap' = [heap EXCEPT ![page[Reader]].live = FALSE]
  /\ UNCHANGED <<post_index, get_index, page_indexes, seen, index, page,
                 calls, accepted, popped>>

UnlinkPage ==
  /\ At(Reader, "unlink", "advance")
  /\ page_indexes' = [page_indexes EXCEPT ![Entry(index[Reader])] = Null]
  /\ UNCHANGED <<post_index, get_index, heap, seen, index, page, calls,
                 accepted, popped>>

Advance ==
  /\ At(Reader, "advance", "idle")
  /\ get_index' = get_index + 1
  /\ UNCHANGED <<post_index, page_indexes, heap, seen, index, page, calls,
                 accepted, popped>>

Push(p) == \/ LoadPost(p) \/ TestRoom(p) \/ ClaimIndex(p)
           \/ StoreMessage(p) \/ RaiseFlag(p)
GetMsgPage(t) == TestPage(t) \/ AllocatePage(t) \/ FetchPage(t)
Pop == \/ BeginPop \/ TestFlag \/ TakeMessage \/ DeletePage \/ UnlinkPage
       \/ Advance

SrtNext == \/ \E p \in Pushers : Push(p)
           \/ \E t \in SrtThreads : GetMsgPage(t)
           \/ Pop

(* Threads that are scheduled for ever; the reader keeps calling pop.      *)
SrtFairness ==
  /\ \A p \in Pushers : WF_srtVars(Push(p) \/ GetMsgPage(p))
  /\ WF_srtVars(Pop \/ GetMsgPage(Reader))

SrtSpec == SrtInit /\ [][SrtNext]_srtVars
FairSrtSpec == SrtSpec /\ SrtFairness

----------------------------------------------------------------------------
(* A thread that is about to use its page has a pointer to a page that was *)
(* not deleted meanwhile (mqueue.h:99-103, 122-125): the reader deletes a  *)
(* page only when nobody can still write to it.                            *)
NoDeadPage ==
  \A t \in SrtThreads :
    qpc[t] \in {"store", "flag", "test", "take", "delete"} =>
      page[t] # Null /\ heap[page[t]].live

(* Two pushes in progress never write to the same slot of the same page    *)
(* (mqueue.h:98-103), and neither writes to a slot already popped.         *)
OwnSlot ==
  /\ \A p, r \in Pushers :
       /\ p # r
       /\ qpc[p] \in {"store", "flag"} /\ qpc[r] \in {"store", "flag"}
       /\ page[p] = page[r]
       => Slot(index[p]) # Slot(index[r])
  /\ \A p \in Pushers :
       qpc[p] \in {"store", "flag"} =>
         ~ heap[page[p]].slots[Slot(index[p])].flag

(* The queue keeps its promise: what comes out is what was accepted, in    *)
(* the order of the indices, each message once (mqueue.h:31-32, 86-89).    *)
(* The test for room is not one step with the claim, so as many messages   *)
(* as there are other pushers may be accepted beyond the (Pages - 1) full  *)
(* pages it allows.  With three pushers that is one too many: the index    *)
(* then falls on the page the reader is still on.                          *)
Promise == INSTANCE Mailbox WITH
  Message <- SrtMessages,
  Room <- (Pages - 1) * PageMsgs + Cardinality(Pushers) - 1,
  posted <- accepted,
  taken <- popped

KeepsMailbox == Promise!MailboxSpec

(* Every accepted message is popped in the end: no index is skipped and no *)
(* slot stays without its flag (mqueue.h:98-103, 122-129).                 *)
EveryMessagePopped == <>[](popped = accepted)
=============================================================================
