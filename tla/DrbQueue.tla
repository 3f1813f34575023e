------------------------------ MODULE DrbQueue ------------------------------
(***************************************************************************)
(* base::drb_queue (base/src/mqueue.h): the durable queue, which only ever *)
(* grows.  A pusher takes an index, finds the page of that index, stores   *)
(* its message, raises the flag of the slot and counts the push as         *)
(* written.  A page directory that is too short is replaced, under the     *)
(* mutex, by a copy of at least twice its length; the old one is never     *)
(* deleted.  The reader asks for any position by number and takes no lock. *)
(*                                                                         *)
(* One action is one access to shared memory that another thread can tell  *)
(* apart: the new length of the directory and the new directory are stored *)
(* one after the other, and outside the mutex both are read.               *)
(*                                                                         *)
(* An access past the end of the directory is undefined: the thread is     *)
(* then astray and the behaviour ends there.                               *)
(***************************************************************************)
EXTENDS Integers, Sequences

CONSTANTS
  Authors,     \* the threads that push
  Total,       \* bound: how many messages are pushed
  Getter,      \* the thread that calls get
  RowMsgs,     \* page_msg_count_, slots of a page
  FirstRows,   \* init_page_msg_count, entries of the first directory
  Nil          \* no page

ASSUME DrbAssumption ==
  /\ Total \in Nat /\ RowMsgs \in Nat \ {0} /\ FirstRows \in Nat \ {0}
  /\ Getter \notin Authors /\ Nil \notin Nat \cup Authors \cup {Getter}

VARIABLES
  next_post,     \* post_index_: indices given out
  write_index,   \* write_index_: pushes counted as written
  row_count,     \* page_index_count_
  directories,   \* every directory made: sequences of a page number or Nil
  directory,     \* page_indexes_: the number of the directory in use
  rows,          \* every page made: the message of each slot, or Nil
  owner,         \* the thread that holds mutex_, or Nil
  dpc,           \* where each thread is: the access it makes next
  at,            \* the index each thread works on
  row,           \* the page each thread got from get_msg_page
  got            \* the position and the result of the last finished get

drbVars == <<next_post, write_index, row_count, directories, directory, rows,
             owner, dpc, at, row, got>>

DrbThreads == Authors \cup {Getter}

NoRow == [s \in 0..RowMsgs - 1 |-> Nil]
Row(i) == i \div RowMsgs
Place(i) == i % RowMsgs

DrbInit ==
  /\ next_post = 0 /\ write_index = 0
  /\ row_count = FirstRows
  /\ directories = <<[r \in 1..FirstRows |-> IF r = 1 THEN 1 ELSE Nil]>>
  /\ directory = 1
  /\ rows = <<NoRow>>
  /\ owner = Nil
  /\ dpc = [t \in DrbThreads |-> "idle"]
  /\ at = [t \in DrbThreads |-> 0]
  /\ row = [t \in DrbThreads |-> Nil]
  /\ got = [pos |-> 0, msg |-> Nil]

Goes(t, from, to) == dpc[t] = from /\ dpc' = [dpc EXCEPT ![t] = to]

InUse == directories[directory]

(* An entry of the directory in use, if it has that many; and a thread     *)
(* that is about to use one it does not have.                              *)
RowEntry(r) == IF r < Len(InUse) THEN InUse[r + 1] ELSE Nil
Beyond(t) == Row(at[t]) >= Len(InUse)

(* Thread t uses the entry of its page and goes on, or goes astray.        *)
Uses(t, from, to) == Goes(t, from, IF Beyond(t) THEN "stray" ELSE to)

ClaimPosition(a) ==
  /\ next_post < Total
  /\ Goes(a, "idle", "test")
  /\ at' = [at EXCEPT ![a] = next_post]
  /\ next_post' = next_post + 1
  /\ UNCHANGED <<write_index, row_count, directories, directory, rows, owner,
                 row, got>>

(* get_msg_page: the test outside the mutex reads the length first and the *)
(* entry only if the length allows it.                                     *)
\* Fault: the test lets through the page right behind the directory.
TestLengthOff(t) ==
  /\ Goes(t, "test", IF Row(at[t]) > row_count THEN "lock" ELSE "entry")
  /\ UNCHANGED <<next_post, write_index, row_count, directories, directory,
                 rows, owner, at, row, got>>

TestLength(t) ==
  /\ Goes(t, "test", IF Row(at[t]) >= row_count THEN "lock" ELSE "entry")
  /\ UNCHANGED <<next_post, write_index, row_count, directories, directory,
                 rows, owner, at, row, got>>

TestEntry(t) ==
  /\ Uses(t, "entry", IF RowEntry(Row(at[t])) = Nil THEN "lock" ELSE "result")
  /\ UNCHANGED <<next_post, write_index, row_count, directories, directory,
                 rows, owner, at, row, got>>

Lock(t) ==
  /\ owner = Nil
  /\ Goes(t, "lock", IF Row(at[t]) >= row_count THEN "count" ELSE "make")
  /\ owner' = t
  /\ UNCHANGED <<next_post, write_index, row_count, directories, directory,
                 rows, at, row, got>>

(* The length the directory is extended to: doubled, and doubled again     *)
(* while the page lies beyond it.                                          *)
Extended(size, r) ==
  LET double[n \in Nat] == IF r > n THEN double[2 * n] ELSE n
  IN  double[size]

ExtendCount(t) ==
  /\ Goes(t, "count", "swap")
  /\ LET size == Extended(2 * row_count, Row(at[t]))
         copy == [r \in 1..size |-> IF r <= row_count
                                      THEN InUse[r] ELSE Nil]
     IN  /\ directories' = Append(directories, copy)
         /\ row_count' = size
  /\ UNCHANGED <<next_post, write_index, directory, rows, owner, at, row, got>>

SwapDirectory(t) ==
  /\ Goes(t, "swap", "make")
  /\ directory' = Len(directories)
  /\ UNCHANGED <<next_post, write_index, row_count, directories, rows, owner,
                 at, row, got>>

\* Fault: the entry is not looked at again under the mutex.
MakeRowAgain(t) ==
  /\ Uses(t, "make", "result")
  /\ owner' = Nil
  /\ IF ~Beyond(t)
       THEN /\ rows' = Append(rows, NoRow)
            /\ directories' =
                 [directories EXCEPT ![directory][Row(at[t]) + 1] = Len(rows) + 1]
       ELSE UNCHANGED <<rows, directories>>
  /\ UNCHANGED <<next_post, write_index, row_count, directory, at, row, got>>

MakeRow(t) ==
  /\ Uses(t, "make", "result")
  /\ owner' = Nil
  /\ IF ~Beyond(t) /\ RowEntry(Row(at[t])) = Nil
       THEN /\ rows' = Append(rows, NoRow)
            /\ directories' =
                 [directories EXCEPT ![directory][Row(at[t]) + 1] = Len(rows) + 1]
       ELSE UNCHANGED <<rows, directories>>
  /\ UNCHANGED <<next_post, write_index, row_count, directory, at, row, got>>

ReadEntry(t) ==
  /\ Uses(t, "result", IF t = Getter THEN "read" ELSE "store")
  /\ row' = [row EXCEPT ![t] = RowEntry(Row(at[t]))]
  /\ UNCHANGED <<next_post, write_index, row_count, directories, directory,
                 rows, owner, at, got>>

(* The message and its flag: the flag goes up behind a fence, and nothing  *)
(* reads the message of a slot whose flag is down.  A message is known by  *)
(* the index its push claimed.                                             *)
StoreRow(a) ==
  /\ Goes(a, "store", "written")
  /\ rows' = [rows EXCEPT ![row[a]][Place(at[a])] = at[a]]
  /\ UNCHANGED <<next_post, write_index, row_count, directories, directory,
                 owner, at, row, got>>

CountWritten(a) ==
  /\ Goes(a, "written", "idle")
  /\ write_index' = write_index + 1
  /\ UNCHANGED <<next_post, row_count, directories, directory, rows, owner,
                 at, row, got>>

(* get(pos): nothing to see for a position that is not written yet.        *)
BeginGet(pos) ==
  /\ pos < write_index
  /\ Goes(Getter, "idle", "test")
  /\ at' = [at EXCEPT ![Getter] = pos]
  /\ UNCHANGED <<next_post, write_index, row_count, directories, directory,
                 rows, owner, row, got>>

EndGet ==
  /\ Goes(Getter, "read", "idle")
  /\ got' = [pos |-> at[Getter],
             msg |-> rows[row[Getter]][Place(at[Getter])]]
  /\ UNCHANGED <<next_post, write_index, row_count, directories, directory,
                 rows, owner, at, row>>

Astray == \E t \in DrbThreads : dpc[t] = "stray"

DrbNext ==
  /\ ~Astray
  /\ \/ \E a \in Authors : ClaimPosition(a) \/ StoreRow(a) \/ CountWritten(a)
     \/ \E t \in DrbThreads : \/ TestLength(t) \/ TestEntry(t) \/ Lock(t)
                              \/ ExtendCount(t) \/ SwapDirectory(t)
                              \/ MakeRow(t) \/ ReadEntry(t)
     \/ (\E pos \in 0..Total - 1 : BeginGet(pos)) \/ EndGet

DrbSpec == DrbInit /\ [][DrbNext]_drbVars

----------------------------------------------------------------------------
(* No thread reads or writes past the end of the directory: push is called *)
(* multithread safe (mqueue.h:248).                                        *)
NoStray == ~Astray

(* A directory that was extended for a page has an entry for it            *)
(* (mqueue.h:203-204, 319-331: it "will be extended dynamically if         *)
(* necessary").                                                            *)
ExtendReaches == \A t \in DrbThreads : dpc[t] = "make" => ~Beyond(t)

(* There are two ways past the end, and no other: to read the entry        *)
(* outside the mutex while another thread has stored the new length and    *)
(* not yet the new directory (mqueue.h:329-330), and to extend the         *)
(* directory to just as many entries as the page has before it             *)
(* (mqueue.h:322).  What get_msg_page returns in the end is always inside. *)
StrayWays ==
  [][\A t \in DrbThreads :
       dpc[t] # "stray" /\ dpc'[t] = "stray" =>
         \/ dpc[t] = "entry" /\ \E u \in DrbThreads : dpc[u] = "swap"
         \/ dpc[t] = "make" /\ Row(at[t]) = row_count
    ]_drbVars

(* The message of position i is where get looks for it.                    *)
Kept(i) ==
  /\ Row(i) < Len(InUse) /\ RowEntry(Row(i)) # Nil
  /\ rows[RowEntry(Row(i))][Place(i)] = i

(* "it would never remove message from queue" (mqueue.h:192): a message    *)
(* that was stored stays where get finds it, whatever other pushes store,  *)
(* make or replace, and with however many threads.                         *)
NeverRemoved == [][\A i \in 0..Total - 1 : Kept(i) => Kept(i)']_drbVars

(* A get that looked up its page, perhaps through an older directory,      *)
(* returns the message of its position if that is stored by now, otherwise *)
(* nothing, and never another position's (mqueue.h:270-286).               *)
GetFinds ==
  [][got' # got =>
       got'.msg = IF Kept(got'.pos) THEN got'.pos ELSE Nil]_drbVars
=============================================================================
