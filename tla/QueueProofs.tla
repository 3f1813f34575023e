---------------------------- MODULE QueueProofs ----------------------------
(***************************************************************************)
(* What is proved of srt_queue (SrtQueue.tla) and drb_queue (DrbQueue.tla) *)
(* for any number of pushing threads and pushes and any size of pages.     *)
(***************************************************************************)
EXTENDS SrtQueue, DrbQueue, FiniteSetTheorems, WellFoundedInduction, TLAPS

(* Pages and the slots on them.                                            *)

LEMMA DivMod ==
  ASSUME NEW n \in Nat, NEW k \in Nat \ {0}
  PROVE  /\ n \div k \in Nat /\ n % k \in 0 .. k - 1
         /\ n = k * (n \div k) + (n % k)
OBVIOUS

LEMMA DivModUnique ==
  ASSUME NEW k \in Nat \ {0}, NEW q \in Nat, NEW r \in 0 .. k - 1
  PROVE  (k * q + r) \div k = q /\ (k * q + r) % k = r
OBVIOUS

LEMMA DivMonotonic ==
  ASSUME NEW k \in Nat \ {0}, NEW i \in Nat, NEW j \in Nat, i <= j
  PROVE  i \div k <= j \div k
BY DivMod

\* The next index is the next slot, or the first one of the next page.
LEMMA DivModNext ==
  ASSUME NEW k \in Nat \ {0}, NEW i \in Nat
  PROVE  /\ i % k = k - 1 => (i + 1) \div k = (i \div k) + 1 /\ (i + 1) % k = 0
         /\ i % k # k - 1 => (i + 1) \div k = i \div k /\ (i + 1) % k = (i % k) + 1
<1>1. PICK q \in Nat : q = i \div k
  BY DivMod
<1>2. PICK r \in 0 .. k - 1 : r = i % k
  BY DivMod
<1>3. i = k * q + r
  BY <1>1, <1>2, DivMod
<1>4. PICK m \in Nat : m = i + 1
  OBVIOUS
<1>5. ASSUME r = k - 1
      PROVE  m \div k = q + 1 /\ m % k = 0
  <2>1. PICK s \in Nat : s = q + 1
    OBVIOUS
  <2>2. m = k * s + 0 /\ 0 \in 0 .. k - 1
    BY <1>3, <1>4, <1>5, <2>1
  <2>3. (k * s + 0) \div k = s /\ (k * s + 0) % k = 0
    BY <2>2, DivModUnique
  <2> QED
    BY <2>1, <2>2, <2>3
<1>6. ASSUME r # k - 1
      PROVE  m \div k = q /\ m % k = r + 1
  <2>1. PICK s \in 0 .. k - 1 : s = r + 1
    BY <1>6
  <2>2. m = k * q + s
    BY <1>3, <1>4, <2>1
  <2>3. (k * q + s) \div k = q /\ (k * q + s) % k = s
    BY DivModUnique
  <2> QED
    BY <2>1, <2>2, <2>3
<1> QED
  BY <1>1, <1>2, <1>4, <1>5, <1>6

LEMMA DivModSame ==
  ASSUME NEW k \in Nat \ {0}, NEW i \in Nat, NEW j \in Nat,
         i % k = j % k, i \div k = j \div k
  PROVE  i = j
BY DivMod

\* Two numbers less than k apart with the same remainder are one.
LEMMA ModNear ==
  ASSUME NEW k \in Nat \ {0}, NEW i \in Nat, NEW j \in Nat,
         i % k = j % k, i <= j, j < i + k
  PROVE  i = j
<1>a. PICK a \in Nat : a = i \div k
  BY DivMod
<1>b. PICK b \in Nat : b = j \div k
  BY DivMod
<1>c. PICK r \in 0 .. k - 1 : r = i % k
  BY DivMod
<1>1. i = k * a + r /\ j = k * b + r
  BY <1>a, <1>b, <1>c, DivMod
<1>2. CASE b <= a
  <2>1. k * b <= k * a
    BY <1>2
  <2> QED
    BY <1>1, <2>1
<1>3. CASE b >= a + 1
  <2>1. k * b >= k * (a + 1)
    BY <1>3
  <2>2. k * (a + 1) = k * a + k
    OBVIOUS
  <2> QED
    BY <1>1, <2>1, <2>2
<1> QED
  BY <1>2, <1>3

LEMMA ModAround ==
  ASSUME NEW k \in Nat \ {0}, NEW i \in Nat
  PROVE  (i + k) % k = i % k
<1>1. PICK q \in Nat, r \in 0 .. k - 1 : r = i % k /\ i = k * q + r
  BY DivMod
<1>2. PICK s \in Nat : s = q + 1
  OBVIOUS
<1>3. i + k = k * s + r
  BY <1>1, <1>2
<1>4. (k * s + r) % k = r
  BY DivModUnique
<1> QED
  BY <1>1, <1>3, <1>4

-----------------------------------------------------------------------------
(* srt_queue: the invariant.                                               *)

PushPlaces == {"idle", "room", "claim", "page", "allocate", "fetch", "store", "flag"}
PopPlaces == {"idle", "page", "allocate", "fetch", "test", "take", "delete", "unlink", "advance"}

\* A page of the heap, as FreshPage and later.
SrtSlot == [msg : SrtMessages \cup {Null}, flag : BOOLEAN]
HeapPage == [live : BOOLEAN, slots : [0 .. PageMsgs - 1 -> SrtSlot]]

SrtTypeOK ==
  /\ post_index \in Nat /\ get_index \in Nat
  /\ page_indexes \in [0 .. Pages - 1 -> Nat \cup {Null}]
  /\ heap \in Seq(HeapPage)
  /\ qpc \in [SrtThreads -> PushPlaces \cup PopPlaces]
  /\ \A p \in Pushers : qpc[p] \in PushPlaces
  /\ qpc[Reader] \in PopPlaces
  /\ seen \in [Pushers -> Nat]
  /\ index \in [SrtThreads -> Nat]
  /\ page \in [SrtThreads -> Nat \cup {Null}]
  /\ calls \in [Pushers -> Nat]
  /\ \A p \in Pushers : calls[p] <= Pushes /\ (qpc[p] # "idle" => calls[p] >= 1)
  /\ accepted \in Seq(SrtMessages) /\ popped \in Seq(SrtMessages)

\* The page an index lies on, counted without wrapping around the directory.
Leaf(i) == i \div PageMsgs

\* The indices whose pages the directory has entries for: from the reader's page on.
OpenFrom(g, i) == g <= i /\ Leaf(i) < Leaf(g) + Pages
Open(i) == OpenFrom(get_index, i)

PageOf(i) == page_indexes[Entry(i)]
SlotOf(i) == heap[PageOf(i)].slots[Slot(i)]
Raised(i) == PageOf(i) # Null /\ SlotOf(i).flag

\* A push that has its index and has not raised its flag; a pop that has its message and
\* has not moved get_index_.
Active(p) == qpc[p] \in {"page", "allocate", "fetch", "store", "flag"}
Popping == qpc[Reader] \in {"delete", "unlink", "advance"}

\* An entry names a page of the heap of its own, which lives unless it is just being
\* unlinked.
Directory ==
  /\ \A e \in 0 .. Pages - 1 : page_indexes[e] # Null =>
       /\ page_indexes[e] \in 1 .. Len(heap)
       /\ heap[page_indexes[e]].live \/ (qpc[Reader] = "unlink" /\ e = Entry(get_index))
  /\ \A e, f \in 0 .. Pages - 1 :
       page_indexes[e] = page_indexes[f] /\ page_indexes[e] # Null => e = f

\* The indices given out and not popped have entries; an active push has one of them,
\* the one its message was accepted for, and once it has its page that page is the
\* entry's.
Given ==
  /\ Len(accepted) = post_index /\ get_index <= post_index
  /\ \A i \in Nat : get_index <= i /\ i < post_index => Open(i)
  /\ \A p \in Pushers : Active(p) =>
       /\ get_index <= index[p] /\ index[p] < post_index
       /\ accepted[index[p] + 1] = << p, calls[p] >>

Fetched ==
  /\ \A t \in SrtThreads : qpc[t] = "fetch" => PageOf(index[t]) # Null
  /\ \A p \in Pushers : qpc[p] \in {"store", "flag"} =>
       page[p] # Null /\ page[p] = PageOf(index[p])
  /\ \A p \in Pushers : qpc[p] = "flag" => SlotOf(index[p]).msg = << p, calls[p] >>

\* A raised flag means the message accepted for its index, and no push still at it.
FlagsTrue ==
  \A i \in Nat : Open(i) /\ Raised(i) =>
    /\ i < post_index
    /\ SlotOf(i).msg = accepted[i + 1]
    /\ \A p \in Pushers : Active(p) => index[p] # i

\* Where the reader is.
Reading ==
  /\ qpc[Reader] # "idle" => index[Reader] = get_index /\ get_index < post_index
  /\ qpc[Reader] \in {"test", "take", "delete", "unlink"} =>
       page[Reader] # Null /\ page[Reader] = PageOf(get_index)
  /\ qpc[Reader] \in {"delete", "unlink"} => Slot(get_index) = PageMsgs - 1
  /\ qpc[Reader] = "take" => Raised(get_index)
  /\ qpc[Reader] = "take" \/ Popping => \A p \in Pushers : Active(p) => index[p] # get_index
  /\ qpc[Reader] = "advance" /\ Slot(get_index) = PageMsgs - 1 => PageOf(get_index) = Null

Popped ==
  /\ Len(popped) = IF Popping THEN get_index + 1 ELSE get_index
  /\ \A k \in 1 .. Len(popped) : popped[k] = accepted[k]

SrtInv ==
  SrtTypeOK /\ Directory /\ Given /\ Fetched /\ FlagsTrue /\ Reading /\ Popped

\* The claim stays inside the directory.
ClaimInDirectory ==
  post_index' # post_index => Leaf(post_index) < Leaf(get_index) + Pages

\* How far ahead pushers get.
Allowed == (Pages - 1) * PageMsgs

Bound ==
  /\ Len(accepted) = post_index
  /\ \A p \in Pushers : qpc[p] \in {"room", "claim"} =>
       /\ seen[p] <= post_index
       /\ \A k \in 1 .. post_index : accepted[k][1] = p => k <= seen[p]
  /\ \A p \in Pushers : qpc[p] = "claim" => seen[p] < get_index + Allowed
  /\ \A j, k \in 1 .. post_index :
       get_index + Allowed <= j /\ j < k => accepted[j][1] # accepted[k][1]

-----------------------------------------------------------------------------
(* Indices, entries of the directory and slots.                            *)

LEMMA IndexFacts ==
  ASSUME NEW i \in Nat
  PROVE  Leaf(i) \in Nat /\ Entry(i) \in 0 .. Pages - 1 /\ Slot(i) \in 0 .. PageMsgs - 1
BY DivMod, SrtAssumption DEF Leaf, Entry, Slot

\* Two open indices with one entry lie on one page; with one slot too they are the same.
LEMMA OneLeaf ==
  ASSUME NEW g \in Nat, NEW i \in Nat, NEW j \in Nat, OpenFrom(g, i), OpenFrom(g, j),
         Entry(i) = Entry(j)
  PROVE  Leaf(i) = Leaf(j)
<1>1. /\ Leaf(i) \in Nat /\ Leaf(j) \in Nat /\ Leaf(g) \in Nat /\ Pages \in Nat \ {0}
      /\ Leaf(g) <= Leaf(i) /\ Leaf(g) <= Leaf(j)
  BY IndexFacts, DivMonotonic, SrtAssumption DEF OpenFrom, Leaf
<1>2. Leaf(i) < Leaf(j) + Pages /\ Leaf(j) < Leaf(i) + Pages
  BY <1>1 DEF OpenFrom
<1>3. Leaf(i) % Pages = Leaf(j) % Pages
  BY DEF Entry, Leaf
<1>4. CASE Leaf(i) <= Leaf(j)
  BY <1>1, <1>2, <1>3, <1>4, ModNear
<1>5. CASE Leaf(j) <= Leaf(i)
  BY <1>1, <1>2, <1>3, <1>5, ModNear
<1> QED
  BY <1>1, <1>4, <1>5

LEMMA OnePlace ==
  ASSUME NEW g \in Nat, NEW i \in Nat, NEW j \in Nat, OpenFrom(g, i), OpenFrom(g, j),
         Entry(i) = Entry(j), Slot(i) = Slot(j)
  PROVE  i = j
<1>1. Leaf(i) = Leaf(j)
  BY OneLeaf
<1>2. i % PageMsgs = j % PageMsgs /\ i \div PageMsgs = j \div PageMsgs
  BY <1>1 DEF Leaf, Slot
<1>3. PageMsgs \in Nat \ {0}
  BY SrtAssumption
<1> QED
  BY <1>2, <1>3, DivModSame

\* The last slot of the reader's page has no open index of that page behind it.
LEMMA LastPlace ==
  ASSUME NEW g \in Nat, NEW i \in Nat, OpenFrom(g, i), Entry(i) = Entry(g),
         Slot(g) = PageMsgs - 1
  PROVE  i = g
<1>1. OpenFrom(g, g)
  BY IndexFacts, SrtAssumption DEF OpenFrom
<1>2. Leaf(i) = Leaf(g)
  BY <1>1, OneLeaf
<1>3. PageMsgs \in Nat \ {0}
  BY SrtAssumption
<1>4. i = PageMsgs * Leaf(i) + Slot(i)
  BY <1>3, DivMod DEF Leaf, Slot
<1>5. g = PageMsgs * Leaf(g) + Slot(g)
  BY <1>3, DivMod DEF Leaf, Slot
<1>6. PICK n \in Int : n = PageMsgs * Leaf(g)
  BY <1>3, IndexFacts
<1>7. Slot(i) \in 0 .. PageMsgs - 1 /\ g <= i
  BY IndexFacts DEF OpenFrom
<1> QED
  BY <1>2, <1>3, <1>4, <1>5, <1>6, <1>7

\* What moving get_index_ closes and opens.
LEMMA OpenNext ==
  ASSUME NEW g \in Nat, NEW i \in Nat
  PROVE  /\ OpenFrom(g, i) /\ i # g => OpenFrom(g + 1, i)
         /\ OpenFrom(g + 1, i) =>
              i # g /\ (OpenFrom(g, i) \/ (Slot(g) = PageMsgs - 1 /\ Entry(i) = Entry(g)))
<1>0. PageMsgs \in Nat \ {0} /\ Pages \in Nat \ {0} /\ Leaf(g) \in Nat /\ Leaf(i) \in Nat
      /\ g + 1 \in Nat /\ Leaf(g + 1) \in Nat
  BY IndexFacts, SrtAssumption
<1>1. /\ Slot(g) = PageMsgs - 1 => Leaf(g + 1) = Leaf(g) + 1
      /\ Slot(g) # PageMsgs - 1 => Leaf(g + 1) = Leaf(g)
  BY <1>0, DivModNext DEF Leaf, Slot
<1>2. OpenFrom(g, i) /\ i # g => OpenFrom(g + 1, i)
  BY <1>0, <1>1, IndexFacts DEF OpenFrom
<1>3. ASSUME OpenFrom(g + 1, i), ~OpenFrom(g, i)
      PROVE  Slot(g) = PageMsgs - 1 /\ Entry(i) = Entry(g)
  <2>1. Slot(g) = PageMsgs - 1 /\ Leaf(i) = Leaf(g) + Pages
    BY <1>0, <1>1, <1>3 DEF OpenFrom
  <2> QED
    BY <1>0, <2>1, ModAround DEF Entry, Leaf
<1> QED
  BY <1>0, <1>2, <1>3 DEF OpenFrom

-----------------------------------------------------------------------------
(* srt_queue: what a state with the invariant gives.                       *)

SharedVars == << post_index, get_index, page_indexes, heap, accepted, popped >>

LEMMA PlaceFacts ==
  ASSUME SrtInv, NEW i \in Nat, PageOf(i) # Null
  PROVE  /\ Entry(i) \in 0 .. Pages - 1 /\ Slot(i) \in 0 .. PageMsgs - 1
         /\ PageOf(i) \in 1 .. Len(heap) /\ heap[PageOf(i)] \in HeapPage
         /\ SlotOf(i) \in SrtSlot
<1>1. Entry(i) \in 0 .. Pages - 1 /\ Slot(i) \in 0 .. PageMsgs - 1
  BY IndexFacts
<1>2. PageOf(i) \in 1 .. Len(heap)
  BY <1>1 DEF SrtInv, Directory, PageOf
<1>3. heap[PageOf(i)] \in HeapPage
  BY <1>2 DEF SrtInv, SrtTypeOK
<1> QED
  BY <1>1, <1>2, <1>3 DEF SlotOf, HeapPage

\* Two open indices with one page and one slot are the same index.
LEMMA OneSlot ==
  ASSUME SrtInv, NEW i \in Nat, NEW j \in Nat, Open(i), Open(j),
         PageOf(i) # Null, PageOf(i) = PageOf(j), Slot(i) = Slot(j)
  PROVE  i = j
<1>1. Entry(i) \in 0 .. Pages - 1 /\ Entry(j) \in 0 .. Pages - 1
  BY IndexFacts
<1>2. Entry(i) = Entry(j)
  BY <1>1 DEF SrtInv, Directory, PageOf
<1>3. get_index \in Nat /\ OpenFrom(get_index, i) /\ OpenFrom(get_index, j)
  BY DEF SrtInv, SrtTypeOK, Open
<1> QED
  BY <1>2, <1>3, OnePlace

\* An active push has an open index.
LEMMA PushOpen ==
  ASSUME SrtInv, NEW p \in Pushers, Active(p)
  PROVE  /\ index[p] \in Nat /\ Open(index[p])
         /\ get_index <= index[p] /\ index[p] < post_index
BY DEF SrtInv, SrtTypeOK, Given, SrtThreads

\* What a step that leaves the shared variables alone and gives no push an index keeps.
LEMMA SharedKept ==
  ASSUME SrtInv, UNCHANGED SharedVars,
         \A p \in Pushers : Active(p)' =>
           Active(p) /\ index'[p] = index[p] /\ calls'[p] = calls[p],
         qpc[Reader] = "unlink" => qpc'[Reader] = "unlink"
  PROVE  Directory' /\ Given' /\ FlagsTrue'
<1>1. Directory'
  BY DEF SrtInv, Directory, SharedVars
<1>2. Given'
  BY DEF SrtInv, Given, Open, OpenFrom, SharedVars
<1>3. FlagsTrue'
  BY DEF SrtInv, FlagsTrue, Open, OpenFrom, Raised, PageOf, SlotOf, SharedVars
<1> QED
  BY <1>1, <1>2, <1>3

-----------------------------------------------------------------------------
(* srt_queue: the steps.                                                   *)

LEMMA SrtInitInv == SrtInit => SrtInv
<1> SUFFICES ASSUME SrtInit PROVE SrtInv
  OBVIOUS
<1> USE SrtAssumption
<1>1. FreshPage \in HeapPage /\ FreshPage.live
  BY DEF FreshPage, HeapPage, SrtSlot
<1>2. SrtTypeOK
  BY <1>1 DEF SrtInit, SrtTypeOK, SrtThreads, PushPlaces, PopPlaces
<1>3. Directory
  BY <1>1 DEF SrtInit, Directory
<1>4. Given
  BY DEF SrtInit, Given, Active, SrtThreads
<1>5. Fetched
  BY DEF SrtInit, Fetched, SrtThreads
<1>6. FlagsTrue
  <2> SUFFICES ASSUME NEW i \in Nat, Raised(i) PROVE FALSE
    BY DEF FlagsTrue
  <2>1. Entry(i) \in 0 .. Pages - 1 /\ Slot(i) \in 0 .. PageMsgs - 1
    BY IndexFacts
  <2>2. PageOf(i) = 1
    BY <2>1 DEF SrtInit, Raised, PageOf
  <2>3. heap[1] = FreshPage
    BY DEF SrtInit
  <2> QED
    BY <2>1, <2>2, <2>3 DEF Raised, SlotOf, FreshPage
<1>7. Reading
  BY DEF SrtInit, Reading, Popping, SrtThreads
<1>8. Popped
  BY DEF SrtInit, Popped, Popping, SrtThreads
<1> QED
  BY <1>2, <1>3, <1>4, <1>5, <1>6, <1>7, <1>8 DEF SrtInv

LEMMA LoadPostInv ==
  ASSUME SrtInv, NEW p \in Pushers, LoadPost(p)
  PROVE  SrtInv'
<1> USE SrtAssumption
<1>1. SrtTypeOK'
  BY SMTT(30) DEF SrtInv, SrtTypeOK, LoadPost, At, SrtThreads, PushPlaces, PopPlaces
<1>2. Directory' /\ Given' /\ FlagsTrue'
  BY SharedKept DEF SrtInv, SrtTypeOK, LoadPost, At, SrtThreads, Active, SharedVars
<1>3. Fetched'
  BY DEF SrtInv, SrtTypeOK, Fetched, LoadPost, At, SrtThreads, PageOf, SlotOf
<1>4. Reading'
  BY DEF SrtInv, SrtTypeOK, Reading, LoadPost, At, SrtThreads, Popping, Active, PageOf,
         SlotOf, Raised
<1>5. Popped'
  BY DEF SrtInv, SrtTypeOK, Popped, LoadPost, At, SrtThreads, Popping
<1> QED
  BY <1>1, <1>2, <1>3, <1>4, <1>5 DEF SrtInv

LEMMA TestRoomInv ==
  ASSUME SrtInv, NEW p \in Pushers, TestRoom(p)
  PROVE  SrtInv'
<1> USE SrtAssumption
<1>1. PICK to \in {"idle", "claim"} : At(p, "room", to)
  BY DEF TestRoom
<1>2. UNCHANGED << SharedVars, index, page, calls, seen >>
  BY DEF TestRoom, SharedVars
<1>3. SrtTypeOK'
  BY <1>1, <1>2 DEF SrtInv, SrtTypeOK, At, SrtThreads, PushPlaces, PopPlaces, SharedVars
<1>4. Directory' /\ Given' /\ FlagsTrue'
  BY <1>1, <1>2, SharedKept DEF SrtInv, SrtTypeOK, At, SrtThreads, Active
<1>5. Fetched'
  BY <1>1, <1>2 DEF SrtInv, SrtTypeOK, Fetched, At, SrtThreads, PageOf, SlotOf, SharedVars
<1>6. Reading'
  BY <1>1, <1>2 DEF SrtInv, SrtTypeOK, Reading, At, SrtThreads, Popping, Active, PageOf,
         SlotOf, Raised, SharedVars
<1>7. Popped'
  BY <1>1, <1>2 DEF SrtInv, SrtTypeOK, Popped, At, SrtThreads, Popping, SharedVars
<1> QED
  BY <1>3, <1>4, <1>5, <1>6, <1>7 DEF SrtInv

LEMMA TestPageInv ==
  ASSUME SrtInv, NEW t \in SrtThreads, TestPage(t)
  PROVE  SrtInv'
<1> USE SrtAssumption
<1>1. PICK to \in {"allocate", "fetch"} :
        At(t, "page", to) /\ (to = "fetch" => PageOf(index[t]) # Null)
  BY DEF TestPage, PageOf
<1>2. UNCHANGED << SharedVars, index, page, calls, seen >>
  BY DEF TestPage, SharedVars
<1>3. SrtTypeOK'
  BY <1>1, <1>2 DEF SrtInv, SrtTypeOK, At, SrtThreads, PushPlaces, PopPlaces, SharedVars
<1>4. Directory' /\ Given' /\ FlagsTrue'
  BY <1>1, <1>2, SharedKept DEF SrtInv, SrtTypeOK, At, SrtThreads, Active
<1>5. Fetched'
  BY <1>1, <1>2 DEF SrtInv, SrtTypeOK, Fetched, At, SrtThreads, PageOf, SlotOf, SharedVars
<1>6. Reading'
  BY <1>1, <1>2 DEF SrtInv, SrtTypeOK, Reading, At, SrtThreads, Popping, Active, PageOf,
         SlotOf, Raised, SharedVars
<1>7. Popped'
  BY <1>1, <1>2 DEF SrtInv, SrtTypeOK, Popped, At, SrtThreads, Popping, SharedVars
<1> QED
  BY <1>3, <1>4, <1>5, <1>6, <1>7 DEF SrtInv

LEMMA FetchPageInv ==
  ASSUME SrtInv, NEW t \in SrtThreads, FetchPage(t)
  PROVE  SrtInv'
<1> USE SrtAssumption
<1>1. /\ At(t, "fetch", IF t = Reader THEN "test" ELSE "store")
      /\ page' = [page EXCEPT ![t] = PageOf(index[t])]
      /\ PageOf(index[t]) # Null
  BY DEF FetchPage, PageOf, At, SrtInv, Fetched
<1>2. UNCHANGED << SharedVars, index, calls, seen >>
  BY DEF FetchPage, SharedVars
<1>0. PageOf(index[t]) \in Nat
  BY <1>1, PlaceFacts DEF SrtInv, SrtTypeOK
<1>3. SrtTypeOK'
  BY <1>0, <1>1, <1>2 DEF SrtInv, SrtTypeOK, At, SrtThreads, PushPlaces, PopPlaces, SharedVars
<1>4. Directory' /\ Given' /\ FlagsTrue'
  BY <1>1, <1>2, SharedKept DEF SrtInv, SrtTypeOK, At, SrtThreads, Active
<1>5. Fetched'
  BY <1>1, <1>2 DEF SrtInv, SrtTypeOK, Fetched, At, SrtThreads, PageOf, SlotOf, SharedVars
<1>6. Reading'
  BY <1>1, <1>2 DEF SrtInv, SrtTypeOK, Reading, At, SrtThreads, Popping, Active, PageOf,
         SlotOf, Raised, SharedVars
<1>7. Popped'
  BY <1>1, <1>2 DEF SrtInv, SrtTypeOK, Popped, At, SrtThreads, Popping, SharedVars
<1> QED
  BY <1>3, <1>4, <1>5, <1>6, <1>7 DEF SrtInv

LEMMA BeginPopInv ==
  ASSUME SrtInv, BeginPop
  PROVE  SrtInv'
<1> USE SrtAssumption
<1>1. SrtTypeOK'
  BY DEF SrtInv, SrtTypeOK, BeginPop, At, SrtThreads, PushPlaces, PopPlaces
<1>2. Directory' /\ Given' /\ FlagsTrue'
  BY SharedKept DEF SrtInv, SrtTypeOK, BeginPop, At, SrtThreads, Active, SharedVars
<1>3. Fetched'
  BY DEF SrtInv, SrtTypeOK, Fetched, BeginPop, At, SrtThreads, PageOf, SlotOf
<1>4. Reading'
  BY DEF SrtInv, SrtTypeOK, Reading, BeginPop, At, SrtThreads, Popping, Active, PageOf,
         SlotOf, Raised
<1>5. Popped'
  BY DEF SrtInv, SrtTypeOK, Popped, BeginPop, At, SrtThreads, Popping
<1> QED
  BY <1>1, <1>2, <1>3, <1>4, <1>5 DEF SrtInv

LEMMA GetOpen ==
  ASSUME SrtInv
  PROVE  get_index \in Nat /\ Open(get_index)
<1>1. get_index \in Nat
  BY DEF SrtInv, SrtTypeOK
<1>2. Leaf(get_index) \in Nat /\ Pages \in Nat \ {0}
  BY <1>1, IndexFacts, SrtAssumption
<1> QED
  BY <1>1, <1>2 DEF Open, OpenFrom

LEMMA TestFlagInv ==
  ASSUME SrtInv, TestFlag
  PROVE  SrtInv'
<1> USE SrtAssumption
<1>1. PICK to \in {"take", "idle"} :
        At(Reader, "test", to) /\ (to = "take" => Raised(get_index))
  BY DEF TestFlag, At, SrtInv, Reading, Raised, SlotOf
<1>2. UNCHANGED << SharedVars, index, page, calls, seen >>
  BY DEF TestFlag, SharedVars
<1>3. SrtTypeOK'
  BY <1>1, <1>2 DEF SrtInv, SrtTypeOK, At, SrtThreads, PushPlaces, PopPlaces, SharedVars
<1>4. Directory' /\ Given' /\ FlagsTrue'
  BY <1>1, <1>2, SharedKept DEF SrtInv, SrtTypeOK, At, SrtThreads, Active
<1>5. Fetched'
  BY <1>1, <1>2 DEF SrtInv, SrtTypeOK, Fetched, At, SrtThreads, PageOf, SlotOf, SharedVars
<1>6. to = "take" => \A p \in Pushers : Active(p) => index[p] # get_index
  BY <1>1, GetOpen DEF SrtInv, FlagsTrue
<1>7. Reading'
  BY <1>1, <1>2, <1>6 DEF SrtInv, SrtTypeOK, Reading, At, SrtThreads, Popping, Active,
         PageOf, SlotOf, Raised, SharedVars
<1>8. Popped'
  BY <1>1, <1>2 DEF SrtInv, SrtTypeOK, Popped, At, SrtThreads, Popping, SharedVars
<1> QED
  BY <1>3, <1>4, <1>5, <1>7, <1>8 DEF SrtInv

\* What the reader takes is the message accepted for its index.
LEMMA TakeFacts ==
  ASSUME SrtInv, qpc[Reader] = "take"
  PROVE  /\ index[Reader] = get_index /\ page[Reader] = PageOf(get_index)
         /\ get_index < post_index /\ Raised(get_index)
         /\ SlotOf(get_index).msg = accepted[get_index + 1]
         /\ accepted[get_index + 1] \in SrtMessages
         /\ Len(popped) = get_index
<1>1. /\ index[Reader] = get_index /\ page[Reader] = PageOf(get_index)
      /\ get_index < post_index /\ Raised(get_index)
  BY DEF SrtInv, Reading
<1>2. SlotOf(get_index).msg = accepted[get_index + 1]
  BY <1>1, GetOpen DEF SrtInv, FlagsTrue
<1>3. get_index + 1 \in 1 .. Len(accepted)
  BY <1>1, GetOpen DEF SrtInv, Given, SrtTypeOK
<1>4. accepted[get_index + 1] \in SrtMessages
  BY <1>3 DEF SrtInv, SrtTypeOK
<1>5. Len(popped) = get_index
  BY DEF SrtInv, Popped, Popping
<1> QED
  BY <1>1, <1>2, <1>4, <1>5

LEMMA TakeMessageInv ==
  ASSUME SrtInv, TakeMessage
  PROVE  SrtInv'
<1> USE SrtAssumption
<1>1. PICK to \in {"delete", "advance"} :
        At(Reader, "take", to) /\ (to = "delete" <=> Slot(get_index) = PageMsgs - 1)
  BY TakeFacts DEF TakeMessage, At
<1>2. /\ UNCHANGED << post_index, get_index, page_indexes, heap, accepted >>
      /\ UNCHANGED << index, page, calls, seen >>
  BY DEF TakeMessage
<1>3. PICK m \in SrtMessages : m = accepted[get_index + 1]
  BY <1>1, TakeFacts DEF At
<1>4. popped' = Append(popped, m)
  BY <1>1, <1>3, TakeFacts DEF TakeMessage, At, SlotOf
<1>5. SrtTypeOK'
  BY <1>1, <1>2, <1>4 DEF SrtInv, SrtTypeOK, At, SrtThreads, PushPlaces, PopPlaces
<1>6. /\ \A p \in Pushers : qpc'[p] = qpc[p]
      /\ qpc[Reader] = "take" /\ qpc'[Reader] = to
  BY <1>1 DEF At, SrtInv, SrtTypeOK, SrtThreads
<1>7. Directory'
  BY <1>2, <1>6 DEF SrtInv, Directory
<1>8. Given'
  BY <1>2, <1>6 DEF SrtInv, Given, Open, OpenFrom, Active
<1>9. FlagsTrue'
  BY <1>2, <1>6 DEF SrtInv, FlagsTrue, Open, OpenFrom, Raised, PageOf, SlotOf, Active
<1>10. Fetched'
  BY <1>1, <1>2 DEF SrtInv, SrtTypeOK, Fetched, At, SrtThreads, PageOf, SlotOf
<1>11. Reading'
  BY <1>1, <1>2, <1>6 DEF SrtInv, SrtTypeOK, Reading, SrtThreads, Popping, Active,
         PageOf, SlotOf, Raised
<1>12. Popped'
  <2>1. Len(popped) = get_index /\ popped \in Seq(SrtMessages) /\ get_index \in Nat
    BY <1>6, TakeFacts DEF SrtInv, SrtTypeOK
  <2>2. Len(popped') = get_index + 1 /\ popped'[get_index + 1] = m
    BY <1>4, <2>1
  <2>3. \A k \in 1 .. get_index : popped'[k] = accepted[k]
    BY <1>4, <2>1 DEF SrtInv, Popped
  <2>4. \A k \in 1 .. get_index + 1 : popped'[k] = accepted[k]
    BY <1>3, <2>1, <2>2, <2>3
  <2>5. Popping'
    BY <1>6 DEF Popping
  <2> QED
    BY <1>2, <2>2, <2>4, <2>5 DEF Popped
<1> QED
  BY <1>5, <1>7, <1>8, <1>9, <1>10, <1>11, <1>12 DEF SrtInv

\* While the last slot of its page is popped, no push is on that page.
LEMMA NobodyBehind ==
  ASSUME SrtInv, Popping, Slot(get_index) = PageMsgs - 1, NEW p \in Pushers, Active(p)
  PROVE  Entry(index[p]) # Entry(get_index)
<1>1. index[p] # get_index
  BY DEF SrtInv, Reading, Popping
<1>2. index[p] \in Nat /\ OpenFrom(get_index, index[p]) /\ get_index \in Nat
  BY PushOpen, GetOpen DEF Open
<1> QED
  BY <1>1, <1>2, LastPlace

LEMMA DeletePageInv ==
  ASSUME SrtInv, DeletePage
  PROVE  SrtInv'
<1> USE SrtAssumption
<1>1. /\ UNCHANGED << post_index, get_index, page_indexes, accepted, popped >>
      /\ UNCHANGED << index, page, calls, seen >>
      /\ At(Reader, "delete", "unlink")
  BY DEF DeletePage
<1>2. /\ \A p \in Pushers : qpc'[p] = qpc[p]
      /\ qpc[Reader] = "delete" /\ qpc'[Reader] = "unlink"
  BY <1>1 DEF At, SrtInv, SrtTypeOK, SrtThreads
<1>3. /\ PageOf(get_index) # Null
      /\ heap' = [heap EXCEPT ![PageOf(get_index)].live = FALSE]
  BY <1>2 DEF DeletePage, SrtInv, Reading
<1>4. PICK g \in 1 .. Len(heap) : g = PageOf(get_index)
  BY <1>3, GetOpen, PlaceFacts
<1>5. /\ heap' \in Seq(HeapPage) /\ Len(heap') = Len(heap)
      /\ \A k \in 1 .. Len(heap) : heap'[k].slots = heap[k].slots
      /\ \A k \in 1 .. Len(heap) : k # g => heap'[k] = heap[k]
  <2>1. heap \in Seq(HeapPage) /\ heap[g] \in HeapPage
    BY DEF SrtInv, SrtTypeOK
  <2>2. PICK h \in HeapPage : h = [heap[g] EXCEPT !.live = FALSE]
    BY <2>1 DEF HeapPage
  <2>3. heap' = [heap EXCEPT ![g] = h]
    BY <1>3, <1>4, <2>2
  <2>4. h.slots = heap[g].slots
    BY <2>1, <2>2 DEF HeapPage
  <2> QED
    BY <2>1, <2>3, <2>4
<1>6. \A i \in Nat : PageOf(i) # Null =>
        PageOf(i)' = PageOf(i) /\ SlotOf(i)' = SlotOf(i)
  BY <1>1, <1>5, PlaceFacts DEF PageOf, SlotOf
<1>7. \A i \in Nat : PageOf(i)' = PageOf(i)
  BY <1>1 DEF PageOf
<1>8. SrtTypeOK'
  BY <1>1, <1>5 DEF SrtInv, SrtTypeOK, At, SrtThreads, PushPlaces, PopPlaces
<1>9. Directory'
  <2>1. Entry(get_index) \in 0 .. Pages - 1
    BY GetOpen, IndexFacts
  <2> QED
    BY <1>1, <1>2, <1>4, <1>5, <2>1 DEF SrtInv, Directory, PageOf
<1>10. Given'
  BY <1>1, <1>2 DEF SrtInv, Given, Open, OpenFrom, Active
<1>11. FlagsTrue'
  BY <1>1, <1>2, <1>6, <1>7 DEF SrtInv, FlagsTrue, Open, OpenFrom, Raised, Active
<1>12. Fetched'
  BY <1>1, <1>2, <1>6, <1>7, PushOpen DEF SrtInv, Fetched, SrtThreads, Active
<1>13. Reading'
  BY <1>1, <1>2, <1>7, GetOpen DEF SrtInv, Reading, Popping, Active
<1>14. Popped'
  BY <1>1, <1>2 DEF SrtInv, Popped, Popping
<1> QED
  BY <1>8, <1>9, <1>10, <1>11, <1>12, <1>13, <1>14 DEF SrtInv

LEMMA UnlinkPageInv ==
  ASSUME SrtInv, UnlinkPage
  PROVE  SrtInv'
<1> USE SrtAssumption
<1>1. /\ UNCHANGED << post_index, get_index, heap, accepted, popped >>
      /\ UNCHANGED << index, page, calls, seen >>
      /\ At(Reader, "unlink", "advance")
  BY DEF UnlinkPage
<1>2. /\ \A p \in Pushers : qpc'[p] = qpc[p]
      /\ qpc[Reader] = "unlink" /\ qpc'[Reader] = "advance"
  BY <1>1 DEF At, SrtInv, SrtTypeOK, SrtThreads
<1>3. PICK e \in 0 .. Pages - 1 : e = Entry(get_index)
  BY GetOpen, IndexFacts
<1>4. page_indexes' = [page_indexes EXCEPT ![e] = Null]
  BY <1>2, <1>3 DEF UnlinkPage, SrtInv, Reading
<1>5. /\ page_indexes'[e] = Null
      /\ \A f \in 0 .. Pages - 1 : f # e => page_indexes'[f] = page_indexes[f]
  BY <1>3, <1>4 DEF SrtInv, SrtTypeOK
<1>6. \A i \in Nat : /\ Entry(i) = e => PageOf(i)' = Null
                     /\ Entry(i) # e => PageOf(i)' = PageOf(i) /\ SlotOf(i)' = SlotOf(i)
  BY <1>1, <1>5, IndexFacts DEF PageOf, SlotOf
<1>7. \A p \in Pushers : Active(p) =>
        index[p] \in Nat /\ Entry(index[p]) # e
  <2>1. Popping /\ Slot(get_index) = PageMsgs - 1
    BY <1>2 DEF SrtInv, Reading, Popping
  <2> QED
    BY <1>3, <2>1, NobodyBehind, PushOpen
<1>8. SrtTypeOK'
  BY <1>1, <1>4 DEF SrtInv, SrtTypeOK, At, SrtThreads, PushPlaces, PopPlaces
<1>9. Directory'
  BY <1>1, <1>2, <1>3, <1>5 DEF SrtInv, Directory
<1>10. Given'
  BY <1>1, <1>2 DEF SrtInv, Given, Open, OpenFrom, Active
<1>11. FlagsTrue'
  BY <1>1, <1>2, <1>6 DEF SrtInv, FlagsTrue, Open, OpenFrom, Raised, Active
<1>12. Fetched'
  BY <1>1, <1>2, <1>6, <1>7 DEF SrtInv, Fetched, SrtThreads, Active
<1>13. Reading'
  BY <1>1, <1>2, <1>3, <1>6, GetOpen DEF SrtInv, Reading, Popping, Active
<1>14. Popped'
  BY <1>1, <1>2 DEF SrtInv, Popped, Popping
<1> QED
  BY <1>8, <1>9, <1>10, <1>11, <1>12, <1>13, <1>14 DEF SrtInv

LEMMA AdvanceInv ==
  ASSUME SrtInv, Advance
  PROVE  SrtInv'
<1> USE SrtAssumption
<1>1. /\ UNCHANGED << post_index, page_indexes, heap, accepted, popped >>
      /\ UNCHANGED << index, page, calls, seen >>
      /\ At(Reader, "advance", "idle")
      /\ get_index' = get_index + 1
  BY DEF Advance
<1>2. /\ \A p \in Pushers : qpc'[p] = qpc[p]
      /\ qpc[Reader] = "advance" /\ qpc'[Reader] = "idle"
  BY <1>1 DEF At, SrtInv, SrtTypeOK, SrtThreads
<1>3. \A i \in Nat : PageOf(i)' = PageOf(i) /\ SlotOf(i)' = SlotOf(i)
                     /\ (Raised(i)' <=> Raised(i))
  BY <1>1 DEF PageOf, SlotOf, Raised
<1>4. \A i \in Nat :
        /\ Open(i) /\ i # get_index => Open(i)'
        /\ Open(i)' => i # get_index /\ (Open(i) \/ PageOf(i) = Null)
  <2> TAKE i \in Nat
  <2>1. Open(i)' <=> OpenFrom(get_index + 1, i)
    BY <1>1 DEF Open, OpenFrom
  <2>2. Slot(get_index) = PageMsgs - 1 => PageOf(get_index) = Null
    BY <1>2 DEF SrtInv, Reading
  <2> QED
    BY <2>1, <2>2, GetOpen, OpenNext DEF Open, PageOf
<1>5. \A p \in Pushers : Active(p) => index[p] # get_index /\ index[p] \in Nat
  BY <1>2, PushOpen DEF SrtInv, Reading, Popping
<1>6. get_index \in Nat /\ post_index \in Nat /\ get_index < post_index
  BY <1>2 DEF SrtInv, SrtTypeOK, Reading
<1>8. SrtTypeOK'
  BY <1>1 DEF SrtInv, SrtTypeOK, At, SrtThreads, PushPlaces, PopPlaces
<1>9. Directory'
  BY <1>1, <1>2 DEF SrtInv, Directory
<1>10. Given'
  <2>1. Len(accepted') = post_index' /\ get_index' <= post_index'
    BY <1>1, <1>6 DEF SrtInv, Given
  <2>2. \A i \in Nat : get_index' <= i /\ i < post_index' => Open(i)'
    BY <1>1, <1>4, <1>6 DEF SrtInv, Given
  <2>3. \A p \in Pushers : Active(p)' => get_index' <= index'[p]
    BY <1>1, <1>2, <1>5, <1>6 DEF SrtInv, Given, Active
  <2>4. \A p \in Pushers : Active(p)' =>
          index'[p] < post_index' /\ accepted'[index'[p] + 1] = << p, calls'[p] >>
    BY <1>1, <1>2 DEF SrtInv, Given, Active
  <2> QED
    BY <2>1, <2>2, <2>3, <2>4 DEF Given
<1>11. FlagsTrue'
  BY <1>1, <1>2, <1>3, <1>4 DEF SrtInv, FlagsTrue, Raised, Active
<1>12. Fetched'
  BY <1>1, <1>2, <1>3, <1>5 DEF SrtInv, Fetched, SrtThreads, Active
<1>13. Reading'
  BY <1>1, <1>2 DEF SrtInv, Reading, Popping
<1>14. Popped'
  BY <1>1, <1>2 DEF SrtInv, Popped, Popping
<1> QED
  BY <1>8, <1>9, <1>10, <1>11, <1>12, <1>13, <1>14 DEF SrtInv

LEMMA ClaimIndexInv ==
  ASSUME SrtInv, NEW p \in Pushers, ClaimIndex(p), ClaimInDirectory
  PROVE  SrtInv'
<1> USE SrtAssumption
<1>1. /\ UNCHANGED << get_index, page_indexes, heap, seen, page, calls, popped >>
      /\ At(p, "claim", "page")
      /\ index' = [index EXCEPT ![p] = post_index]
      /\ post_index' = post_index + 1
      /\ accepted' = Append(accepted, << p, calls[p] >>)
  BY DEF ClaimIndex
<1>2. /\ qpc[p] = "claim" /\ qpc'[p] = "page"
      /\ \A t \in SrtThreads : t # p => qpc'[t] = qpc[t] /\ index'[t] = index[t]
      /\ index'[p] = post_index
  BY <1>1 DEF At, SrtInv, SrtTypeOK, SrtThreads
<1>3. << p, calls[p] >> \in SrtMessages
  BY <1>2 DEF SrtInv, SrtTypeOK, SrtMessages
<1>4. /\ post_index \in Nat /\ get_index \in Nat /\ Len(accepted) = post_index
      /\ get_index <= post_index
  BY DEF SrtInv, SrtTypeOK, Given
<1>5. /\ accepted' \in Seq(SrtMessages) /\ Len(accepted') = post_index + 1
      /\ accepted'[post_index + 1] = << p, calls[p] >>
      /\ \A k \in 1 .. post_index : accepted'[k] = accepted[k]
  BY <1>1, <1>3, <1>4 DEF SrtInv, SrtTypeOK
<1>6. Open(post_index)
  BY <1>1, <1>4 DEF ClaimInDirectory, Open, OpenFrom
<1>7. \A i \in Nat : /\ Open(i)' <=> Open(i)
                     /\ PageOf(i)' = PageOf(i) /\ SlotOf(i)' = SlotOf(i)
                     /\ Raised(i)' <=> Raised(i)
  BY <1>1 DEF Open, OpenFrom, PageOf, SlotOf, Raised
<1>8. SrtTypeOK'
  <2>1. post_index' \in Nat
    BY <1>1, <1>4
  <2>2. index' \in [SrtThreads -> Nat]
    BY <1>1, <1>4 DEF SrtInv, SrtTypeOK
  <2> QED
    BY <1>1, <1>5, <2>1, <2>2 DEF SrtInv, SrtTypeOK, At, SrtThreads, PushPlaces, PopPlaces
<1>9. Directory'
  BY <1>1, <1>2 DEF SrtInv, Directory, SrtThreads
<1>10. Given'
  <2>1. Len(accepted') = post_index' /\ get_index' <= post_index'
    BY <1>1, <1>4, <1>5
  <2>2. \A i \in Nat : get_index' <= i /\ i < post_index' => Open(i)'
    BY <1>1, <1>4, <1>6, <1>7 DEF SrtInv, Given
  <2>3. /\ get_index' <= index'[p] /\ index'[p] < post_index'
        /\ accepted'[index'[p] + 1] = << p, calls'[p] >>
    BY <1>1, <1>2, <1>4, <1>5
  <2>4. ASSUME NEW r \in Pushers, r # p, Active(r)'
        PROVE  /\ get_index' <= index'[r] /\ index'[r] < post_index'
               /\ accepted'[index'[r] + 1] = << r, calls'[r] >>
    <3>1. Active(r) /\ index'[r] = index[r] /\ calls'[r] = calls[r]
      BY <1>1, <1>2, <2>4 DEF Active, SrtThreads
    <3>2. PICK k \in Nat : /\ k = index[r] /\ get_index <= k /\ k < post_index
                           /\ accepted[k + 1] = << r, calls[r] >>
      BY <3>1 DEF SrtInv, SrtTypeOK, Given, SrtThreads
    <3>3. accepted'[k + 1] = accepted[k + 1]
      BY <1>4, <1>5, <3>2
    <3> QED
      BY <1>1, <1>4, <3>1, <3>2, <3>3
  <2> QED
    BY <2>1, <2>2, <2>3, <2>4 DEF Given
<1>11. FlagsTrue'
  <2> SUFFICES ASSUME NEW i \in Nat, Open(i)', Raised(i)'
               PROVE  /\ i < post_index' /\ SlotOf(i)'.msg = accepted'[i + 1]
                      /\ \A r \in Pushers : Active(r)' => index'[r] # i
    BY DEF FlagsTrue
  <2>1. /\ i < post_index /\ SlotOf(i).msg = accepted[i + 1]
        /\ \A r \in Pushers : Active(r) => index[r] # i
    BY <1>7 DEF SrtInv, FlagsTrue
  <2>2. i < post_index' /\ SlotOf(i)'.msg = accepted'[i + 1]
    BY <1>1, <1>4, <1>5, <1>7, <2>1
  <2>3. \A r \in Pushers : Active(r)' => index'[r] # i
    BY <1>2, <1>4, <2>1 DEF Active, SrtThreads
  <2> QED
    BY <2>2, <2>3
<1>12. Fetched'
  BY <1>1, <1>2 DEF SrtInv, SrtTypeOK, Fetched, SrtThreads, PageOf, SlotOf
<1>13. Reading'
  <2>1. Popping' => Popping
    BY <1>2 DEF Popping, SrtThreads
  <2>2. /\ qpc'[Reader] = qpc[Reader] /\ index'[Reader] = index[Reader]
        /\ page'[Reader] = page[Reader]
    BY <1>1, <1>2 DEF SrtThreads
  <2>3. qpc[Reader] # "idle" => get_index < post_index
    BY DEF SrtInv, Reading
  <2>4. qpc[Reader] = "take" \/ Popping =>
          \A r \in Pushers : Active(r)' => index'[r] # get_index
    BY <1>2, <1>4, <2>3 DEF SrtInv, Reading, Active, SrtThreads, Popping
  <2> QED
    BY <1>1, <1>4, <1>7, <2>1, <2>2, <2>4 DEF SrtInv, Reading
<1>14. Popped'
  <2>1. Len(popped) <= post_index /\ Len(popped) \in Nat
    BY <1>4 DEF SrtInv, SrtTypeOK, Popped, Reading, Popping
  <2> QED
    BY <1>1, <1>2, <1>4, <1>5, <2>1 DEF SrtInv, Popped, Popping, SrtThreads
<1> QED
  BY <1>8, <1>9, <1>10, <1>11, <1>12, <1>13, <1>14 DEF SrtInv

LEMMA AllocatePageInv ==
  ASSUME SrtInv, NEW t \in SrtThreads, AllocatePage(t)
  PROVE  SrtInv'
<1> USE SrtAssumption
<1>1. /\ UNCHANGED << post_index, get_index, accepted, popped >>
      /\ UNCHANGED << index, page, calls, seen >>
      /\ At(t, "allocate", "fetch")
  BY DEF AllocatePage
<1>2. /\ \A u \in SrtThreads : u # t => qpc'[u] = qpc[u]
      /\ qpc[t] = "allocate" /\ qpc'[t] = "fetch"
  BY <1>1 DEF At, SrtInv, SrtTypeOK
<1>3. PICK j \in Nat : j = index[t]
  BY DEF SrtInv, SrtTypeOK
<1>4. PICK e \in 0 .. Pages - 1 : e = Entry(j)
  BY IndexFacts
<1>5. CASE page_indexes[e] # Null
  <2>1. UNCHANGED SharedVars
    BY <1>1, <1>3, <1>4, <1>5 DEF AllocatePage, SharedVars
  <2>2. SrtTypeOK'
    BY <1>1, <2>1 DEF SrtInv, SrtTypeOK, At, SrtThreads, PushPlaces, PopPlaces, SharedVars
  <2>3. Directory' /\ Given' /\ FlagsTrue'
    BY <1>1, <1>2, <2>1, SharedKept DEF SrtThreads, Active
  <2>4. Fetched'
    BY <1>1, <1>2, <1>3, <1>4, <1>5, <2>1
       DEF SrtInv, Fetched, SrtThreads, PageOf, SlotOf, SharedVars
  <2>5. Reading'
    BY <1>1, <1>2, <2>1 DEF SrtInv, Reading, SrtThreads, Popping, Active,
           PageOf, SlotOf, Raised, SharedVars
  <2>6. Popped'
    BY <1>1, <1>2, <2>1 DEF SrtInv, Popped, SrtThreads, Popping, SharedVars
  <2> QED
    BY <2>2, <2>3, <2>4, <2>5, <2>6 DEF SrtInv
<1>6. CASE page_indexes[e] = Null
  <2>1. /\ heap' = Append(heap, FreshPage)
        /\ page_indexes' = [page_indexes EXCEPT ![e] = Len(heap) + 1]
    BY <1>3, <1>4, <1>6 DEF AllocatePage
  <2>2. /\ FreshPage \in HeapPage /\ FreshPage.live
        /\ \A s \in 0 .. PageMsgs - 1 : ~ FreshPage.slots[s].flag
    BY DEF FreshPage, HeapPage, SrtSlot
  <2>3. heap \in Seq(HeapPage) /\ Len(heap) \in Nat
    BY DEF SrtInv, SrtTypeOK
  <2>4. /\ heap' \in Seq(HeapPage) /\ Len(heap') = Len(heap) + 1
        /\ heap'[Len(heap) + 1] = FreshPage
        /\ \A k \in 1 .. Len(heap) : heap'[k] = heap[k]
    BY <2>1, <2>2, <2>3
  <2>5. /\ page_indexes' \in [0 .. Pages - 1 -> Nat \cup {Null}]
        /\ page_indexes'[e] = Len(heap) + 1
        /\ \A f \in 0 .. Pages - 1 : f # e => page_indexes'[f] = page_indexes[f]
    BY <2>1, <2>3 DEF SrtInv, SrtTypeOK
  <2>6. \A i \in Nat :
          /\ Entry(i) = e => PageOf(i)' # Null /\ ~SlotOf(i)'.flag
          /\ Entry(i) # e => PageOf(i)' = PageOf(i)
          /\ PageOf(i) # Null => Entry(i) # e /\ SlotOf(i)' = SlotOf(i)
    <3> TAKE i \in Nat
    <3>1. PICK f \in 0 .. Pages - 1, s \in 0 .. PageMsgs - 1 : f = Entry(i) /\ s = Slot(i)
      BY IndexFacts
    <3>2. CASE f = e
      <4>1. PageOf(i)' = Len(heap) + 1
        BY <2>5, <3>1, <3>2 DEF PageOf
      <4>2. SlotOf(i)' = FreshPage.slots[s]
        BY <2>4, <3>1, <4>1 DEF SlotOf
      <4>3. PageOf(i) = Null /\ Entry(i) = e
        BY <1>6, <3>1, <3>2 DEF PageOf
      <4> QED
        BY <2>2, <2>3, <4>1, <4>2, <4>3
    <3>3. CASE f # e
      <4>1. PageOf(i)' = PageOf(i) /\ Entry(i) # e
        BY <2>5, <3>1, <3>3 DEF PageOf
      <4>2. PageOf(i) # Null => PageOf(i) \in 1 .. Len(heap)
        BY PlaceFacts
      <4>3. PageOf(i) # Null => SlotOf(i)' = SlotOf(i)
        BY <2>4, <4>1, <4>2 DEF SlotOf
      <4> QED
        BY <4>1, <4>3
    <3> QED
      BY <3>2, <3>3
  <2>7. SrtTypeOK'
    BY <1>1, <2>4, <2>5 DEF SrtInv, SrtTypeOK, At, SrtThreads, PushPlaces, PopPlaces
  <2>8. Directory'
    <3>1. ASSUME NEW f \in 0 .. Pages - 1, page_indexes'[f] # Null
          PROVE  /\ page_indexes'[f] \in 1 .. Len(heap')
                 /\ heap'[page_indexes'[f]].live
                    \/ (qpc'[Reader] = "unlink" /\ f = Entry(get_index'))
      <4>1. CASE f = e
        BY <2>2, <2>3, <2>4, <2>5, <4>1
      <4>2. CASE f # e
        BY <1>1, <1>2, <2>3, <2>4, <2>5, <3>1, <4>2 DEF SrtInv, Directory, SrtThreads
      <4> QED
        BY <4>1, <4>2
    <3>2. \A f, g \in 0 .. Pages - 1 :
            page_indexes'[f] = page_indexes'[g] /\ page_indexes'[f] # Null => f = g
      BY <2>3, <2>5 DEF SrtInv, Directory
    <3> QED
      BY <3>1, <3>2 DEF Directory
  <2>9. Given'
    BY <1>1, <1>2 DEF SrtInv, Given, Open, OpenFrom, Active, SrtThreads
  <2>10. FlagsTrue'
    <3>1. \A i \in Nat : (Raised(i)' => Raised(i)) /\ (Open(i)' <=> Open(i))
      BY <1>1, <2>6 DEF Raised, Open, OpenFrom
    <3> QED
      BY <1>1, <1>2, <2>6, <3>1 DEF SrtInv, FlagsTrue, Raised, Active, SrtThreads
  <2>11. Fetched'
    <3>1. ASSUME NEW u \in SrtThreads, qpc'[u] = "fetch"
          PROVE  PageOf(index[u])' # Null
      <4>1. PICK k \in Nat : k = index[u]
        BY DEF SrtInv, SrtTypeOK
      <4>2. PageOf(k)' # Null
        BY <1>2, <1>3, <1>4, <2>6, <3>1, <4>1 DEF SrtInv, Fetched
      <4> QED
        BY <1>1, <4>1, <4>2 DEF PageOf
    <3>2. ASSUME NEW p \in Pushers, qpc'[p] \in {"store", "flag"}
          PROVE  /\ page'[p] # Null /\ page'[p] = PageOf(index[p])'
                 /\ qpc'[p] = "flag" => SlotOf(index[p])'.msg = << p, calls'[p] >>
      <4>1. PICK k \in Nat : k = index[p]
        BY DEF SrtInv, SrtTypeOK, SrtThreads
      <4>2. PageOf(k) # Null /\ page[p] = PageOf(k) /\ qpc[p] = qpc'[p]
        BY <1>2, <3>2, <4>1 DEF SrtInv, Fetched, SrtThreads
      <4>3. PageOf(k)' = PageOf(k) /\ SlotOf(k)' = SlotOf(k)
        BY <2>6, <4>2
      <4>4. qpc'[p] = "flag" => SlotOf(k).msg = << p, calls[p] >>
        BY <4>1, <4>2 DEF SrtInv, Fetched
      <4> QED
        BY <1>1, <4>1, <4>2, <4>3, <4>4 DEF PageOf, SlotOf
    <3> QED
      BY <3>1, <3>2 DEF Fetched
  <2>12. Reading'
    <3>1. /\ qpc'[Reader] # "fetch" => qpc'[Reader] = qpc[Reader] /\ t # Reader
          /\ qpc'[Reader] = "fetch" => qpc[Reader] \in {"allocate", "fetch"}
      <4>1. CASE t = Reader
        BY <1>2, <4>1
      <4>2. CASE t # Reader
        BY <1>2, <4>2 DEF SrtThreads
      <4> QED
        BY <4>1, <4>2
    <3>g. PICK g \in Nat : g = get_index
      BY GetOpen
    <3>2. qpc[Reader] = "advance" /\ Slot(get_index) = PageMsgs - 1 =>
            PageOf(get_index)' = Null
      <4> SUFFICES ASSUME qpc[Reader] = "advance", Slot(get_index) = PageMsgs - 1
                   PROVE  PageOf(get_index)' = Null
        OBVIOUS
      <4>1. t \in Pushers /\ Active(t) /\ Popping
        BY <1>2 DEF SrtThreads, Active, Popping
      <4>2. Entry(get_index) # e
        BY <1>3, <1>4, <4>1, NobodyBehind
      <4>3. PageOf(get_index) = Null
        BY DEF SrtInv, Reading
      <4> QED
        BY <1>1, <2>6, <3>g, <4>2, <4>3 DEF PageOf
    <3>3. \A p \in Pushers : Active(p)' => Active(p) /\ index'[p] = index[p]
      BY <1>1, <1>2 DEF Active, SrtThreads
    <3>4. Popping' => Popping
      BY <3>1 DEF Popping
    <3>5. qpc'[Reader] # "idle" => index'[Reader] = get_index /\ get_index < post_index
      BY <1>1, <3>1 DEF SrtInv, Reading
    <3>6. qpc'[Reader] \in {"test", "take", "delete", "unlink"} =>
            page'[Reader] # Null /\ page'[Reader] = PageOf(get_index)'
      BY <1>1, <2>6, <3>1, GetOpen DEF SrtInv, Reading
    <3>7. qpc'[Reader] = "take" => Raised(get_index)'
      <4> SUFFICES ASSUME qpc'[Reader] = "take" PROVE Raised(get_index)'
        OBVIOUS
      <4>1. Raised(g)
        BY <3>1, <3>g DEF SrtInv, Reading
      <4>2. PageOf(g)' = PageOf(g) /\ SlotOf(g)' = SlotOf(g)
        BY <2>6, <4>1 DEF Raised
      <4> QED
        BY <1>1, <3>g, <4>1, <4>2 DEF Raised, PageOf, SlotOf
    <3>8. qpc'[Reader] \in {"delete", "unlink"} => Slot(get_index) = PageMsgs - 1
      BY <3>1 DEF SrtInv, Reading
    <3>9. qpc'[Reader] = "take" \/ Popping' =>
            \A p \in Pushers : Active(p)' => index'[p] # get_index
      BY <3>1, <3>3, <3>4 DEF SrtInv, Reading
    <3> QED
      BY <1>1, <3>1, <3>2, <3>5, <3>6, <3>7, <3>8, <3>9 DEF Reading
  <2>13. Popped'
    <3>1. Popping' <=> Popping
      BY <1>2 DEF Popping, SrtThreads
    <3> QED
      BY <1>1, <3>1 DEF SrtInv, Popped
  <2> QED
    BY <2>7, <2>8, <2>9, <2>10, <2>11, <2>12, <2>13 DEF SrtInv
<1> QED
  BY <1>5, <1>6

LEMMA ElementReplaced ==
  ASSUME NEW S, NEW q \in Seq(S), NEW k \in 1 .. Len(q), NEW v \in S
  PROVE  [q EXCEPT ![k] = v] \in Seq(S) /\ Len([q EXCEPT ![k] = v]) = Len(q)
OBVIOUS

\* A message or a flag written to the slot of an open index.
LEMMA SlotWritten ==
  ASSUME SrtInv, NEW j \in Nat, Open(j), PageOf(j) # Null, NEW w \in SrtSlot,
         heap' = [heap EXCEPT ![PageOf(j)].slots[Slot(j)] = w],
         UNCHANGED << page_indexes, get_index >>
  PROVE  /\ heap' \in Seq(HeapPage) /\ Len(heap') = Len(heap)
         /\ \A k \in 1 .. Len(heap) : heap'[k].live = heap[k].live
         /\ SlotOf(j)' = w
         /\ \A i \in Nat : PageOf(i)' = PageOf(i) /\ (Open(i)' <=> Open(i))
         /\ \A i \in Nat : Open(i) /\ i # j /\ PageOf(i) # Null => SlotOf(i)' = SlotOf(i)
<1>1. PICK g \in 1 .. Len(heap), s \in 0 .. PageMsgs - 1 : g = PageOf(j) /\ s = Slot(j)
  BY PlaceFacts
<1>2. heap \in Seq(HeapPage) /\ heap[g] \in HeapPage
  BY DEF SrtInv, SrtTypeOK
<1>3. PICK h \in HeapPage : h = [heap[g] EXCEPT !.slots[s] = w]
  BY <1>2 DEF HeapPage
<1>4. /\ h.live = heap[g].live /\ h.slots[s] = w
      /\ \A r \in 0 .. PageMsgs - 1 : r # s => h.slots[r] = heap[g].slots[r]
  BY <1>2, <1>3 DEF HeapPage
<1>5. heap' = [heap EXCEPT ![g] = h]
  BY <1>1, <1>3
<1>6. /\ heap' \in Seq(HeapPage) /\ Len(heap') = Len(heap) /\ heap'[g] = h
      /\ \A k \in 1 .. Len(heap) : k # g => heap'[k] = heap[k]
  <2>1. heap' \in Seq(HeapPage) /\ Len(heap') = Len(heap)
    <3>1. PICK q \in Seq(HeapPage) : q = heap
      BY <1>2
    <3>2. g \in 1 .. Len(q)
      BY <3>1
    <3>3. [q EXCEPT ![g] = h] \in Seq(HeapPage) /\ Len([q EXCEPT ![g] = h]) = Len(q)
      BY <3>2, ElementReplaced
    <3> QED
      BY <1>5, <3>1, <3>3
  <2>2. heap'[g] = h
    BY <1>2, <1>5
  <2>3. \A k \in 1 .. Len(heap) : k # g => heap'[k] = heap[k]
    BY <1>2, <1>5
  <2> QED
    BY <2>1, <2>2, <2>3
<1>7. \A k \in 1 .. Len(heap) : heap'[k].live = heap[k].live
  BY <1>4, <1>6
<1>8. \A i \in Nat : PageOf(i)' = PageOf(i) /\ (Open(i)' <=> Open(i))
  BY DEF PageOf, Open, OpenFrom
<1>9. SlotOf(j)' = w
  BY <1>1, <1>4, <1>6 DEF SlotOf, PageOf
<1>10. ASSUME NEW i \in Nat, Open(i), i # j, PageOf(i) # Null
       PROVE  SlotOf(i)' = SlotOf(i)
  <2>1. PageOf(i) \in 1 .. Len(heap) /\ Slot(i) \in 0 .. PageMsgs - 1
    BY <1>10, PlaceFacts
  <2>2. PageOf(i) # g \/ Slot(i) # s
    BY <1>1, <1>10, OneSlot
  <2>3. heap'[PageOf(i)].slots[Slot(i)] = heap[PageOf(i)].slots[Slot(i)]
    <3>1. CASE PageOf(i) # g
      <4>1. heap'[PageOf(i)] = heap[PageOf(i)]
        BY <1>6, <2>1, <3>1
      <4> QED
        BY <4>1
    <3>2. CASE PageOf(i) = g /\ Slot(i) # s
      <4>1. h.slots[Slot(i)] = heap[g].slots[Slot(i)]
        BY <1>4, <2>1, <3>2
      <4> QED
        BY <1>6, <3>2, <4>1
    <3> QED
      BY <2>2, <3>1, <3>2
  <2> QED
    BY <2>3 DEF SlotOf, PageOf
<1> QED
  BY <1>6, <1>7, <1>8, <1>9, <1>10

\* Two pushes never have the same index.
LEMMA OwnIndex ==
  ASSUME SrtInv, NEW p \in Pushers, NEW r \in Pushers, Active(p), Active(r),
         index[p] = index[r]
  PROVE  p = r
BY DEF SrtInv, Given

LEMMA StoreMessageInv ==
  ASSUME SrtInv, NEW p \in Pushers, StoreMessage(p)
  PROVE  SrtInv'
<1> USE SrtAssumption
<1>1. /\ UNCHANGED << post_index, get_index, page_indexes, accepted, popped >>
      /\ UNCHANGED << index, page, calls, seen >>
      /\ At(p, "store", "flag")
  BY DEF StoreMessage
<1>2. /\ \A u \in SrtThreads : u # p => qpc'[u] = qpc[u]
      /\ qpc[p] = "store" /\ qpc'[p] = "flag" /\ qpc'[Reader] = qpc[Reader]
  BY <1>1 DEF At, SrtInv, SrtTypeOK, SrtThreads
<1>3. PICK j \in Nat : /\ j = index[p] /\ Open(j) /\ get_index <= j /\ j < post_index
                       /\ accepted[j + 1] = << p, calls[p] >>
  BY <1>2, PushOpen DEF Active, SrtInv, Given
<1>4. page[p] = PageOf(j) /\ PageOf(j) # Null
  BY <1>2, <1>3 DEF SrtInv, Fetched
<1>5. PICK w \in SrtSlot : w.msg = << p, calls[p] >> /\ w.flag = SlotOf(j).flag
                           /\ w = [SlotOf(j) EXCEPT !.msg = << p, calls[p] >>]
  <2>1. << p, calls[p] >> \in SrtMessages
    BY <1>2 DEF SrtInv, SrtTypeOK, SrtMessages
  <2>2. SlotOf(j) \in SrtSlot
    BY <1>4, PlaceFacts
  <2> QED
    BY <2>1, <2>2 DEF SrtSlot
<1>6. heap' = [heap EXCEPT ![PageOf(j)].slots[Slot(j)] = w]
  <2>1. heap' = [heap EXCEPT ![PageOf(j)].slots[Slot(j)].msg = << p, calls[p] >>]
    BY <1>3, <1>4 DEF StoreMessage
  <2> QED
    BY <1>5, <2>1 DEF SlotOf
<1>7. /\ heap' \in Seq(HeapPage) /\ Len(heap') = Len(heap)
      /\ \A k \in 1 .. Len(heap) : heap'[k].live = heap[k].live
      /\ SlotOf(j)' = w
      /\ \A i \in Nat : PageOf(i)' = PageOf(i) /\ (Open(i)' <=> Open(i))
      /\ \A i \in Nat : Open(i) /\ i # j /\ PageOf(i) # Null => SlotOf(i)' = SlotOf(i)
  BY <1>1, <1>3, <1>4, <1>6, SlotWritten
<1>8. \A i \in Nat : Open(i) /\ Raised(i)' => Raised(i) /\ i # j /\ SlotOf(i)' = SlotOf(i)
  <2>1. ~Raised(j)
    BY <1>2, <1>3 DEF SrtInv, FlagsTrue, Active
  <2> QED
    BY <1>4, <1>5, <1>7, <2>1 DEF Raised
<1>9. \A r \in Pushers : Active(r)' <=> Active(r)
  BY <1>2 DEF Active, SrtThreads
<1>10. Popping' <=> Popping
  BY <1>2 DEF Popping
<1>11. SrtTypeOK'
  BY <1>1, <1>7 DEF SrtInv, SrtTypeOK, At, SrtThreads, PushPlaces, PopPlaces
<1>12. Directory'
  BY <1>1, <1>2, <1>7 DEF SrtInv, Directory
<1>13. Given'
  BY <1>1, <1>7, <1>9 DEF SrtInv, Given
<1>14. FlagsTrue'
  BY <1>1, <1>7, <1>8, <1>9 DEF SrtInv, FlagsTrue
<1>15. Fetched'
  <2>1. ASSUME NEW u \in SrtThreads, qpc'[u] = "fetch"
        PROVE  PageOf(index[u])' # Null
    BY <1>1, <1>2, <2>1 DEF SrtInv, Fetched, PageOf
  <2>2. ASSUME NEW r \in Pushers, qpc'[r] \in {"store", "flag"}
        PROVE  page'[r] # Null /\ page'[r] = PageOf(index[r])'
    BY <1>1, <1>2, <2>2 DEF SrtInv, Fetched, PageOf, SrtThreads
  <2>3. ASSUME NEW r \in Pushers, qpc'[r] = "flag"
        PROVE  SlotOf(index[r])'.msg = << r, calls'[r] >>
    <3>1. PICK k \in Nat : k = index[r]
      BY DEF SrtInv, SrtTypeOK, SrtThreads
    <3>2. SlotOf(k)'.msg = << r, calls[r] >>
      <4>1. CASE r = p
        BY <1>3, <1>5, <1>7, <3>1, <4>1
      <4>2. CASE r # p
        <5>1. qpc[r] = "flag" /\ Active(r) /\ Active(p)
          BY <1>2, <2>3, <4>2 DEF SrtThreads, Active
        <5>2. k # j /\ Open(k)
          BY <1>3, <3>1, <4>2, <5>1, OwnIndex, PushOpen
        <5>3. PageOf(k) # Null /\ SlotOf(k).msg = << r, calls[r] >>
          BY <3>1, <5>1 DEF SrtInv, Fetched
        <5> QED
          BY <1>7, <5>2, <5>3
      <4> QED
        BY <4>1, <4>2
    <3> QED
      BY <1>1, <3>1, <3>2 DEF SlotOf, PageOf
  <2> QED
    BY <2>1, <2>2, <2>3 DEF Fetched
<1>16. Reading'
  <2>g. PICK g \in Nat : g = get_index /\ Open(g)
    BY GetOpen
  <2>1. PageOf(get_index)' = PageOf(get_index)
    BY <1>1 DEF PageOf
  <2>2. qpc[Reader] = "take" => Raised(get_index)'
    <3> SUFFICES ASSUME qpc[Reader] = "take" PROVE Raised(get_index)'
      OBVIOUS
    <3>1. Raised(g) /\ g # j
      BY <1>2, <1>3, <2>g DEF SrtInv, Reading, Active
    <3>2. PageOf(g)' = PageOf(g) /\ SlotOf(g)' = SlotOf(g)
      BY <1>7, <2>g, <3>1 DEF Raised
    <3> QED
      BY <1>1, <2>g, <3>1, <3>2 DEF Raised, PageOf, SlotOf
  <2> QED
    BY <1>1, <1>2, <1>9, <1>10, <2>1, <2>2 DEF SrtInv, Reading
<1>17. Popped'
  BY <1>1, <1>10 DEF SrtInv, Popped
<1> QED
  BY <1>11, <1>12, <1>13, <1>14, <1>15, <1>16, <1>17 DEF SrtInv

LEMMA RaiseFlagInv ==
  ASSUME SrtInv, NEW p \in Pushers, RaiseFlag(p)
  PROVE  SrtInv'
<1> USE SrtAssumption
<1>1. /\ UNCHANGED << post_index, get_index, page_indexes, accepted, popped >>
      /\ UNCHANGED << index, page, calls, seen >>
      /\ At(p, "flag", "idle")
  BY DEF RaiseFlag
<1>2. /\ \A u \in SrtThreads : u # p => qpc'[u] = qpc[u]
      /\ qpc[p] = "flag" /\ qpc'[p] = "idle" /\ qpc'[Reader] = qpc[Reader]
  BY <1>1 DEF At, SrtInv, SrtTypeOK, SrtThreads
<1>3. PICK j \in Nat : /\ j = index[p] /\ Open(j) /\ get_index <= j /\ j < post_index
                       /\ accepted[j + 1] = << p, calls[p] >>
  BY <1>2, PushOpen DEF Active, SrtInv, Given
<1>4. /\ page[p] = PageOf(j) /\ PageOf(j) # Null
      /\ SlotOf(j).msg = << p, calls[p] >>
  BY <1>2, <1>3 DEF SrtInv, Fetched
<1>5. PICK w \in SrtSlot : w.msg = SlotOf(j).msg
                           /\ w = [SlotOf(j) EXCEPT !.flag = TRUE]
  <2>1. SlotOf(j) \in SrtSlot
    BY <1>4, PlaceFacts
  <2> QED
    BY <2>1 DEF SrtSlot
<1>6. heap' = [heap EXCEPT ![PageOf(j)].slots[Slot(j)] = w]
  <2>1. heap' = [heap EXCEPT ![PageOf(j)].slots[Slot(j)].flag = TRUE]
    BY <1>3, <1>4 DEF RaiseFlag
  <2> QED
    BY <1>5, <2>1 DEF SlotOf
<1>7. /\ heap' \in Seq(HeapPage) /\ Len(heap') = Len(heap)
      /\ \A k \in 1 .. Len(heap) : heap'[k].live = heap[k].live
      /\ SlotOf(j)' = w
      /\ \A i \in Nat : PageOf(i)' = PageOf(i) /\ (Open(i)' <=> Open(i))
      /\ \A i \in Nat : Open(i) /\ i # j /\ PageOf(i) # Null => SlotOf(i)' = SlotOf(i)
  BY <1>1, <1>3, <1>4, <1>6, SlotWritten
<1>8. \A i \in Nat : Open(i) /\ Raised(i)' => i = j \/ (Raised(i) /\ SlotOf(i)' = SlotOf(i))
  BY <1>7 DEF Raised
<1>9. \A r \in Pushers : Active(r)' <=> Active(r) /\ r # p
  BY <1>2 DEF Active, SrtThreads
<1>10. Popping' <=> Popping
  BY <1>2 DEF Popping
<1>11. SrtTypeOK'
  BY <1>1, <1>7 DEF SrtInv, SrtTypeOK, At, SrtThreads, PushPlaces, PopPlaces
<1>12. Directory'
  BY <1>1, <1>2, <1>7 DEF SrtInv, Directory
<1>13. Given'
  BY <1>1, <1>7, <1>9 DEF SrtInv, Given
<1>14. FlagsTrue'
  <2> SUFFICES ASSUME NEW i \in Nat, Open(i), Raised(i)'
               PROVE  /\ i < post_index /\ SlotOf(i)'.msg = accepted[i + 1]
                      /\ \A r \in Pushers : Active(r)' => index[r] # i
    BY <1>1, <1>7 DEF FlagsTrue
  <2>1. CASE i = j
    <3>1. Active(p)
      BY <1>2 DEF Active
    <3>2. \A r \in Pushers : Active(r)' => index[r] # i
      BY <1>3, <1>9, <2>1, <3>1, OwnIndex
    <3> QED
      BY <1>3, <1>4, <1>5, <1>7, <2>1, <3>2
  <2>2. CASE Raised(i) /\ SlotOf(i)' = SlotOf(i)
    BY <1>9, <2>2 DEF SrtInv, FlagsTrue
  <2> QED
    BY <1>8, <2>1, <2>2
<1>15. Fetched'
  <2>1. ASSUME NEW u \in SrtThreads, qpc'[u] = "fetch"
        PROVE  PageOf(index[u])' # Null
    BY <1>1, <1>2, <2>1 DEF SrtInv, Fetched, PageOf
  <2>2. ASSUME NEW r \in Pushers, qpc'[r] \in {"store", "flag"}
        PROVE  page'[r] # Null /\ page'[r] = PageOf(index[r])'
    BY <1>1, <1>2, <2>2 DEF SrtInv, Fetched, PageOf, SrtThreads
  <2>3. ASSUME NEW r \in Pushers, qpc'[r] = "flag"
        PROVE  SlotOf(index[r])'.msg = << r, calls'[r] >>
    <3>1. PICK k \in Nat : k = index[r]
      BY DEF SrtInv, SrtTypeOK, SrtThreads
    <3>2. r # p /\ qpc[r] = "flag" /\ Active(r) /\ Active(p)
      BY <1>2, <2>3 DEF SrtThreads, Active
    <3>3. k # j /\ Open(k)
      BY <1>3, <3>1, <3>2, OwnIndex, PushOpen
    <3>4. PageOf(k) # Null /\ SlotOf(k).msg = << r, calls[r] >>
      BY <3>1, <3>2 DEF SrtInv, Fetched
    <3>5. SlotOf(k)'.msg = << r, calls[r] >>
      BY <1>7, <3>3, <3>4
    <3> QED
      BY <1>1, <3>1, <3>5 DEF SlotOf, PageOf
  <2> QED
    BY <2>1, <2>2, <2>3 DEF Fetched
<1>16. Reading'
  <2>g. PICK g \in Nat : g = get_index /\ Open(g)
    BY GetOpen
  <2>1. PageOf(get_index)' = PageOf(get_index)
    BY <1>1 DEF PageOf
  <2>2. qpc[Reader] = "take" => Raised(get_index)'
    <3> SUFFICES ASSUME qpc[Reader] = "take" PROVE Raised(get_index)'
      OBVIOUS
    <3>1. Raised(g) /\ g # j
      BY <1>2, <1>3, <2>g DEF SrtInv, Reading, Active
    <3>2. PageOf(g)' = PageOf(g) /\ SlotOf(g)' = SlotOf(g)
      BY <1>7, <2>g, <3>1 DEF Raised
    <3> QED
      BY <1>1, <2>g, <3>1, <3>2 DEF Raised, PageOf, SlotOf
  <2> QED
    BY <1>1, <1>2, <1>9, <1>10, <2>1, <2>2 DEF SrtInv, Reading
<1>17. Popped'
  BY <1>1, <1>10 DEF SrtInv, Popped
<1> QED
  BY <1>11, <1>12, <1>13, <1>14, <1>15, <1>16, <1>17 DEF SrtInv

-----------------------------------------------------------------------------
(* srt_queue: the invariant holds, and what it says.                       *)

\* The steps of any number of pushers as long as no index is given out that would fall
\* on the entry of the page the reader is still on.
RoomySrtSpec == SrtInit /\ [][SrtNext /\ ClaimInDirectory]_srtVars

LEMMA SrtStep ==
  ASSUME SrtInv, [SrtNext /\ ClaimInDirectory]_srtVars
  PROVE  SrtInv'
<1>1. CASE SrtNext /\ ClaimInDirectory
  <2>1. ASSUME NEW p \in Pushers, Push(p) PROVE SrtInv'
    BY <1>1, <2>1, LoadPostInv, TestRoomInv, ClaimIndexInv, StoreMessageInv, RaiseFlagInv
       DEF Push
  <2>2. ASSUME NEW t \in SrtThreads, GetMsgPage(t) PROVE SrtInv'
    BY <2>2, TestPageInv, AllocatePageInv, FetchPageInv DEF GetMsgPage
  <2>3. ASSUME Pop PROVE SrtInv'
    BY <2>3, BeginPopInv, TestFlagInv, TakeMessageInv, DeletePageInv, UnlinkPageInv,
       AdvanceInv DEF Pop
  <2> QED
    BY <1>1, <2>1, <2>2, <2>3 DEF SrtNext
<1>2. CASE UNCHANGED srtVars
  <2>1. SrtTypeOK'
    BY <1>2 DEF SrtInv, SrtTypeOK, srtVars
  <2>2. Directory' /\ Given' /\ FlagsTrue'
    BY <1>2, SharedKept DEF srtVars, SharedVars, Active
  <2>3. Fetched' /\ Popped'
    BY <1>2 DEF SrtInv, Fetched, Popped, Popping, PageOf, SlotOf, srtVars
  <2>4. Reading'
    BY <1>2 DEF SrtInv, Reading, Popping, Active, PageOf, SlotOf, Raised, srtVars
  <2> QED
    BY <2>1, <2>2, <2>3, <2>4 DEF SrtInv
<1> QED
  BY <1>1, <1>2

LEMMA SrtInvariant == RoomySrtSpec => []SrtInv
BY SrtInitInv, SrtStep, PTL DEF RoomySrtSpec

LEMMA InvNoDeadPage == SrtInv => NoDeadPage
<1> SUFFICES ASSUME SrtInv, NEW t \in SrtThreads,
                    qpc[t] \in {"store", "flag", "test", "take", "delete"}
             PROVE  page[t] # Null /\ heap[page[t]].live
  BY DEF NoDeadPage
<1>1. CASE t = Reader
  <2>1. qpc[Reader] \in {"test", "take", "delete"}
    BY <1>1 DEF SrtInv, SrtTypeOK, PopPlaces
  <2>2. page[Reader] # Null /\ page[Reader] = PageOf(get_index)
    BY <2>1 DEF SrtInv, Reading
  <2>3. Entry(get_index) \in 0 .. Pages - 1
    BY GetOpen, IndexFacts
  <2> QED
    BY <1>1, <2>1, <2>2, <2>3 DEF SrtInv, Directory, PageOf
<1>2. CASE t # Reader
  <2>1. t \in Pushers /\ qpc[t] \in {"store", "flag"} /\ Active(t)
    BY <1>2 DEF SrtInv, SrtTypeOK, PushPlaces, SrtThreads, Active
  <2>2. page[t] # Null /\ page[t] = PageOf(index[t])
    BY <2>1 DEF SrtInv, Fetched
  <2>3. Entry(index[t]) \in 0 .. Pages - 1
    BY <2>1, PushOpen, IndexFacts
  <2>4. qpc[Reader] = "unlink" => Entry(index[t]) # Entry(get_index)
    BY <2>1, NobodyBehind DEF SrtInv, Reading, Popping
  <2> QED
    BY <2>2, <2>3, <2>4 DEF SrtInv, Directory, PageOf
<1> QED
  BY <1>1, <1>2

LEMMA InvOwnSlot == SrtInv => OwnSlot
<1> SUFFICES ASSUME SrtInv PROVE OwnSlot
  OBVIOUS
<1>1. \A p \in Pushers : qpc[p] \in {"store", "flag"} =>
        /\ Active(p) /\ index[p] \in Nat /\ Open(index[p])
        /\ PageOf(index[p]) # Null /\ page[p] = PageOf(index[p])
  BY PushOpen DEF Active, SrtInv, Fetched
<1>2. ASSUME NEW p \in Pushers, NEW r \in Pushers, p # r,
             qpc[p] \in {"store", "flag"}, qpc[r] \in {"store", "flag"}, page[p] = page[r]
      PROVE  Slot(index[p]) # Slot(index[r])
  BY <1>1, <1>2, OneSlot, OwnIndex
<1>3. ASSUME NEW p \in Pushers, qpc[p] \in {"store", "flag"}
      PROVE  ~ heap[page[p]].slots[Slot(index[p])].flag
  BY <1>1, <1>3 DEF SrtInv, FlagsTrue, Raised, SlotOf
<1> QED
  BY <1>2, <1>3 DEF OwnSlot

-----------------------------------------------------------------------------
(* srt_queue: how far pushers run ahead of the reader.                     *)

\* The types the bound needs; unlike SrtTypeOK they hold for any number of pushers.
CountersOK ==
  /\ post_index \in Nat /\ get_index \in Nat
  /\ qpc \in [SrtThreads -> PushPlaces \cup PopPlaces]
  /\ seen \in [Pushers -> Nat] /\ calls \in [Pushers -> Nat]
  /\ accepted \in Seq(Pushers \X Nat)

BoundInv == CountersOK /\ Bound

LEMMA AllowedFacts == Allowed \in Nat /\ Allowed >= 1 /\ Allowed = Pages * PageMsgs - PageMsgs
<1>1. PICK n \in Nat : Pages = n + 2
  <2>1. Pages - 2 \in Nat
    BY SrtAssumption
  <2> QED
    BY <2>1, SrtAssumption
<1>2. PICK m \in Nat : m = n * PageMsgs
  BY SrtAssumption
<1>3. (n + 1) * PageMsgs = m + PageMsgs /\ (n + 2) * PageMsgs = m + PageMsgs + PageMsgs
  BY <1>2, SrtAssumption
<1> QED
  BY <1>1, <1>3, SrtAssumption DEF Allowed

\* The shift of a difference that may be negative.
LEMMA RoundedBelow ==
  ASSUME NEW m \in Nat \ {0}, NEW n \in Nat, NEW x \in Int, x \div m < n
  PROVE  x < n * m
<1>1. PICK q \in Int : q = x \div m
  OBVIOUS
<1>2. x < m * q + m
  BY <1>1
<1>3. m * (q + 1) <= m * n
  BY <1>1
<1> QED
  BY <1>2, <1>3

LEMMA Distinct ==
  ASSUME NEW S, IsFiniteSet(S), NEW a \in Int, NEW b \in Int, NEW f \in [a .. b -> S],
         \A j, k \in a .. b : j < k => f[j] # f[k]
  PROVE  b - a + 1 <= Cardinality(S) /\ Cardinality(S) \in Nat
<1>1. Cardinality(S) \in Nat
  BY FS_CardinalityType
<1>2. ASSUME b - a + 1 > Cardinality(S) PROVE FALSE
  <2>1. IsFiniteSet(a .. b) /\ Cardinality(a .. b) = b - a + 1
    BY <1>1, <1>2, FS_Interval
  <2>2. \E x, y \in a .. b : x # y /\ f[x] = f[y]
    BY <1>1, <1>2, <2>1, FS_PigeonHole
  <2> QED
    BY <2>2
<1> QED
  BY <1>1, <1>2

LEMMA BoundInitially == SrtInit => BoundInv
BY DEF SrtInit, BoundInv, CountersOK, Bound, SrtThreads, PushPlaces, PopPlaces

\* Steps that neither load post_index_ for the test nor pass it nor give out an index.
LEMMA BoundKept ==
  ASSUME BoundInv, UNCHANGED << post_index, seen, accepted >>, CountersOK',
         get_index <= get_index',
         \A p \in Pushers : qpc'[p] \in {"room", "claim"} => qpc'[p] = qpc[p]
  PROVE  BoundInv'
<1>1. get_index \in Nat /\ get_index' \in Nat /\ Allowed \in Nat /\ post_index \in Nat
      /\ \A p \in Pushers : seen[p] \in Nat
  BY AllowedFacts DEF BoundInv, CountersOK
<1>2. \A p \in Pushers : qpc'[p] = "claim" => seen[p] < get_index' + Allowed
  BY <1>1 DEF BoundInv, Bound
<1>3. \A j, k \in 1 .. post_index :
        get_index' + Allowed <= j /\ j < k => accepted[j][1] # accepted[k][1]
  <2>g. PICK g \in Nat, h \in Nat : g = get_index /\ h = get_index' /\ g <= h
    BY <1>1
  <2>d. PICK d \in Nat : d = Allowed
    BY <1>1
  <2>h. g <= h
    BY <2>g
  <2>1. \A j \in Nat : h + d <= j => g + d <= j
    BY <2>h
  <2>2. \A j \in Nat : get_index' + Allowed <= j => get_index + Allowed <= j
    BY <2>g, <2>d, <2>1
  <2> QED
    <3>1. \A j, k \in 1 .. post_index :
            get_index + Allowed <= j /\ j < k => accepted[j][1] # accepted[k][1]
      BY DEF BoundInv, Bound
    <3>2. \A j \in 1 .. post_index : j \in Nat
      BY <1>1
    <3> QED
      BY <2>2, <3>1, <3>2, Zenon
<1> QED
  BY <1>2, <1>3 DEF BoundInv, Bound

LEMMA BoundLoadPost ==
  ASSUME BoundInv, NEW p \in Pushers, LoadPost(p)
  PROVE  BoundInv'
<1>1. CountersOK'
  BY DEF BoundInv, CountersOK, LoadPost, At, SrtThreads, PushPlaces, PopPlaces
<1>2. /\ seen'[p] = post_index /\ qpc'[p] = "room"
      /\ \A r \in Pushers : r # p => seen'[r] = seen[r] /\ qpc'[r] = qpc[r]
  BY DEF BoundInv, CountersOK, LoadPost, At, SrtThreads
<1>3. UNCHANGED << post_index, get_index, accepted >>
  BY DEF LoadPost
<1>4. post_index \in Nat
  BY DEF BoundInv, CountersOK
<1> QED
  BY <1>1, <1>2, <1>3, <1>4 DEF BoundInv, Bound

LEMMA BoundTestRoom ==
  ASSUME BoundInv, NEW p \in Pushers, TestRoom(p)
  PROVE  BoundInv'
<1>1. PICK to \in {"idle", "claim"} :
        /\ At(p, "room", to)
        /\ to = "claim" => ~((seen[p] - get_index) \div PageMsgs >= Pages - 1)
  BY DEF TestRoom
<1>2. UNCHANGED << post_index, get_index, seen, accepted, calls >>
  BY DEF TestRoom
<1>3. CountersOK'
  BY <1>1, <1>2 DEF BoundInv, CountersOK, At, PushPlaces, PopPlaces
<1>4. /\ qpc[p] = "room" /\ qpc'[p] = to
      /\ \A r \in Pushers : r # p => qpc'[r] = qpc[r]
  BY <1>1 DEF BoundInv, CountersOK, At, SrtThreads
<1>5. to = "claim" => seen[p] < get_index + Allowed
  <2>1. PICK x \in Int : x = seen[p] - get_index
    BY DEF BoundInv, CountersOK
  <2>2. PICK n \in Nat : n = Pages - 1
    BY SrtAssumption
  <2>3. PageMsgs \in Nat \ {0} /\ x \div PageMsgs \in Int
    BY SrtAssumption
  <2>4. to = "claim" => x \div PageMsgs < n
    BY <1>1, <2>1, <2>2, <2>3
  <2>5. to = "claim" => x < n * PageMsgs
    BY <2>3, <2>4, RoundedBelow
  <2>6. to = "claim" => x < Allowed
    BY <2>2, <2>5 DEF Allowed
  <2> QED
    BY <2>1, <2>6, AllowedFacts DEF BoundInv, CountersOK
<1> QED
  BY <1>2, <1>3, <1>4, <1>5 DEF BoundInv, Bound

LEMMA BoundClaimIndex ==
  ASSUME BoundInv, NEW p \in Pushers, ClaimIndex(p)
  PROVE  BoundInv'
<1>1. /\ UNCHANGED << get_index, seen, calls >>
      /\ At(p, "claim", "page")
      /\ post_index' = post_index + 1
      /\ accepted' = Append(accepted, << p, calls[p] >>)
  BY DEF ClaimIndex
<1>2. /\ qpc[p] = "claim" /\ qpc'[p] = "page"
      /\ \A r \in Pushers : r # p => qpc'[r] = qpc[r]
  BY <1>1 DEF BoundInv, CountersOK, At, SrtThreads
<1>3. /\ post_index \in Nat /\ get_index \in Nat /\ Allowed \in Nat
      /\ Len(accepted) = post_index /\ accepted \in Seq(Pushers \X Nat)
      /\ << p, calls[p] >> \in Pushers \X Nat
      /\ \A r \in Pushers : seen[r] \in Nat
  BY AllowedFacts DEF BoundInv, CountersOK, Bound
<1>4. /\ accepted' \in Seq(Pushers \X Nat) /\ Len(accepted') = post_index + 1
      /\ accepted'[post_index + 1] = << p, calls[p] >>
      /\ \A k \in 1 .. post_index : accepted'[k] = accepted[k]
  BY <1>1, <1>3
<1>5. CountersOK'
  <2>1. qpc' \in [SrtThreads -> PushPlaces \cup PopPlaces]
    BY <1>1 DEF BoundInv, CountersOK, At, PushPlaces, PopPlaces
  <2>2. post_index' \in Nat
    BY <1>1, <1>3
  <2> QED
    BY <1>1, <1>4, <2>1, <2>2 DEF BoundInv, CountersOK
<1>6. \A r \in Pushers : qpc'[r] \in {"room", "claim"} =>
        /\ seen[r] <= post_index + 1
        /\ \A k \in 1 .. post_index + 1 : accepted'[k][1] = r => k <= seen[r]
  <2> SUFFICES ASSUME NEW r \in Pushers, qpc'[r] \in {"room", "claim"}
               PROVE  /\ seen[r] <= post_index + 1
                      /\ \A k \in 1 .. post_index + 1 : accepted'[k][1] = r => k <= seen[r]
    OBVIOUS
  <2>1. r # p /\ qpc[r] \in {"room", "claim"}
    BY <1>2
  <2>2. /\ seen[r] <= post_index
        /\ \A k \in 1 .. post_index : accepted[k][1] = r => k <= seen[r]
    BY <2>1 DEF BoundInv, Bound
  <2> QED
    <3>1. seen[r] <= post_index + 1
      BY <1>3, <2>2
    <3>2. ASSUME NEW k \in 1 .. post_index + 1, accepted'[k][1] = r PROVE k <= seen[r]
      <4>1. k # post_index + 1
        BY <1>4, <2>1, <3>2
      <4>2. k \in 1 .. post_index /\ accepted'[k] = accepted[k]
        BY <1>3, <1>4, <4>1
      <4> QED
        BY <2>2, <3>2, <4>2
    <3> QED
      BY <3>1, <3>2
<1>7. \A r \in Pushers : qpc'[r] = "claim" => seen[r] < get_index + Allowed
  BY <1>2 DEF BoundInv, Bound
<1>8. \A j, k \in 1 .. post_index + 1 :
        get_index + Allowed <= j /\ j < k => accepted'[j][1] # accepted'[k][1]
  <2> SUFFICES ASSUME NEW j \in 1 .. post_index + 1, NEW k \in 1 .. post_index + 1,
                      get_index + Allowed <= j, j < k
               PROVE  accepted'[j][1] # accepted'[k][1]
    OBVIOUS
  <2>1. CASE k <= post_index
    <3>1. /\ j \in 1 .. post_index /\ accepted'[j] = accepted[j]
          /\ k \in 1 .. post_index /\ accepted'[k] = accepted[k]
      BY <1>3, <1>4, <2>1
    <3>2. \A i, l \in 1 .. post_index :
            get_index + Allowed <= i /\ i < l => accepted[i][1] # accepted[l][1]
      BY DEF BoundInv, Bound
    <3> QED
      BY <3>1, <3>2
  <2>2. CASE k = post_index + 1
    <3>1. j \in 1 .. post_index /\ accepted'[j] = accepted[j]
      BY <1>3, <1>4, <2>2
    <3>2. seen[p] < j
      BY <1>2, <1>3 DEF BoundInv, Bound
    <3>3. accepted[j][1] # p
      BY <1>2, <1>3, <3>1, <3>2 DEF BoundInv, Bound
    <3> QED
      BY <1>4, <2>2, <3>1, <3>3
  <2> QED
    BY <1>3, <2>1, <2>2
<1> QED
  BY <1>1, <1>4, <1>5, <1>6, <1>7, <1>8 DEF BoundInv, Bound

LEMMA BoundStep ==
  ASSUME BoundInv, [SrtNext]_srtVars
  PROVE  BoundInv'
<1>1. CASE SrtNext
  <2>1. ASSUME NEW p \in Pushers, StoreMessage(p) \/ RaiseFlag(p) PROVE BoundInv'
    <3>1. PICK from \in {"store", "flag"}, to \in {"flag", "idle"} : At(p, from, to)
      BY <2>1 DEF StoreMessage, RaiseFlag
    <3>2. UNCHANGED << post_index, get_index, seen, accepted, calls >>
      BY <2>1 DEF StoreMessage, RaiseFlag
    <3>3. qpc' \in [SrtThreads -> PushPlaces \cup PopPlaces]
      BY <3>1 DEF At, BoundInv, CountersOK, PushPlaces
    <3>4. CountersOK' /\ get_index <= get_index'
      BY <3>2, <3>3 DEF BoundInv, CountersOK
    <3>5. \A r \in Pushers : qpc'[r] \in {"room", "claim"} => qpc'[r] = qpc[r]
      BY <3>1 DEF At, BoundInv, CountersOK, SrtThreads
    <3> QED
      BY <3>2, <3>4, <3>5, BoundKept
  <2>2. ASSUME NEW t \in SrtThreads, GetMsgPage(t) PROVE BoundInv'
    <3>1. PICK from \in {"page", "allocate", "fetch"},
               to \in {"allocate", "fetch", "test", "store"} : At(t, from, to)
      BY <2>2 DEF GetMsgPage, TestPage, AllocatePage, FetchPage
    <3>2. UNCHANGED << post_index, get_index, seen, accepted, calls >>
      BY <2>2 DEF GetMsgPage, TestPage, AllocatePage, FetchPage
    <3> QED
      BY <3>1, <3>2, BoundKept DEF At, BoundInv, CountersOK, SrtThreads, PushPlaces, PopPlaces
  <2>3. ASSUME Pop PROVE BoundInv'
    <3>1. PICK from \in PopPlaces, to \in PopPlaces : At(Reader, from, to)
      BY <2>3 DEF Pop, BeginPop, TestFlag, TakeMessage, DeletePage, UnlinkPage, Advance, PopPlaces
    <3>2. /\ UNCHANGED << post_index, seen, accepted, calls >>
          /\ get_index' = get_index \/ get_index' = get_index + 1
      BY <2>3 DEF Pop, BeginPop, TestFlag, TakeMessage, DeletePage, UnlinkPage, Advance
    <3>3. \A p \in Pushers : qpc'[p] = qpc[p]
      BY <3>1, SrtAssumption DEF At, BoundInv, CountersOK, SrtThreads
    <3>4. CountersOK' /\ get_index <= get_index'
      <4>1. qpc' \in [SrtThreads -> PushPlaces \cup PopPlaces]
        BY <3>1 DEF At, BoundInv, CountersOK
      <4>2. get_index' \in Nat /\ get_index <= get_index'
        BY <3>2 DEF BoundInv, CountersOK
      <4> QED
        BY <3>2, <4>1, <4>2 DEF BoundInv, CountersOK
    <3> QED
      BY <3>2, <3>3, <3>4, BoundKept
  <2> QED
    BY <1>1, <2>1, <2>2, <2>3, BoundLoadPost, BoundTestRoom, BoundClaimIndex DEF SrtNext, Push
<1>2. CASE UNCHANGED srtVars
  BY <1>2 DEF BoundInv, CountersOK, Bound, srtVars
<1> QED
  BY <1>1, <1>2

\* At a claim every index too far ahead belongs to another pusher.
LEMMA ClaimBound ==
  ASSUME BoundInv, NEW p \in Pushers, ClaimIndex(p)
  PROVE  /\ Cardinality(Pushers) \in Nat
         /\ post_index <= get_index + Allowed + Cardinality(Pushers) - 2
<1>1. /\ post_index \in Nat /\ get_index \in Nat /\ Allowed \in Nat /\ Allowed >= 1
      /\ Len(accepted) = post_index /\ accepted \in Seq(Pushers \X Nat)
      /\ qpc[p] = "claim"
  BY AllowedFacts DEF BoundInv, CountersOK, Bound, ClaimIndex, At
<1>2. PICK a \in Nat : a = get_index + Allowed /\ a >= 1
  BY <1>1
<1>3. PICK f : f = [j \in a .. post_index |-> accepted[j][1]]
  OBVIOUS
<1>4. \A j \in a .. post_index : accepted[j][1] \in Pushers \ {p}
  <2> TAKE j \in a .. post_index
  <2>1. j \in 1 .. post_index
    BY <1>1, <1>2
  <2>2. accepted[j] \in Pushers \X Nat
    BY <1>1, <2>1
  <2>3. accepted[j][1] # p
    <3>1. seen[p] \in Nat /\ seen[p] < a
      BY <1>1, <1>2 DEF BoundInv, Bound, CountersOK
    <3>2. \A k \in 1 .. post_index : accepted[k][1] = p => k <= seen[p]
      BY <1>1 DEF BoundInv, Bound
    <3> QED
      BY <2>1, <3>1, <3>2
  <2> QED
    BY <2>2, <2>3
<1>5. f \in [a .. post_index -> Pushers \ {p}]
  BY <1>3, <1>4
<1>6. \A j, k \in a .. post_index : j < k => f[j] # f[k]
  BY <1>1, <1>2, <1>3 DEF BoundInv, Bound
<1>7. /\ IsFiniteSet(Pushers \ {p}) /\ Cardinality(Pushers) \in Nat
      /\ Cardinality(Pushers \ {p}) = Cardinality(Pushers) - 1
  BY FS_RemoveElement, FS_CardinalityType, SrtAssumption
<1>8. post_index - a + 1 <= Cardinality(Pushers \ {p})
  <2>1. PICK b \in Int : b = post_index
    BY <1>1
  <2>2. PICK S : S = Pushers \ {p}
    OBVIOUS
  <2>3. IsFiniteSet(S) /\ f \in [a .. b -> S]
    BY <1>5, <1>7, <2>1, <2>2
  <2>4. \A j, k \in a .. b : j < k => f[j] # f[k]
    BY <1>6, <2>1
  <2>5. a \in Int
    OBVIOUS
  <2>6. b - a + 1 <= Cardinality(S)
    BY <2>3, <2>4, <2>5, Distinct
  <2> QED
    BY <2>1, <2>2, <2>6
<1> QED
  BY <1>1, <1>2, <1>7, <1>8

LEMMA BoundInvariant == SrtSpec => []BoundInv
BY BoundInitially, BoundStep, PTL DEF SrtSpec

\* All allowed indices fit in the directory, wherever on its page the reader is.
LEMMA AllowedFits ==
  ASSUME NEW g \in Nat, NEW i \in Nat, i <= g + Allowed
  PROVE  Leaf(i) < Leaf(g) + Pages
<1>1. PICK q \in Nat, r \in 0 .. PageMsgs - 1 : q = g \div PageMsgs /\ g = PageMsgs * q + r
  <2>1. /\ g \div PageMsgs \in Nat /\ g % PageMsgs \in 0 .. PageMsgs - 1
        /\ g = PageMsgs * (g \div PageMsgs) + (g % PageMsgs)
    BY DivMod, SrtAssumption
  <2> QED
    BY <2>1
<1>2. PICK n \in Nat : Pages = n + 1
  <2>1. Pages - 1 \in Nat /\ Pages = (Pages - 1) + 1
    BY SrtAssumption
  <2> QED
    BY <2>1
<1>3. PICK s \in Nat : s = q + n
  OBVIOUS
<1>4. PageMsgs * s = PageMsgs * q + n * PageMsgs
  BY <1>3, SrtAssumption
<1>5. Allowed = n * PageMsgs
  <2>1. Pages - 1 = n
    BY <1>2
  <2> QED
    BY <2>1 DEF Allowed
<1>6. PICK m \in Nat : m = PageMsgs * s + r
  BY SrtAssumption
<1>7. g + Allowed = m
  BY <1>1, <1>4, <1>5, <1>6, SrtAssumption
<1>8. m \div PageMsgs = s
  BY <1>6, DivModUnique, SrtAssumption
<1>9. i \div PageMsgs <= s
  BY <1>7, <1>8, DivMonotonic, SrtAssumption
<1>10. PICK l \in Nat : l = i \div PageMsgs
  BY DivMod, SrtAssumption
<1>11. l < q + (n + 1)
  BY <1>3, <1>9, <1>10
<1> QED
  BY <1>1, <1>2, <1>10, <1>11 DEF Leaf

LEMMA FewPushersStep ==
  ASSUME Cardinality(Pushers) <= 2, BoundInv, SrtNext
  PROVE  ClaimInDirectory
<1>1. CASE post_index' = post_index
  BY <1>1 DEF ClaimInDirectory
<1>2. CASE post_index' # post_index
  <2>1. PICK p \in Pushers : ClaimIndex(p)
    <3>1. \A t \in SrtThreads : ~GetMsgPage(t)
      BY <1>2 DEF GetMsgPage, TestPage, AllocatePage, FetchPage
    <3>2. ~Pop
      BY <1>2 DEF Pop, BeginPop, TestFlag, TakeMessage, DeletePage, UnlinkPage, Advance
    <3> QED
      BY <1>2, <3>1, <3>2 DEF SrtNext, Push, LoadPost, TestRoom, StoreMessage, RaiseFlag
  <2>2. /\ Cardinality(Pushers) \in Nat
        /\ post_index <= get_index + Allowed + Cardinality(Pushers) - 2
    BY <2>1, ClaimBound
  <2>3. PICK i \in Nat, g \in Nat : i = post_index /\ g = get_index
    BY DEF BoundInv, CountersOK
  <2>4. i <= g + Allowed
    BY <2>2, <2>3, AllowedFacts
  <2> QED
    BY <2>3, <2>4, AllowedFits DEF ClaimInDirectory
<1> QED
  BY <1>1, <1>2

(* With at most two pushers the room always holds: the test for room lets  *)
(* every other pusher run one index too far, and the page the directory    *)
(* keeps free takes exactly one such index (mqueue.h:86-97).               *)
THEOREM TwoPushersRoomy ==
  ASSUME Cardinality(Pushers) <= 2
  PROVE  SrtSpec => RoomySrtSpec
<1>1. BoundInv /\ [SrtNext]_srtVars => [SrtNext /\ ClaimInDirectory]_srtVars
  BY FewPushersStep
<1> QED
  BY <1>1, BoundInvariant, PTL DEF SrtSpec, RoomySrtSpec

(* Types of the queue (mqueue.h:34-189): every index, pointer, slot and    *)
(* history is what it should be.                                           *)
THEOREM SrtTypeCorrect ==
  /\ RoomySrtSpec => []SrtTypeOK
  /\ Cardinality(Pushers) <= 2 => (SrtSpec => []SrtTypeOK)
<1>1. SrtInv => SrtTypeOK
  BY DEF SrtInv
<1>2. RoomySrtSpec => []SrtTypeOK
  BY <1>1, SrtInvariant, PTL
<1>3. ASSUME Cardinality(Pushers) <= 2 PROVE SrtSpec => []SrtTypeOK
  BY <1>2, <1>3, TwoPushersRoomy
<1> QED
  BY <1>2, <1>3

(* A thread about to use its page has a page that was not deleted: the     *)
(* reader deletes a page when the last slot of it was taken, and by then   *)
(* no push is at work on it (mqueue.h:99-103, 122-125).  For pages and     *)
(* directories of any size: with two pushers always, with more of them as  *)
(* long as the room holds.                                                 *)
THEOREM NoDeadPageCorrect ==
  /\ RoomySrtSpec => []NoDeadPage
  /\ Cardinality(Pushers) <= 2 => (SrtSpec => []NoDeadPage)
<1>1. RoomySrtSpec => []NoDeadPage
  BY SrtInvariant, InvNoDeadPage, PTL
<1>2. ASSUME Cardinality(Pushers) <= 2 PROVE SrtSpec => []NoDeadPage
  BY <1>1, <1>2, TwoPushersRoomy
<1> QED
  BY <1>1, <1>2

(* No two pushes write to one slot, and none to a slot whose message was   *)
(* announced (mqueue.h:98-103), under the same condition.                  *)
THEOREM OwnSlotCorrect ==
  /\ RoomySrtSpec => []OwnSlot
  /\ Cardinality(Pushers) <= 2 => (SrtSpec => []OwnSlot)
<1>1. RoomySrtSpec => []OwnSlot
  BY SrtInvariant, InvOwnSlot, PTL
<1>2. ASSUME Cardinality(Pushers) <= 2 PROVE SrtSpec => []OwnSlot
  BY <1>1, <1>2, TwoPushersRoomy
<1> QED
  BY <1>1, <1>2

-----------------------------------------------------------------------------
(* srt_queue: it implements Mailbox.                                       *)

LEMMA MailboxStep ==
  ASSUME SrtInv, BoundInv, [SrtNext]_srtVars
  PROVE  [Promise!MailboxNext]_<< accepted, popped >>
<1> SUFFICES ASSUME SrtNext, ~UNCHANGED << accepted, popped >>
             PROVE  Promise!MailboxNext
  BY DEF srtVars
<1>1. CASE \E p \in Pushers : ClaimIndex(p)
  <2>1. PICK p \in Pushers : ClaimIndex(p)
    BY <1>1
  <2>2. /\ accepted' = Append(accepted, << p, calls[p] >>) /\ UNCHANGED popped
        /\ qpc[p] = "claim"
    BY <2>1 DEF ClaimIndex, At
  <2>3. << p, calls[p] >> \in SrtMessages
    BY <2>2 DEF SrtInv, SrtTypeOK, SrtMessages
  <2>4. /\ Cardinality(Pushers) \in Nat
        /\ post_index <= get_index + Allowed + Cardinality(Pushers) - 2
    BY <2>1, ClaimBound
  <2>5. /\ post_index \in Nat /\ get_index \in Nat /\ Len(accepted) = post_index
        /\ Len(popped) \in Nat /\ Len(popped) >= get_index
    BY DEF SrtInv, SrtTypeOK, Given, Popped
  <2>6. Len(accepted) - Len(popped) < Allowed + Cardinality(Pushers) - 1
    BY <2>4, <2>5, AllowedFacts
  <2> QED
    BY <2>2, <2>3, <2>6 DEF Promise!MailboxNext, Promise!Post, Allowed
<1>2. CASE TakeMessage
  <2>1. qpc[Reader] = "take" /\ UNCHANGED accepted
    BY <1>2 DEF TakeMessage, At
  <2>2. popped' = Append(popped, accepted[Len(popped) + 1])
    BY <1>2, <2>1, TakeFacts DEF TakeMessage, SlotOf
  <2>3. Len(popped) < Len(accepted)
    BY <2>1, TakeFacts DEF SrtInv, Given
  <2> QED
    BY <2>1, <2>2, <2>3 DEF Promise!MailboxNext, Promise!Take
<1>3. CASE ~TakeMessage /\ \A p \in Pushers : ~ClaimIndex(p)
  <2>1. \A t \in SrtThreads : ~GetMsgPage(t)
    BY DEF GetMsgPage, TestPage, AllocatePage, FetchPage
  <2>2. ~Pop
    BY <1>3 DEF Pop, BeginPop, TestFlag, DeletePage, UnlinkPage, Advance
  <2> QED
    BY <1>3, <2>1, <2>2 DEF SrtNext, Push, LoadPost, TestRoom, StoreMessage, RaiseFlag
<1> QED
  BY <1>1, <1>2, <1>3

(* The queue implements Mailbox: every step accepts a message while fewer  *)
(* than (Pages - 1) full pages and one per other pusher wait, or hands out *)
(* the oldest message not handed out, or neither (mqueue.h:31-32, 86-136); *)
(* under the same condition.                                               *)
THEOREM KeepsMailboxCorrect ==
  /\ RoomySrtSpec => KeepsMailbox
  /\ Cardinality(Pushers) <= 2 => (SrtSpec => KeepsMailbox)
<1>1. SrtInit => Promise!MailboxInit
  BY DEF SrtInit, Promise!MailboxInit
<1>2. RoomySrtSpec => SrtSpec
  <2>1. [SrtNext /\ ClaimInDirectory]_srtVars => [SrtNext]_srtVars
    OBVIOUS
  <2> QED
    BY <2>1, PTL DEF RoomySrtSpec, SrtSpec
<1>3. RoomySrtSpec => KeepsMailbox
  BY <1>1, <1>2, MailboxStep, SrtInvariant, BoundInvariant, PTL
     DEF SrtSpec, KeepsMailbox, Promise!MailboxSpec
<1>4. ASSUME Cardinality(Pushers) <= 2 PROVE SrtSpec => KeepsMailbox
  BY <1>3, <1>4, TwoPushersRoomy
<1> QED
  BY <1>3, <1>4
-----------------------------------------------------------------------------
(* drb_queue: the invariant, for any number of pushing threads.            *)

DrbPlaces ==
  {"idle", "test", "entry", "lock", "count", "swap", "make", "result", "store", "written",
   "read", "stray"}
DrbRow == [0 .. RowMsgs - 1 -> Nat \cup {Nil}]

DrbTypeOK ==
  /\ next_post \in Nat /\ write_index \in Nat /\ row_count \in Nat \ {0}
  /\ directories \in Seq(Seq(Nat \cup {Nil})) /\ directory \in 1 .. Len(directories)
  /\ rows \in Seq(DrbRow)
  /\ owner \in DrbThreads \cup {Nil}
  /\ dpc \in [DrbThreads -> DrbPlaces]
  /\ dpc[Getter] \notin {"store", "written"} /\ \A a \in Authors : dpc[a] # "read"
  /\ at \in [DrbThreads -> Nat]
  /\ row \in [DrbThreads -> Nat \cup {Nil}]
  /\ got \in [pos : Nat, msg : Nat \cup {Nil}]

\* Directories and pages are made by the thread that holds the mutex.
OneHolder == \A t \in DrbThreads : dpc[t] \in {"count", "swap", "make"} => owner = t

\* The stored length is the one of the directory in use, or the one of the longer copy that
\* is about to replace it.
Lengths ==
  /\ 1 <= Len(InUse) /\ Len(InUse) <= row_count
  /\ (\A t \in DrbThreads : dpc[t] # "swap") => Len(InUse) = row_count
  /\ \A t \in DrbThreads : dpc[t] = "swap" =>
       /\ Len(directories[Len(directories)]) = row_count
       /\ \A r \in 1 .. row_count :
            directories[Len(directories)][r] = IF r <= Len(InUse) THEN InUse[r] ELSE Nil

\* Every entry names a page of its own.
Entries ==
  /\ \A r \in 1 .. Len(InUse) : InUse[r] # Nil => InUse[r] \in 1 .. Len(rows)
  /\ \A r, s \in 1 .. Len(InUse) : InUse[r] = InUse[s] /\ InUse[r] # Nil => r = s

\* A slot holds the message of its position or none yet.
OwnPlace ==
  \A i \in Nat : RowEntry(Row(i)) # Nil => rows[RowEntry(Row(i))][Place(i)] \in {i, Nil}

\* What a thread has found out about the page of its index.
LookedUp(t) ==
  /\ dpc[t] = "entry" => Row(at[t]) < row_count
  /\ dpc[t] \in {"swap", "make"} => Row(at[t]) <= row_count
  /\ dpc[t] = "result" => RowEntry(Row(at[t])) # Nil
  /\ dpc[t] \in {"store", "written", "read"} =>
       RowEntry(Row(at[t])) # Nil /\ row[t] = RowEntry(Row(at[t]))

DrbInv ==
  /\ DrbTypeOK /\ OneHolder /\ Lengths /\ Entries /\ OwnPlace
  /\ \A t \in DrbThreads : LookedUp(t)

-----------------------------------------------------------------------------
(* drb_queue: the length of a new directory.                               *)

\* The numbers reached from n by doubling, and the least of them not below r.
Reach(n) == {m \in Nat : \A S \in SUBSET Nat : n \in S /\ (\A k \in S : 2 * k \in S) => m \in S}
Least(S) == CHOOSE m \in S : \A k \in S : m <= k
From(n, r) == {m \in Reach(n) : m >= r}

LEMMA ReachFacts ==
  ASSUME NEW n \in Nat
  PROVE /\ n \in Reach(n) /\ \A m \in Reach(n) : m >= n
        /\ \A m \in Reach(n) : m = n \/ m \in Reach(2 * n)
        /\ \A m \in Reach(2 * n) : m \in Reach(n)
<1>1. n \in Reach(n)
  BY DEF Reach
<1>2. ASSUME NEW m \in Reach(n) PROVE m >= n
  <2>1. PICK S : S = {k \in Nat : k >= n}
    OBVIOUS
  <2>2. S \in SUBSET Nat /\ n \in S /\ \A k \in S : 2 * k \in S
    BY <2>1
  <2>3. m \in S
    BY <2>2 DEF Reach
  <2> QED
    BY <2>1, <2>3
<1>3. ASSUME NEW m \in Reach(n), m # n PROVE m \in Reach(2 * n)
  <2>0. 2 * n \in Nat /\ m \in Nat
    BY DEF Reach
  <2> SUFFICES ASSUME NEW S \in SUBSET Nat, 2 * n \in S, \A k \in S : 2 * k \in S
               PROVE  m \in S
    BY <2>0 DEF Reach
  <2>1. PICK T : T = S \cup {n}
    OBVIOUS
  <2>2. T \in SUBSET Nat /\ n \in T /\ \A k \in T : 2 * k \in T
    BY <2>1
  <2>3. m \in T
    BY <2>2 DEF Reach
  <2> QED
    BY <1>3, <2>1, <2>3
<1>4. ASSUME NEW m \in Reach(2 * n) PROVE m \in Reach(n)
  <2>1. m \in Nat
    BY DEF Reach
  <2> SUFFICES ASSUME NEW S \in SUBSET Nat, n \in S, \A k \in S : 2 * k \in S
               PROVE  m \in S
    BY <2>1 DEF Reach
  <2> QED
    BY DEF Reach
<1> QED
  BY <1>1, <1>2, <1>3, <1>4

Less == {ss \in Nat \X Nat : ss[1] < ss[2]}

LEMMA LeastNumber ==
  ASSUME NEW D, D \subseteq Nat, D # {}
  PROVE  \E d \in D : \A e \in D : d <= e
<1>1. IsWellFoundedOn(Less, Nat)
  BY NatLessThanWellFounded DEF OpToRel, Less
<1>2. PICK d \in D : \A e \in D : ~(<< e, d >> \in Less)
  BY <1>1, WFMin
<1>3. \A e \in D : ~(e < d)
  BY <1>2 DEF Less
<1> QED
  BY <1>3

\* The doubling ends, at a length that is neither below r nor below the first one. The
\* function is shown to exist first: it is the least number reached by doubling that is not
\* below r.
LEMMA ExtendedFits ==
  ASSUME NEW r \in Nat, NEW n \in Nat \ {0}
  PROVE  Extended(n, r) \in Nat /\ Extended(n, r) >= r /\ Extended(n, r) >= n
<1>1. PICK g : g = [m \in Nat |-> IF r > m THEN Least(From(m, r)) ELSE m]
  OBVIOUS
<1>2. ASSUME NEW m \in Nat
      PROVE  g[m] = IF r > m THEN g[2 * m] ELSE m
  <2>0. 2 * m \in Nat
    OBVIOUS
  <2>1. CASE r > m
    <3>1. From(m, r) = From(2 * m, r)
      BY <2>1, ReachFacts DEF From
    <3>2. CASE r > 2 * m
      BY <1>1, <2>0, <2>1, <3>1, <3>2
    <3>3. CASE ~(r > 2 * m)
      <4>1. PICK k \in Nat : k = 2 * m /\ k >= r
        BY <2>0, <3>3
      <4>2. k \in From(k, r) /\ \A l \in From(k, r) : k <= l /\ l \in Nat
        BY <4>1, ReachFacts DEF From, Reach
      <4>3. Least(From(k, r)) = k
        BY <4>2 DEF Least
      <4> QED
        BY <1>1, <2>0, <2>1, <3>1, <3>3, <4>1, <4>3
    <3> QED
      BY <3>2, <3>3
  <2>2. CASE ~(r > m)
    BY <1>1, <2>2
  <2> QED
    BY <2>1, <2>2
<1>3. g = [m \in Nat |-> IF r > m THEN g[2 * m] ELSE m]
  <2> HIDE <1>2
  <2>1. \A m \in Nat : g[m] = IF r > m THEN g[2 * m] ELSE m
    BY <1>2
  <2>2. g = [m \in Nat |-> g[m]]
    BY <1>1
  <2> QED
    BY <2>1, <2>2
<1>4. PICK f : f = CHOOSE h : h = [m \in Nat |-> IF r > m THEN h[2 * m] ELSE m]
  OBVIOUS
<1>5. f = [m \in Nat |-> IF r > m THEN f[2 * m] ELSE m]
  BY <1>3, <1>4
<1>6. \A m \in Nat : f[m] = IF r > m THEN f[2 * m] ELSE m
  BY <1>5
<1> HIDE <1>5
<1>7. PICK Bad : Bad = {m \in Nat \ {0} : ~(f[m] \in Nat /\ f[m] >= r /\ f[m] >= m)}
  OBVIOUS
<1>8. \A m \in Bad : m \in Nat \ {0} /\ m < r
  BY <1>6, <1>7
<1>9. Bad = {}
  <2> SUFFICES ASSUME Bad # {} PROVE FALSE
    OBVIOUS
  <2>1. PICK D : D = {r - m : m \in Bad}
    OBVIOUS
  <2>2. D \subseteq Nat /\ D # {}
    BY <1>8, <2>1
  <2>3. PICK d \in D : \A e \in D : d <= e
    BY <2>2, LeastNumber
  <2>4. PICK m \in Bad : d = r - m
    BY <2>1
  <2>5. 2 * m \in Nat \ {0} /\ f[m] = f[2 * m]
    BY <1>6, <1>8, <2>4
  <2>6. 2 * m \notin Bad
    <3> SUFFICES ASSUME 2 * m \in Bad PROVE FALSE
      OBVIOUS
    <3>1. r - 2 * m \in D /\ r - 2 * m < d
      BY <1>8, <2>1, <2>4
    <3> QED
      BY <1>8, <2>2, <2>3, <3>1
  <2>7. f[2 * m] \in Nat /\ f[2 * m] >= r /\ f[2 * m] >= 2 * m
    BY <1>7, <2>5, <2>6
  <2>8. f[m] \in Nat /\ f[m] >= r /\ f[m] >= m
    <3>1. m \in Nat
      BY <1>8
    <3> QED
      BY <2>5, <2>7, <3>1
  <2> QED
    BY <1>7, <2>8
<1> QED
  BY <1>4, <1>7, <1>9 DEF Extended

-----------------------------------------------------------------------------
(* drb_queue: what a state with the invariant gives.                       *)

StoredVars == << row_count, directories, directory, rows >>

LEMMA RowFacts ==
  ASSUME NEW i \in Nat
  PROVE  Row(i) \in Nat /\ Place(i) \in 0 .. RowMsgs - 1
BY DivMod, DrbAssumption DEF Row, Place

LEMMA SamePlace ==
  ASSUME NEW i \in Nat, NEW j \in Nat, Row(i) = Row(j), Place(i) = Place(j)
  PROVE  i = j
<1>1. i % RowMsgs = j % RowMsgs /\ i \div RowMsgs = j \div RowMsgs /\ RowMsgs \in Nat \ {0}
  BY DrbAssumption DEF Row, Place
<1> QED
  BY <1>1, DivModSame

LEMMA DirectoryFacts ==
  ASSUME DrbInv
  PROVE  /\ InUse \in Seq(Nat \cup {Nil}) /\ Len(InUse) \in Nat \ {0}
         /\ row_count \in Nat \ {0} /\ Len(InUse) <= row_count
         /\ \A r \in Nat : r < Len(InUse) => RowEntry(r) = InUse[r + 1]
<1>1. InUse \in Seq(Nat \cup {Nil})
  BY DEF DrbInv, DrbTypeOK, InUse
<1>2. Len(InUse) \in Nat \ {0} /\ row_count \in Nat \ {0} /\ Len(InUse) <= row_count
  BY <1>1 DEF DrbInv, DrbTypeOK, Lengths
<1> QED
  BY <1>1, <1>2 DEF RowEntry

\* An entry that is there names a page of the list of pages.
LEMMA EntryFacts ==
  ASSUME DrbInv, NEW r \in Nat, RowEntry(r) # Nil
  PROVE  /\ r < Len(InUse) /\ RowEntry(r) \in 1 .. Len(rows) /\ RowEntry(r) \in Nat
         /\ rows[RowEntry(r)] \in DrbRow
<1>1. r < Len(InUse)
  BY DEF RowEntry
<1>2. r + 1 \in 1 .. Len(InUse) /\ RowEntry(r) = InUse[r + 1]
  BY <1>1, DirectoryFacts
<1>3. RowEntry(r) \in 1 .. Len(rows)
  BY <1>2 DEF DrbInv, Entries
<1> QED
  BY <1>1, <1>3 DEF DrbInv, DrbTypeOK

\* Two entries that name one page are the same entry.
LEMMA OneEntry ==
  ASSUME DrbInv, NEW r \in Nat, NEW s \in Nat, RowEntry(r) # Nil, RowEntry(r) = RowEntry(s)
  PROVE  r = s
<1>1. r < Len(InUse) /\ s < Len(InUse)
  BY EntryFacts
<1>2. /\ r + 1 \in 1 .. Len(InUse) /\ RowEntry(r) = InUse[r + 1]
      /\ s + 1 \in 1 .. Len(InUse) /\ RowEntry(s) = InUse[s + 1]
  BY <1>1, DirectoryFacts
<1>3. r + 1 = s + 1
  BY <1>2 DEF DrbInv, Entries
<1> QED
  BY <1>3

LEMMA ThreadFacts ==
  ASSUME DrbInv, NEW t \in DrbThreads
  PROVE  /\ at[t] \in Nat /\ Row(at[t]) \in Nat /\ Place(at[t]) \in 0 .. RowMsgs - 1
         /\ t # Nil /\ LookedUp(t) /\ (t = Getter \/ (t \in Authors /\ t # Getter))
BY RowFacts, DrbAssumption DEF DrbInv, DrbTypeOK, DrbThreads

\* Who holds the mutex is alone: no other thread is about to replace the directory.
LEMMA HolderAlone ==
  ASSUME DrbInv, NEW t \in DrbThreads, dpc[t] \in {"count", "swap", "make"}
  PROVE  /\ \A u \in DrbThreads : u # t => dpc[u] \notin {"count", "swap", "make"}
         /\ dpc[t] # "swap" => Len(InUse) = row_count
<1>1. \A u \in DrbThreads : u # t => dpc[u] \notin {"count", "swap", "make"}
  BY DEF DrbInv, OneHolder
<1>2. dpc[t] # "swap" => \A u \in DrbThreads : dpc[u] # "swap"
  BY <1>1
<1> QED
  BY <1>1, <1>2 DEF DrbInv, Lengths

\* What a step keeps that leaves the stored variables alone.
LEMMA StoredKept ==
  ASSUME DrbInv, UNCHANGED StoredVars
  PROVE  /\ Entries' /\ OwnPlace' /\ InUse' = InUse
         /\ \A i \in Nat : /\ RowEntry(i)' = RowEntry(i)
                           /\ Kept(i)' <=> Kept(i)
<1>1. InUse' = InUse
  BY DEF InUse, StoredVars
<1>2. \A i \in Nat : RowEntry(i)' = RowEntry(i)
  BY <1>1 DEF RowEntry
<1>3. Entries'
  BY <1>1 DEF DrbInv, Entries, StoredVars
<1>4. \A i \in Nat : Kept(i)' <=> Kept(i)
  BY <1>1, <1>2, RowFacts DEF Kept, StoredVars
<1>5. OwnPlace'
  BY <1>2, RowFacts DEF DrbInv, OwnPlace, StoredVars
<1> QED
  BY <1>1, <1>2, <1>3, <1>4, <1>5

\* A thread that did not move knows what it knew: entries are added, never changed.
LEMMA StillLookedUp ==
  ASSUME DrbInv, NEW u \in DrbThreads,
         dpc'[u] = dpc[u], at'[u] = at[u], row'[u] = row[u],
         row_count' \in Nat, row_count' >= row_count,
         \A r \in Nat : RowEntry(r) # Nil => RowEntry(r)' = RowEntry(r)
  PROVE  LookedUp(u)'
<1>1. PICK r \in Nat : r = Row(at[u])
  BY ThreadFacts
<1>2. RowEntry(r) # Nil => RowEntry(r)' = RowEntry(r)
  OBVIOUS
<1>3. Row(at'[u]) = r
  BY <1>1
<1>4. RowEntry(Row(at[u]))' = RowEntry(r)'
  BY <1>3 DEF RowEntry
<1>5. LookedUp(u) /\ row_count \in Nat
  BY ThreadFacts, DirectoryFacts
<1> QED
  BY <1>1, <1>2, <1>3, <1>4, <1>5 DEF LookedUp

-----------------------------------------------------------------------------
(* drb_queue: the steps.                                                   *)

LEMMA FunctionIsSeq ==
  ASSUME NEW S, NEW n \in Nat, NEW f \in [1 .. n -> S]
  PROVE  f \in Seq(S) /\ Len(f) = n
OBVIOUS

LEMMA DrbInitInv == DrbInit => DrbInv
<1> SUFFICES ASSUME DrbInit PROVE DrbInv
  OBVIOUS
<1> USE DrbAssumption
<1>1. NoRow \in DrbRow
  BY DEF NoRow, DrbRow
<1>2. PICK d \in Seq(Nat \cup {Nil}) :
        /\ d = [r \in 1 .. FirstRows |-> IF r = 1 THEN 1 ELSE Nil]
        /\ Len(d) = FirstRows
  <2>1. PICK S : S = Nat \cup {Nil}
    OBVIOUS
  <2>2. PICK d : d = [r \in 1 .. FirstRows |-> IF r = 1 THEN 1 ELSE Nil]
    OBVIOUS
  <2>3. d \in [1 .. FirstRows -> S]
    BY <2>1, <2>2
  <2>4. d \in Seq(S) /\ Len(d) = FirstRows
    BY <2>3, FunctionIsSeq
  <2> QED
    BY <2>1, <2>2, <2>4
<1>3. directories = << d >> /\ InUse = d
  BY <1>2 DEF DrbInit, InUse
<1>4. DrbTypeOK
  <2>1. directories \in Seq(Seq(Nat \cup {Nil})) /\ directory \in 1 .. Len(directories)
    BY <1>3 DEF DrbInit
  <2>2. rows \in Seq(DrbRow)
    BY <1>1 DEF DrbInit
  <2> QED
    BY <2>1, <2>2 DEF DrbInit, DrbTypeOK, DrbThreads, DrbPlaces
<1>5. Lengths
  BY <1>2, <1>3 DEF DrbInit, Lengths
<1>6. Entries
  BY <1>2, <1>3 DEF DrbInit, Entries
<1>7. OwnPlace
  <2> SUFFICES ASSUME NEW i \in Nat, RowEntry(Row(i)) # Nil
               PROVE  rows[RowEntry(Row(i))][Place(i)] \in {i, Nil}
    BY DEF OwnPlace
  <2>1. Row(i) \in Nat /\ Place(i) \in 0 .. RowMsgs - 1
    BY RowFacts
  <2>2. RowEntry(Row(i)) = 1
    BY <1>2, <1>3, <2>1 DEF RowEntry
  <2> QED
    BY <2>1, <2>2 DEF DrbInit, NoRow
<1>8. OneHolder /\ \A t \in DrbThreads : LookedUp(t)
  BY DEF DrbInit, OneHolder, LookedUp
<1> QED
  BY <1>4, <1>5, <1>6, <1>7, <1>8 DEF DrbInv

\* A step of thread t that leaves the stored variables alone and does not end or begin the
\* replacement of the directory.
LEMMA MoveInv ==
  ASSUME DrbInv, NEW t \in DrbThreads, NEW to \in DrbPlaces, to # "swap", dpc[t] # "swap",
         dpc' = [dpc EXCEPT ![t] = to], UNCHANGED StoredVars,
         \A u \in DrbThreads : u # t => at'[u] = at[u] /\ row'[u] = row[u],
         DrbTypeOK', OneHolder', LookedUp(t)'
  PROVE  DrbInv'
<1>1. dpc'[t] = to /\ \A u \in DrbThreads : u # t => dpc'[u] = dpc[u]
  BY DEF DrbInv, DrbTypeOK
<1>2. Entries' /\ OwnPlace' /\ InUse' = InUse /\ \A i \in Nat : RowEntry(i)' = RowEntry(i)
  BY StoredKept
<1>3. UNCHANGED << row_count, directories, directory >>
  BY DEF StoredVars
<1>4. Lengths'
  <2>1. \A u \in DrbThreads : dpc'[u] = "swap" <=> dpc[u] = "swap"
    BY <1>1
  <2> QED
    BY <1>2, <1>3, <2>1 DEF DrbInv, Lengths
<1>5. ASSUME NEW u \in DrbThreads, u # t PROVE LookedUp(u)'
  <2>1. row_count' \in Nat /\ row_count' >= row_count
    BY <1>3, DirectoryFacts
  <2> QED
    BY <1>1, <1>2, <1>5, <2>1, StillLookedUp
<1> QED
  BY <1>2, <1>4, <1>5 DEF DrbInv

LEMMA ClaimPositionInv ==
  ASSUME DrbInv, NEW a \in Authors, ClaimPosition(a)
  PROVE  DrbInv'
<1>1. /\ UNCHANGED StoredVars /\ UNCHANGED << owner, row, got, write_index >>
      /\ dpc[a] = "idle" /\ dpc' = [dpc EXCEPT ![a] = "test"]
      /\ at' = [at EXCEPT ![a] = next_post] /\ next_post' = next_post + 1
      /\ a \in DrbThreads /\ a # Getter
  BY DrbAssumption DEF ClaimPosition, Goes, StoredVars, DrbThreads
<1>2. dpc'[a] = "test" /\ \A u \in DrbThreads : u # a => dpc'[u] = dpc[u] /\ at'[u] = at[u]
  BY <1>1 DEF DrbInv, DrbTypeOK
<1>3. DrbTypeOK'
  BY <1>1 DEF DrbInv, DrbTypeOK, DrbThreads, DrbPlaces, StoredVars
<1>4. OneHolder'
  BY <1>1, <1>2 DEF DrbInv, OneHolder
<1>5. LookedUp(a)'
  BY <1>2 DEF LookedUp
<1> QED
  BY <1>1, <1>2, <1>3, <1>4, <1>5, MoveInv DEF DrbPlaces

\* The steps of get_msg_page that change nothing but the place of the thread and the owner.
LEMMA PlaceInv ==
  ASSUME DrbInv, NEW t \in DrbThreads, NEW to \in DrbPlaces,
         to \notin {"swap", "store", "written", "read"}, dpc[t] # "swap",
         dpc' = [dpc EXCEPT ![t] = to], UNCHANGED StoredVars,
         UNCHANGED << next_post, write_index, at, row, got >>,
         owner' \in DrbThreads \cup {Nil}, OneHolder',
         to = "entry" => Row(at[t]) < row_count,
         to = "make" => Row(at[t]) <= row_count,
         to = "result" => RowEntry(Row(at[t])) # Nil
  PROVE  DrbInv'
<1>1. DrbTypeOK'
  BY DEF DrbInv, DrbTypeOK, DrbThreads, StoredVars
<1>2. dpc'[t] = to
  BY DEF DrbInv, DrbTypeOK
<1>3. RowEntry(Row(at[t]))' = RowEntry(Row(at[t]))
  BY StoredKept DEF RowEntry
<1>4. LookedUp(t)'
  BY <1>2, <1>3 DEF LookedUp, StoredVars
<1> QED
  BY <1>1, <1>4, MoveInv

LEMMA TestLengthInv ==
  ASSUME DrbInv, NEW t \in DrbThreads, TestLength(t)
  PROVE  DrbInv'
<1>1. PICK to \in {"lock", "entry"} :
        /\ dpc[t] = "test" /\ dpc' = [dpc EXCEPT ![t] = to]
        /\ to = "lock" <=> Row(at[t]) >= row_count
  BY DEF TestLength, Goes
<1>2. UNCHANGED StoredVars /\ UNCHANGED << next_post, write_index, at, row, got, owner >>
  BY DEF TestLength, StoredVars
<1>3. to = "entry" => Row(at[t]) < row_count
  BY <1>1, ThreadFacts, DirectoryFacts
<1>4. owner' \in DrbThreads \cup {Nil}
  BY <1>2 DEF DrbInv, DrbTypeOK
<1>5. OneHolder'
  BY <1>1, <1>2 DEF DrbInv, DrbTypeOK, OneHolder
<1> QED
  BY <1>1, <1>2, <1>3, <1>4, <1>5, PlaceInv DEF DrbPlaces

LEMMA TestEntryInv ==
  ASSUME DrbInv, NEW t \in DrbThreads, TestEntry(t)
  PROVE  DrbInv'
<1>1. PICK to \in {"lock", "result", "stray"} :
        /\ dpc[t] = "entry" /\ dpc' = [dpc EXCEPT ![t] = to]
        /\ to = "result" => RowEntry(Row(at[t])) # Nil
  BY DEF TestEntry, Uses, Goes
<1>2. UNCHANGED StoredVars /\ UNCHANGED << next_post, write_index, at, row, got, owner >>
  BY DEF TestEntry, StoredVars
<1>3. owner' \in DrbThreads \cup {Nil}
  BY <1>2 DEF DrbInv, DrbTypeOK
<1>4. OneHolder'
  BY <1>1, <1>2 DEF DrbInv, DrbTypeOK, OneHolder
<1> QED
  BY <1>1, <1>2, <1>3, <1>4, PlaceInv DEF DrbPlaces

LEMMA LockInv ==
  ASSUME DrbInv, NEW t \in DrbThreads, Lock(t)
  PROVE  DrbInv'
<1>1. PICK to \in {"count", "make"} :
        /\ dpc[t] = "lock" /\ dpc' = [dpc EXCEPT ![t] = to]
        /\ to = "count" <=> Row(at[t]) >= row_count
  BY DEF Lock, Goes
<1>2. /\ UNCHANGED StoredVars /\ UNCHANGED << next_post, write_index, at, row, got >>
      /\ owner = Nil /\ owner' = t
  BY DEF Lock, StoredVars
<1>3. to = "make" => Row(at[t]) <= row_count
  BY <1>1, ThreadFacts, DirectoryFacts
<1>4. \A u \in DrbThreads : dpc[u] \notin {"count", "swap", "make"}
  BY <1>2, DrbAssumption DEF DrbInv, OneHolder, DrbThreads
<1>5. OneHolder'
  BY <1>1, <1>2, <1>4 DEF DrbInv, DrbTypeOK, OneHolder
<1> QED
  BY <1>1, <1>2, <1>3, <1>5, PlaceInv DEF DrbPlaces

LEMMA ReadEntryInv ==
  ASSUME DrbInv, NEW t \in DrbThreads, ReadEntry(t)
  PROVE  DrbInv'
<1>1. PICK e : e = RowEntry(Row(at[t]))
  OBVIOUS
<1>2. PICK to \in {"stray", IF t = Getter THEN "read" ELSE "store"} :
        dpc[t] = "result" /\ dpc' = [dpc EXCEPT ![t] = to]
  BY DEF ReadEntry, Uses, Goes
<1>3. /\ UNCHANGED StoredVars /\ UNCHANGED << next_post, write_index, at, got, owner >>
      /\ row' = [row EXCEPT ![t] = e]
  BY <1>1 DEF ReadEntry, StoredVars
<1>4. e # Nil /\ e \in Nat
  BY <1>1, <1>2, ThreadFacts, EntryFacts DEF LookedUp
<1>5. to \in DrbPlaces /\ to \notin {"count", "swap", "make", "written", "entry", "result"}
  BY <1>2 DEF DrbPlaces
<1>6. /\ dpc'[t] = to /\ row'[t] = e
      /\ \A u \in DrbThreads : u # t => dpc'[u] = dpc[u] /\ row'[u] = row[u]
  BY <1>2, <1>3 DEF DrbInv, DrbTypeOK
<1>7. DrbTypeOK'
  <2>1. dpc' \in [DrbThreads -> DrbPlaces] /\ row' \in [DrbThreads -> Nat \cup {Nil}]
    BY <1>2, <1>3, <1>4, <1>5 DEF DrbInv, DrbTypeOK
  <2>2. dpc'[Getter] \notin {"store", "written"} /\ \A a \in Authors : dpc'[a] # "read"
    BY <1>2, <1>6, DrbAssumption DEF DrbInv, DrbTypeOK, DrbThreads
  <2> QED
    BY <1>3, <2>1, <2>2 DEF DrbInv, DrbTypeOK, StoredVars
<1>8. OneHolder'
  BY <1>3, <1>5, <1>6 DEF DrbInv, OneHolder
<1>9. LookedUp(t)'
  <2>1. RowEntry(Row(at[t]))' = e
    BY <1>1, <1>3, StoredKept DEF RowEntry
  <2> QED
    BY <1>4, <1>5, <1>6, <2>1 DEF LookedUp
<1> QED
  BY <1>2, <1>3, <1>5, <1>6, <1>7, <1>8, <1>9, MoveInv

LEMMA BeginGetInv ==
  ASSUME DrbInv, NEW pos \in 0 .. Total - 1, BeginGet(pos)
  PROVE  DrbInv'
<1>1. /\ UNCHANGED StoredVars /\ UNCHANGED << next_post, write_index, owner, row, got >>
      /\ dpc[Getter] = "idle" /\ dpc' = [dpc EXCEPT ![Getter] = "test"]
      /\ at' = [at EXCEPT ![Getter] = pos] /\ Getter \in DrbThreads /\ pos \in Nat
  BY DrbAssumption DEF BeginGet, Goes, StoredVars, DrbThreads
<1>2. /\ dpc'[Getter] = "test"
      /\ \A u \in DrbThreads : u # Getter => dpc'[u] = dpc[u] /\ at'[u] = at[u]
  BY <1>1 DEF DrbInv, DrbTypeOK
<1>3. DrbTypeOK'
  BY <1>1 DEF DrbInv, DrbTypeOK, DrbThreads, DrbPlaces, StoredVars
<1>4. OneHolder'
  BY <1>1, <1>2 DEF DrbInv, OneHolder
<1>5. LookedUp(Getter)'
  BY <1>2 DEF LookedUp
<1> QED
  BY <1>1, <1>2, <1>3, <1>4, <1>5, MoveInv DEF DrbPlaces

\* What get returns.
LEMMA EndGetFinds ==
  ASSUME DrbInv, EndGet
  PROVE  /\ got' = [pos |-> at[Getter], msg |-> IF Kept(at[Getter]) THEN at[Getter] ELSE Nil]
         /\ at[Getter] \in Nat
<1>1. dpc[Getter] = "read" /\ Getter \in DrbThreads
  BY DEF EndGet, Goes, DrbThreads
<1>2. PICK i \in Nat : i = at[Getter]
  BY <1>1, ThreadFacts
<1>3. RowEntry(Row(i)) # Nil /\ row[Getter] = RowEntry(Row(i))
  BY <1>1, <1>2, ThreadFacts DEF LookedUp
<1>4. Row(i) < Len(InUse) /\ rows[row[Getter]][Place(i)] \in {i, Nil}
  BY <1>3, RowFacts, EntryFacts DEF DrbInv, OwnPlace
<1>5. rows[row[Getter]][Place(i)] = IF Kept(i) THEN i ELSE Nil
  BY <1>3, <1>4 DEF Kept
<1> QED
  BY <1>2, <1>5 DEF EndGet

LEMMA EndGetInv ==
  ASSUME DrbInv, EndGet
  PROVE  DrbInv'
<1>1. /\ UNCHANGED StoredVars /\ UNCHANGED << next_post, write_index, owner, row, at >>
      /\ dpc[Getter] = "read" /\ dpc' = [dpc EXCEPT ![Getter] = "idle"]
      /\ Getter \in DrbThreads
  BY DEF EndGet, Goes, StoredVars, DrbThreads
<1>2. dpc'[Getter] = "idle" /\ \A u \in DrbThreads : u # Getter => dpc'[u] = dpc[u]
  BY <1>1 DEF DrbInv, DrbTypeOK
<1>3. DrbTypeOK'
  <2>1. got' \in [pos : Nat, msg : Nat \cup {Nil}]
    BY EndGetFinds
  <2> QED
    BY <1>1, <2>1 DEF DrbInv, DrbTypeOK, DrbThreads, DrbPlaces, StoredVars
<1>4. OneHolder'
  BY <1>1, <1>2 DEF DrbInv, OneHolder
<1>5. LookedUp(Getter)'
  BY <1>2 DEF LookedUp
<1> QED
  BY <1>1, <1>3, <1>4, <1>5, MoveInv DEF DrbPlaces

LEMMA CountWrittenInv ==
  ASSUME DrbInv, NEW a \in Authors, CountWritten(a)
  PROVE  DrbInv'
<1>1. /\ UNCHANGED StoredVars /\ UNCHANGED << next_post, owner, at, row, got >>
      /\ dpc[a] = "written" /\ dpc' = [dpc EXCEPT ![a] = "idle"]
      /\ write_index' = write_index + 1 /\ a \in DrbThreads
  BY DEF CountWritten, Goes, StoredVars, DrbThreads
<1>2. dpc'[a] = "idle" /\ \A u \in DrbThreads : u # a => dpc'[u] = dpc[u]
  BY <1>1 DEF DrbInv, DrbTypeOK
<1>3. DrbTypeOK'
  BY <1>1 DEF DrbInv, DrbTypeOK, DrbThreads, DrbPlaces, StoredVars
<1>4. OneHolder'
  BY <1>1, <1>2 DEF DrbInv, OneHolder
<1>5. LookedUp(a)'
  BY <1>2 DEF LookedUp
<1> QED
  BY <1>1, <1>3, <1>4, <1>5, MoveInv DEF DrbPlaces

\* A stored message: its own slot takes it, no other slot changes.
LEMMA StoreRowInv ==
  ASSUME DrbInv, NEW a \in Authors, StoreRow(a)
  PROVE  DrbInv' /\ \A i \in Nat : Kept(i) => Kept(i)'
<1>1. /\ UNCHANGED << next_post, write_index, row_count, directories, directory >>
      /\ UNCHANGED << owner, at, row, got >>
      /\ dpc[a] = "store" /\ dpc' = [dpc EXCEPT ![a] = "written"]
      /\ a \in DrbThreads /\ a # Getter
  BY DrbAssumption DEF StoreRow, Goes, DrbThreads
<1>2. dpc'[a] = "written" /\ \A u \in DrbThreads : u # a => dpc'[u] = dpc[u]
  BY <1>1 DEF DrbInv, DrbTypeOK
<1>3. PICK w \in Nat : w = at[a] /\ Row(w) \in Nat /\ Place(w) \in 0 .. RowMsgs - 1
  BY <1>1, ThreadFacts
<1>4. RowEntry(Row(w)) # Nil /\ row[a] = RowEntry(Row(w))
  BY <1>1, <1>3, ThreadFacts DEF LookedUp
<1>5. PICK e \in 1 .. Len(rows) : e = RowEntry(Row(w)) /\ rows[e] \in DrbRow
  BY <1>3, <1>4, EntryFacts
<1>6. PICK v : v = [rows[e] EXCEPT ![Place(w)] = w]
  OBVIOUS
<1>7. v \in DrbRow /\ v[Place(w)] = w /\
      \A s \in 0 .. RowMsgs - 1 : s # Place(w) => v[s] = rows[e][s]
  BY <1>3, <1>5, <1>6 DEF DrbRow
<1>8. rows' = [rows EXCEPT ![e] = v]
  BY <1>3, <1>4, <1>5, <1>6 DEF StoreRow
<1>9. rows \in Seq(DrbRow)
  BY DEF DrbInv, DrbTypeOK
<1>10. rows' \in Seq(DrbRow) /\ Len(rows') = Len(rows)
  BY <1>5, <1>7, <1>8, <1>9, ElementReplaced
<1>11. rows'[e] = v /\ \A k \in 1 .. Len(rows) : k # e => rows'[k] = rows[k]
  BY <1>8, <1>9
<1>12. InUse' = InUse /\ \A i \in Nat : RowEntry(i)' = RowEntry(i)
  <2>1. InUse' = InUse
    BY <1>1 DEF InUse
  <2> QED
    BY <2>1 DEF RowEntry
<1>13. ASSUME NEW i \in Nat, RowEntry(Row(i)) # Nil
       PROVE  rows'[RowEntry(Row(i))][Place(i)] =
                IF i = w THEN w ELSE rows[RowEntry(Row(i))][Place(i)]
  <2>1. Row(i) \in Nat /\ Place(i) \in 0 .. RowMsgs - 1
    BY RowFacts
  <2>2. RowEntry(Row(i)) \in 1 .. Len(rows)
    BY <1>13, <2>1, EntryFacts
  <2>3. CASE i = w
    BY <1>5, <1>7, <1>11, <2>3
  <2>4. CASE i # w
    <3>1. RowEntry(Row(i)) = e => Place(i) # Place(w)
      BY <1>3, <1>5, <1>13, <2>1, <2>4, OneEntry, SamePlace
    <3> QED
      BY <1>7, <1>11, <2>1, <2>2, <2>4, <3>1
  <2> QED
    BY <2>3, <2>4
<1>14. \A i \in Nat : Row(i) \in Nat /\ RowEntry(Row(i))' = RowEntry(Row(i))
  BY <1>12, RowFacts
<1>15. \A i \in Nat : Kept(i) => Kept(i)'
  <2> SUFFICES ASSUME NEW i \in Nat, Kept(i) PROVE Kept(i)'
    OBVIOUS
  <2>1. RowEntry(Row(i)) # Nil /\ rows'[RowEntry(Row(i))][Place(i)] = i
    BY <1>13 DEF Kept
  <2> QED
    BY <1>12, <1>14, <2>1 DEF Kept
<1>16. OwnPlace'
  BY <1>13, <1>14 DEF DrbInv, OwnPlace
<1>17. DrbTypeOK'
  BY <1>1, <1>10 DEF DrbInv, DrbTypeOK, DrbThreads, DrbPlaces
<1>18. Lengths'
  <2>1. \A u \in DrbThreads : dpc'[u] = "swap" <=> dpc[u] = "swap"
    BY <1>1, <1>2
  <2> QED
    BY <1>1, <1>12, <2>1 DEF DrbInv, Lengths
<1>19. Entries'
  BY <1>1, <1>10, <1>12 DEF DrbInv, Entries
<1>20. OneHolder'
  BY <1>1, <1>2 DEF DrbInv, OneHolder
<1>21. ASSUME NEW u \in DrbThreads PROVE LookedUp(u)'
  <2>1. CASE u # a
    <3>1. row_count' \in Nat /\ row_count' >= row_count
      BY <1>1, DirectoryFacts
    <3> QED
      BY <1>1, <1>2, <1>12, <2>1, <3>1, StillLookedUp
  <2>2. CASE u = a
    <3>1. RowEntry(Row(at[a]))' = RowEntry(Row(w))
      BY <1>1, <1>3, <1>12 DEF RowEntry
    <3> QED
      BY <1>1, <1>2, <1>4, <2>2, <3>1 DEF LookedUp
  <2> QED
    BY <2>1, <2>2
<1> QED
  BY <1>15, <1>16, <1>17, <1>18, <1>19, <1>20, <1>21 DEF DrbInv

\* The longer copy is stored beside the directory in use, which it is a copy of.
LEMMA ExtendCountInv ==
  ASSUME DrbInv, NEW t \in DrbThreads, ExtendCount(t)
  PROVE  DrbInv' /\ \A i \in Nat : Kept(i) => Kept(i)'
<1>1. /\ UNCHANGED << next_post, write_index, directory, rows, owner, at, row, got >>
      /\ dpc[t] = "count" /\ dpc' = [dpc EXCEPT ![t] = "swap"]
  BY DEF ExtendCount, Goes
<1>2. /\ dpc'[t] = "swap" /\ \A u \in DrbThreads : u # t => dpc'[u] = dpc[u]
      /\ \A u \in DrbThreads : u # t => dpc[u] \notin {"count", "swap", "make"}
  BY <1>1, HolderAlone DEF DrbInv, DrbTypeOK
<1>3. PICK n \in Nat \ {0}, x \in Nat :
        n = row_count /\ Len(InUse) = n /\ x = Row(at[t])
  BY <1>1, HolderAlone, ThreadFacts, DirectoryFacts
<1>4. PICK m \in Nat \ {0} : m = Extended(2 * n, x) /\ m >= x /\ m >= n
  <2>1. 2 * n \in Nat \ {0}
    OBVIOUS
  <2> QED
    BY <2>1, ExtendedFits
<1>5. PICK copy : copy = [r \in 1 .. m |-> IF r <= n THEN InUse[r] ELSE Nil]
  OBVIOUS
<1>6. directories' = Append(directories, copy) /\ row_count' = m
  BY <1>3, <1>4, <1>5 DEF ExtendCount
<1>7. copy \in Seq(Nat \cup {Nil}) /\ Len(copy) = m
  <2>1. PICK S : S = Nat \cup {Nil}
    OBVIOUS
  <2>2. \A r \in 1 .. n : InUse[r] \in S
    BY <1>3, <2>1, DirectoryFacts
  <2>3. copy \in [1 .. m -> S]
    BY <1>5, <2>1, <2>2
  <2>4. copy \in Seq(S) /\ Len(copy) = m
    BY <2>3, FunctionIsSeq
  <2> QED
    BY <2>1, <2>4
<1>8. directories \in Seq(Seq(Nat \cup {Nil})) /\ directory \in 1 .. Len(directories)
  BY DEF DrbInv, DrbTypeOK
<1>9. /\ directories' \in Seq(Seq(Nat \cup {Nil})) /\ directory \in 1 .. Len(directories')
      /\ directories'[Len(directories')] = copy
      /\ directories'[directory] = directories[directory]
  <2>1. PICK S : S = Seq(Nat \cup {Nil})
    OBVIOUS
  <2>2. PICK q \in Seq(S) : q = directories
    BY <1>8, <2>1
  <2>3. directories' = Append(q, copy) /\ copy \in S /\ directory \in 1 .. Len(q)
    BY <1>6, <1>7, <1>8, <2>1, <2>2
  <2>4. /\ directories' \in Seq(S) /\ Len(directories') = Len(q) + 1
        /\ directories'[Len(q) + 1] = copy
        /\ directories'[directory] = q[directory]
    BY <2>3
  <2> QED
    BY <2>1, <2>2, <2>3, <2>4
<1>10. InUse' = InUse /\ \A i \in Nat : RowEntry(i)' = RowEntry(i)
  <2>1. InUse' = InUse
    BY <1>1, <1>9 DEF InUse
  <2> QED
    BY <2>1 DEF RowEntry
<1>11. \A i \in Nat : Kept(i) => Kept(i)'
  BY <1>1, <1>10, RowFacts DEF Kept
<1>12. DrbTypeOK'
  <2>1. dpc' \in [DrbThreads -> DrbPlaces]
    BY <1>1 DEF DrbInv, DrbTypeOK, DrbPlaces
  <2>2. dpc'[Getter] \notin {"store", "written"} /\ \A a \in Authors : dpc'[a] # "read"
    BY <1>2 DEF DrbInv, DrbTypeOK, DrbThreads
  <2>3. row_count' \in Nat \ {0} /\ directory' \in 1 .. Len(directories')
    BY <1>1, <1>4, <1>6, <1>9
  <2> QED
    BY <1>1, <1>9, <2>1, <2>2, <2>3 DEF DrbInv, DrbTypeOK
<1>13. Lengths'
  <2>1. 1 <= Len(InUse') /\ Len(InUse') <= row_count'
    BY <1>3, <1>4, <1>6, <1>10
  <2>2. /\ Len(directories'[Len(directories')]) = row_count'
        /\ \A r \in 1 .. row_count' :
             directories'[Len(directories')][r] = IF r <= Len(InUse') THEN InUse'[r] ELSE Nil
    BY <1>3, <1>5, <1>6, <1>7, <1>9, <1>10
  <2> QED
    BY <1>2, <2>1, <2>2 DEF Lengths
<1>14. Entries'
  BY <1>1, <1>10 DEF DrbInv, Entries
<1>15. OwnPlace'
  BY <1>1, <1>10, RowFacts DEF DrbInv, OwnPlace
<1>16. OneHolder'
  BY <1>1, <1>2 DEF DrbInv, OneHolder
<1>17. ASSUME NEW u \in DrbThreads PROVE LookedUp(u)'
  <2>1. CASE u # t
    <3>1. row_count' \in Nat /\ row_count' >= row_count
      BY <1>3, <1>4, <1>6
    <3> QED
      BY <1>1, <1>2, <1>10, <2>1, <3>1, StillLookedUp
  <2>2. CASE u = t
    BY <1>1, <1>2, <1>3, <1>4, <1>6, <2>2 DEF LookedUp
  <2> QED
    BY <2>1, <2>2
<1> QED
  BY <1>11, <1>12, <1>13, <1>14, <1>15, <1>16, <1>17 DEF DrbInv

\* The copy takes the place of the directory it was copied from.
LEMMA SwapDirectoryInv ==
  ASSUME DrbInv, NEW t \in DrbThreads, SwapDirectory(t)
  PROVE  DrbInv' /\ \A i \in Nat : Kept(i) => Kept(i)'
<1>1. /\ UNCHANGED << next_post, write_index, row_count, directories, rows, owner, at, row, got >>
      /\ dpc[t] = "swap" /\ dpc' = [dpc EXCEPT ![t] = "make"]
      /\ directory' = Len(directories)
  BY DEF SwapDirectory, Goes
<1>2. /\ dpc'[t] = "make" /\ \A u \in DrbThreads : u # t => dpc'[u] = dpc[u]
      /\ \A u \in DrbThreads : u # t => dpc[u] \notin {"count", "swap", "make"}
  BY <1>1, HolderAlone DEF DrbInv, DrbTypeOK
<1>3. PICK n \in Nat \ {0}, m \in Nat \ {0} : n = row_count /\ m = Len(InUse) /\ m <= n
  BY DirectoryFacts
<1>4. Len(directories) \in 1 .. Len(directories)
  BY DEF DrbInv, DrbTypeOK
<1>5. PICK d \in Seq(Nat \cup {Nil}) :
        /\ d = directories[Len(directories)] /\ Len(d) = n
        /\ \A r \in 1 .. n : d[r] = IF r <= m THEN InUse[r] ELSE Nil
  <2>1. directories[Len(directories)] \in Seq(Nat \cup {Nil})
    BY <1>4 DEF DrbInv, DrbTypeOK
  <2> QED
    BY <1>1, <1>3, <2>1 DEF DrbInv, Lengths
<1>6. InUse' = d
  BY <1>1, <1>5 DEF InUse
<1>7. \A r \in Nat : RowEntry(r)' = RowEntry(r)
  <2> SUFFICES ASSUME NEW r \in Nat PROVE RowEntry(r)' = RowEntry(r)
    OBVIOUS
  <2>1. RowEntry(r)' = IF r < n THEN d[r + 1] ELSE Nil
    BY <1>5, <1>6 DEF RowEntry
  <2>2. RowEntry(r) = IF r < m THEN InUse[r + 1] ELSE Nil
    BY <1>3 DEF RowEntry
  <2>3. r < n => r + 1 \in 1 .. n /\ (r + 1 <= m <=> r < m)
    BY <1>3
  <2> QED
    BY <1>3, <1>5, <2>1, <2>2, <2>3
<1>8. \A i \in Nat : Row(i) \in Nat /\ RowEntry(Row(i))' = RowEntry(Row(i))
  BY <1>7, RowFacts
<1>9. \A i \in Nat : Kept(i) => Kept(i)'
  <2> SUFFICES ASSUME NEW i \in Nat, Kept(i) PROVE Kept(i)'
    OBVIOUS
  <2>1. Row(i) < Len(d)
    BY <1>3, <1>5, <1>8 DEF Kept
  <2> QED
    BY <1>1, <1>6, <1>8, <2>1 DEF Kept
<1>10. DrbTypeOK'
  <2>1. dpc' \in [DrbThreads -> DrbPlaces]
    BY <1>1 DEF DrbInv, DrbTypeOK, DrbPlaces
  <2>2. dpc'[Getter] \notin {"store", "written"} /\ \A a \in Authors : dpc'[a] # "read"
    BY <1>2 DEF DrbInv, DrbTypeOK, DrbThreads
  <2>3. directory' \in 1 .. Len(directories')
    BY <1>1, <1>4
  <2> QED
    BY <1>1, <2>1, <2>2, <2>3 DEF DrbInv, DrbTypeOK
<1>11. Lengths'
  <2>1. \A u \in DrbThreads : dpc'[u] # "swap"
    BY <1>2
  <2> QED
    BY <1>1, <1>3, <1>5, <1>6, <2>1 DEF Lengths
<1>12. Entries'
  <2>1. \A r \in 1 .. n : d[r] # Nil => r \in 1 .. m /\ d[r] = InUse[r]
    BY <1>3, <1>5
  <2>2. \A r \in 1 .. n : d[r] # Nil => d[r] \in 1 .. Len(rows)
    BY <1>3, <2>1 DEF DrbInv, Entries
  <2>3. \A r, s \in 1 .. n : d[r] = d[s] /\ d[r] # Nil => r = s
    BY <1>3, <2>1 DEF DrbInv, Entries
  <2> QED
    BY <1>1, <1>5, <1>6, <2>2, <2>3 DEF Entries
<1>13. OwnPlace'
  BY <1>1, <1>8 DEF DrbInv, OwnPlace
<1>14. OneHolder'
  BY <1>1, <1>2 DEF DrbInv, OneHolder
<1>15. ASSUME NEW u \in DrbThreads PROVE LookedUp(u)'
  <2>1. CASE u # t
    <3>1. row_count' \in Nat /\ row_count' >= row_count
      BY <1>1, <1>3
    <3> QED
      BY <1>1, <1>2, <1>7, <2>1, <3>1, StillLookedUp
  <2>2. CASE u = t
    <3>1. Row(at[t]) <= row_count
      BY <1>1, ThreadFacts DEF LookedUp
    <3> QED
      BY <1>1, <1>2, <2>2, <3>1 DEF LookedUp
  <2> QED
    BY <2>1, <2>2
<1> QED
  BY <1>9, <1>10, <1>11, <1>12, <1>13, <1>14, <1>15 DEF DrbInv

\* A new page, empty, for an entry that had none.
LEMMA MakeRowInv ==
  ASSUME DrbInv, NEW t \in DrbThreads, MakeRow(t)
  PROVE  DrbInv' /\ \A i \in Nat : Kept(i) => Kept(i)'
<1>1. PICK to \in {"stray", "result"} :
        /\ dpc[t] = "make" /\ dpc' = [dpc EXCEPT ![t] = to]
        /\ to = "stray" <=> Beyond(t)
  BY DEF MakeRow, Uses, Goes
<1>2. /\ UNCHANGED << next_post, write_index, row_count, directory, at, row, got >>
      /\ owner' = Nil
  BY DEF MakeRow
<1>3. PICK x \in Nat, n \in Nat \ {0} :
        x = Row(at[t]) /\ n = Len(InUse) /\ n = row_count
  BY <1>1, HolderAlone, ThreadFacts, DirectoryFacts
<1>4. /\ dpc'[t] = to /\ \A u \in DrbThreads : u # t => dpc'[u] = dpc[u]
      /\ \A u \in DrbThreads : u # t => dpc[u] \notin {"count", "swap", "make"}
  BY <1>1, HolderAlone DEF DrbInv, DrbTypeOK
<1>5. OneHolder'
  BY <1>1, <1>4 DEF OneHolder
<1>6. CASE ~(~Beyond(t) /\ RowEntry(x) = Nil)
  <2>1. UNCHANGED StoredVars
    BY <1>2, <1>3, <1>6 DEF MakeRow, StoredVars
  <2>2. owner' \in DrbThreads \cup {Nil}
    BY <1>2
  <2>3. to = "result" => RowEntry(Row(at[t])) # Nil
    BY <1>1, <1>3, <1>6
  <2>4. DrbInv'
    BY <1>1, <1>2, <1>5, <2>1, <2>2, <2>3, PlaceInv DEF DrbPlaces
  <2> QED
    BY <2>1, <2>4, StoredKept
<1>7. CASE ~Beyond(t) /\ RowEntry(x) = Nil
  <2>1. PICK e \in Nat \ {0} : e = Len(rows) + 1
    BY DEF DrbInv, DrbTypeOK
  <2>2. /\ rows' = Append(rows, NoRow) /\ x < n /\ to = "result"
        /\ directories' = [directories EXCEPT ![directory][x + 1] = e]
    <3>1. x < n /\ to = "result"
      BY <1>1, <1>3, <1>7 DEF Beyond
    <3>2. ~Beyond(t) /\ RowEntry(Row(at[t])) = Nil
      BY <1>3, <1>7
    <3>3. /\ rows' = Append(rows, NoRow)
          /\ directories' = [directories EXCEPT ![directory][Row(at[t]) + 1] = Len(rows) + 1]
      BY <3>2, Zenon DEF MakeRow
    <3> QED
      BY <1>3, <2>1, <3>1, <3>3
  <2>3. /\ directories \in Seq(Seq(Nat \cup {Nil})) /\ directory \in 1 .. Len(directories)
        /\ InUse \in Seq(Nat \cup {Nil}) /\ x + 1 \in 1 .. Len(InUse)
    <3>1. directories \in Seq(Seq(Nat \cup {Nil})) /\ directory \in 1 .. Len(directories)
      BY DEF DrbInv, DrbTypeOK
    <3>2. InUse \in Seq(Nat \cup {Nil})
      BY DirectoryFacts
    <3> QED
      BY <1>3, <2>2, <3>1, <3>2
  <2>4. PICK d : d = [InUse EXCEPT ![x + 1] = e]
    OBVIOUS
  <2>5. /\ d \in Seq(Nat \cup {Nil}) /\ Len(d) = n /\ d[x + 1] = e
        /\ \A r \in 1 .. n : r # x + 1 => d[r] = InUse[r]
    <3>1. PICK S : S = Nat \cup {Nil}
      OBVIOUS
    <3>2. PICK q \in Seq(S) : q = InUse
      BY <2>3, <3>1
    <3>3. x + 1 \in 1 .. Len(q) /\ e \in S
      BY <2>3, <3>1, <3>2
    <3>4. [q EXCEPT ![x + 1] = e] \in Seq(S) /\ Len([q EXCEPT ![x + 1] = e]) = Len(q)
      BY <3>3, ElementReplaced
    <3>5. /\ [q EXCEPT ![x + 1] = e][x + 1] = e
          /\ \A r \in 1 .. Len(q) : r # x + 1 => [q EXCEPT ![x + 1] = e][r] = q[r]
      BY <3>3
    <3>6. Len(q) = n /\ d = [q EXCEPT ![x + 1] = e]
      BY <1>3, <2>4, <3>2
    <3> QED
      BY <3>1, <3>2, <3>4, <3>5, <3>6
  <2>6. /\ directories' \in Seq(Seq(Nat \cup {Nil})) /\ Len(directories') = Len(directories)
        /\ directories'[directory] = d
    <3>1. PICK S : S = Seq(Nat \cup {Nil})
      OBVIOUS
    <3>2. PICK q \in Seq(S) : q = directories
      BY <2>3, <3>1
    <3>3. directory \in 1 .. Len(q) /\ d \in S
      BY <2>3, <2>5, <3>1, <3>2
    <3>4. PICK c \in 1 .. Len(q) : c = directory
      BY <3>3
    <3>5. directories' = [q EXCEPT ![c] = d]
      BY <2>2, <2>4, <3>2, <3>4 DEF InUse
    <3>6. [q EXCEPT ![c] = d] \in Seq(S) /\ Len([q EXCEPT ![c] = d]) = Len(q)
      BY <3>3, ElementReplaced
    <3>7. [q EXCEPT ![c] = d][c] = d
      BY <3>3
    <3> QED
      BY <3>1, <3>2, <3>4, <3>5, <3>6, <3>7
  <2>7. InUse' = d
    BY <1>2, <2>6 DEF InUse
  <2>8. NoRow \in DrbRow /\ rows \in Seq(DrbRow)
    BY DEF NoRow, DrbRow, DrbInv, DrbTypeOK
  <2>9. /\ rows' \in Seq(DrbRow) /\ Len(rows') = e /\ rows'[e] = NoRow
        /\ \A k \in 1 .. Len(rows) : rows'[k] = rows[k]
    BY <2>1, <2>2, <2>8
  <2>10. \A r \in Nat : /\ RowEntry(r) # Nil => r # x /\ RowEntry(r)' = RowEntry(r)
                        /\ r = x => RowEntry(r)' = e
                        /\ r # x => RowEntry(r)' = RowEntry(r)
    <3> SUFFICES ASSUME NEW r \in Nat
                 PROVE  /\ r = x => RowEntry(r)' = e
                        /\ r # x => RowEntry(r)' = RowEntry(r)
      BY <1>7
    <3>1. RowEntry(r)' = IF r < n THEN d[r + 1] ELSE Nil
      BY <2>5, <2>7 DEF RowEntry
    <3>2. RowEntry(r) = IF r < n THEN InUse[r + 1] ELSE Nil
      BY <1>3 DEF RowEntry
    <3>3. r = x => RowEntry(r)' = e
      BY <2>2, <2>5, <3>1
    <3>4. r # x /\ r < n => r + 1 \in 1 .. n /\ r + 1 # x + 1
      OBVIOUS
    <3> QED
      BY <2>5, <3>1, <3>2, <3>3, <3>4
  <2>11. \A i \in Nat : Row(i) \in Nat /\ Place(i) \in 0 .. RowMsgs - 1
    BY RowFacts
  <2>12. \A i \in Nat : Kept(i) => Kept(i)'
    <3> SUFFICES ASSUME NEW i \in Nat, Kept(i) PROVE Kept(i)'
      OBVIOUS
    <3>1. Row(i) \in Nat /\ RowEntry(Row(i)) # Nil /\ Row(i) < n
      BY <1>3, <2>11 DEF Kept
    <3>2. RowEntry(Row(i))' = RowEntry(Row(i)) /\ RowEntry(Row(i)) \in 1 .. Len(rows)
      BY <2>10, <3>1, EntryFacts
    <3> QED
      BY <2>5, <2>7, <2>9, <3>1, <3>2 DEF Kept
  <2>13. DrbTypeOK'
    <3>1. dpc' \in [DrbThreads -> DrbPlaces]
      BY <1>1 DEF DrbInv, DrbTypeOK, DrbPlaces
    <3>2. dpc'[Getter] \notin {"store", "written"} /\ \A a \in Authors : dpc'[a] # "read"
      BY <1>1, <1>4 DEF DrbInv, DrbTypeOK, DrbThreads
    <3>3. directory' \in 1 .. Len(directories')
      BY <1>2, <2>3, <2>6
    <3> QED
      BY <1>2, <2>6, <2>9, <3>1, <3>2, <3>3 DEF DrbInv, DrbTypeOK
  <2>14. Lengths'
    <3>1. \A u \in DrbThreads : dpc'[u] # "swap"
      BY <1>4
    <3> QED
      BY <1>2, <1>3, <2>5, <2>7, <3>1 DEF Lengths
  <2>15. Entries'
    <3>1. \A r \in 1 .. n : InUse[r] # Nil => InUse[r] \in 1 .. Len(rows) /\ InUse[r] # e
      BY <1>3, <2>1, <2>8 DEF DrbInv, Entries
    <3>2. \A r \in 1 .. n : d[r] # Nil => d[r] \in 1 .. e
      <4> SUFFICES ASSUME NEW r \in 1 .. n, d[r] # Nil PROVE d[r] \in 1 .. e
        OBVIOUS
      <4>1. CASE r = x + 1
        BY <2>5, <4>1
      <4>2. CASE r # x + 1
        <5>1. d[r] = InUse[r] /\ d[r] \in 1 .. Len(rows)
          BY <2>5, <3>1, <4>2
        <5>2. Len(rows) <= e /\ Len(rows) \in Nat
          BY <2>1, <2>8
        <5> QED
          BY <5>1, <5>2
      <4> QED
        BY <4>1, <4>2
    <3>3. \A r, s \in 1 .. n : d[r] = d[s] /\ d[r] # Nil => r = s
      <4> SUFFICES ASSUME NEW r \in 1 .. n, NEW s \in 1 .. n, d[r] = d[s], d[r] # Nil
                   PROVE  r = s
        OBVIOUS
      <4>1. CASE r = x + 1 \/ s = x + 1
        BY <2>5, <3>1, <4>1
      <4>2. CASE r # x + 1 /\ s # x + 1
        BY <1>3, <2>5, <4>2 DEF DrbInv, Entries
      <4> QED
        BY <4>1, <4>2
    <3> QED
      BY <2>5, <2>7, <2>9, <3>2, <3>3 DEF Entries
  <2>16. OwnPlace'
    <3> SUFFICES ASSUME NEW i \in Nat, RowEntry(Row(i))' # Nil
                 PROVE  rows'[RowEntry(Row(i))'][Place(i)] \in {i, Nil}
      BY DEF OwnPlace
    <3>1. CASE Row(i) = x
      BY <2>9, <2>10, <2>11, <3>1 DEF NoRow
    <3>2. CASE Row(i) # x
      <4>1. RowEntry(Row(i))' = RowEntry(Row(i))
        BY <2>10, <2>11, <3>2
      <4>2. RowEntry(Row(i)) # Nil /\ RowEntry(Row(i)) \in 1 .. Len(rows)
        BY <2>11, <4>1, EntryFacts
      <4> QED
        BY <2>9, <4>1, <4>2 DEF DrbInv, OwnPlace
    <3> QED
      BY <3>1, <3>2
  <2>17. ASSUME NEW u \in DrbThreads PROVE LookedUp(u)'
    <3>1. CASE u # t
      <4>1. row_count' \in Nat /\ row_count' >= row_count
        BY <1>2, <1>3
      <4> QED
        BY <1>2, <1>4, <2>10, <3>1, <4>1, StillLookedUp
    <3>2. CASE u = t
      <4>1. RowEntry(Row(at[t]))' = RowEntry(x)'
        BY <1>2, <1>3 DEF RowEntry
      <4>2. RowEntry(x)' # Nil
        BY <2>10, DrbAssumption
      <4> QED
        BY <1>4, <2>2, <3>2, <4>1, <4>2 DEF LookedUp
    <3> QED
      BY <3>1, <3>2
  <2> QED
    BY <1>5, <2>12, <2>13, <2>14, <2>15, <2>16, <2>17 DEF DrbInv
<1> QED
  BY <1>6, <1>7

-----------------------------------------------------------------------------
(* drb_queue: the invariant holds, and what it says.                       *)

LEMMA DrbStep ==
  ASSUME DrbInv, [DrbNext]_drbVars
  PROVE  DrbInv' /\ \A i \in Nat : Kept(i) => Kept(i)'
<1> USE DEF StoredVars
<1>1. ASSUME NEW a \in Authors, ClaimPosition(a)
      PROVE  DrbInv' /\ UNCHANGED StoredVars
  BY <1>1, ClaimPositionInv DEF ClaimPosition
<1>2. ASSUME NEW a \in Authors, CountWritten(a)
      PROVE  DrbInv' /\ UNCHANGED StoredVars
  BY <1>2, CountWrittenInv DEF CountWritten
<1>3. ASSUME NEW t \in DrbThreads, TestLength(t) \/ TestEntry(t) \/ Lock(t) \/ ReadEntry(t)
      PROVE  DrbInv' /\ UNCHANGED StoredVars
  BY <1>3, TestLengthInv, TestEntryInv, LockInv, ReadEntryInv
     DEF TestLength, TestEntry, Lock, ReadEntry
<1>4. ASSUME (\E pos \in 0 .. Total - 1 : BeginGet(pos)) \/ EndGet
      PROVE  DrbInv' /\ UNCHANGED StoredVars
  BY <1>4, BeginGetInv, EndGetInv DEF BeginGet, EndGet
<1>5. ASSUME UNCHANGED drbVars
      PROVE  DrbInv' /\ UNCHANGED StoredVars
  <2>1. UNCHANGED StoredVars
    BY <1>5 DEF drbVars
  <2>2. Entries' /\ OwnPlace'
    BY <2>1, StoredKept
  <2>3. DrbTypeOK' /\ OneHolder' /\ Lengths'
    BY <1>5 DEF DrbInv, DrbTypeOK, OneHolder, Lengths, InUse, drbVars
  <2>4. \A t \in DrbThreads : LookedUp(t)'
    BY <1>5 DEF DrbInv, LookedUp, InUse, RowEntry, drbVars
  <2> QED
    BY <2>1, <2>2, <2>3, <2>4 DEF DrbInv
<1>6. DrbInv' /\ UNCHANGED StoredVars => DrbInv' /\ \A i \in Nat : Kept(i) => Kept(i)'
  BY StoredKept
<1>7. ASSUME NEW t \in DrbThreads, ExtendCount(t) \/ SwapDirectory(t) \/ MakeRow(t)
      PROVE  DrbInv' /\ \A i \in Nat : Kept(i) => Kept(i)'
  BY <1>7, ExtendCountInv, SwapDirectoryInv, MakeRowInv
<1> HIDE DEF StoredVars
<1> QED
  BY <1>1, <1>2, <1>3, <1>4, <1>5, <1>6, <1>7, StoreRowInv DEF DrbNext

LEMMA DrbInvariant == DrbSpec => []DrbInv
<1>1. DrbInv /\ [DrbNext]_drbVars => DrbInv'
  BY DrbStep
<1> QED
  BY <1>1, DrbInitInv, PTL DEF DrbSpec

(* Types of the queue (mqueue.h:194-358): every length, entry, page and    *)
(* index is what it should be, and the getter never comes to store.        *)
THEOREM DrbTypeCorrect == DrbSpec => []DrbTypeOK
<1>1. DrbInv => DrbTypeOK
  BY DEF DrbInv
<1> QED
  BY <1>1, DrbInvariant, PTL

(* The two ways past the end of the directory are the only ones            *)
(* (mqueue.h:314-338): the entry read outside the mutex while another      *)
(* thread has stored the new length and not yet the new directory, and the *)
(* page right behind the extended directory.  Any number of threads that   *)
(* push, of messages, any size of pages and of the first directory.        *)
THEOREM StrayWaysCorrect == DrbSpec => StrayWays
<1>1. ASSUME DrbInv, [DrbNext]_drbVars, NEW t \in DrbThreads,
             dpc[t] # "stray", dpc'[t] = "stray"
      PROVE  \/ dpc[t] = "entry" /\ \E u \in DrbThreads : dpc[u] = "swap"
             \/ dpc[t] = "make" /\ Row(at[t]) = row_count
  <2>1. dpc \in [DrbThreads -> DrbPlaces]
    BY <1>1 DEF DrbInv, DrbTypeOK
  <2>2. TestEntry(t) \/ MakeRow(t) \/ ReadEntry(t)
    <3>1. CASE DrbNext
      <4>1. ASSUME NEW u \in DrbThreads, NEW from, NEW to, to # "stray", Goes(u, from, to)
            PROVE  FALSE
        BY <1>1, <2>1, <4>1 DEF Goes
      <4>2. ASSUME NEW a \in Authors, ClaimPosition(a) \/ StoreRow(a) \/ CountWritten(a)
            PROVE  FALSE
        BY <4>1, <4>2 DEF ClaimPosition, StoreRow, CountWritten, DrbThreads
      <4>3. ASSUME NEW u \in DrbThreads,
                   TestLength(u) \/ Lock(u) \/ ExtendCount(u) \/ SwapDirectory(u)
            PROVE  FALSE
        BY <4>1, <4>3 DEF TestLength, Lock, ExtendCount, SwapDirectory
      <4>4. ASSUME (\E pos \in 0 .. Total - 1 : BeginGet(pos)) \/ EndGet
            PROVE  FALSE
        BY <4>1, <4>4 DEF BeginGet, EndGet, DrbThreads
      <4>5. ASSUME NEW u \in DrbThreads, TestEntry(u) \/ MakeRow(u) \/ ReadEntry(u)
            PROVE  u = t
        BY <1>1, <2>1, <4>5 DEF TestEntry, MakeRow, ReadEntry, Uses, Goes
      <4> QED
        BY <3>1, <4>2, <4>3, <4>4, <4>5 DEF DrbNext
    <3>2. CASE UNCHANGED drbVars
      BY <1>1, <3>2 DEF drbVars
    <3> QED
      BY <1>1, <3>1, <3>2
  <2>3. /\ dpc[t] \in {"entry", "make", "result"} /\ Beyond(t)
    BY <1>1, <2>1, <2>2 DEF TestEntry, MakeRow, ReadEntry, Uses, Goes
  <2>4. Row(at[t]) \in Nat /\ Row(at[t]) >= Len(InUse) /\ LookedUp(t)
    BY <1>1, <2>3, ThreadFacts DEF Beyond
  <2>5. CASE dpc[t] = "entry"
    <3>1. Len(InUse) # row_count
      BY <1>1, <2>4, <2>5, DirectoryFacts DEF LookedUp
    <3> QED
      BY <1>1, <2>5, <3>1 DEF DrbInv, Lengths
  <2>6. CASE dpc[t] = "make"
    <3>1. Len(InUse) = row_count
      BY <1>1, <2>6, HolderAlone
    <3> QED
      BY <1>1, <2>4, <2>6, <3>1, DirectoryFacts DEF LookedUp
  <2>7. CASE dpc[t] = "result"
    BY <1>1, <2>4, <2>7, EntryFacts, DirectoryFacts DEF LookedUp
  <2> QED
    BY <2>3, <2>5, <2>6, <2>7
<1>2. DrbInv /\ [DrbNext]_drbVars
        => [\A t \in DrbThreads :
              dpc[t] # "stray" /\ dpc'[t] = "stray" =>
                \/ dpc[t] = "entry" /\ \E u \in DrbThreads : dpc[u] = "swap"
                \/ dpc[t] = "make" /\ Row(at[t]) = row_count]_drbVars
  BY <1>1
<1> QED
  BY <1>2, DrbInvariant, PTL DEF DrbSpec, StrayWays

(* A stored message is never removed (mqueue.h:192): no copy of the        *)
(* directory loses an entry, no page is made where one is, and no push     *)
(* writes to the slot of another position.  Any number of threads.         *)
THEOREM NeverRemovedCorrect == DrbSpec => NeverRemoved
<1>1. DrbInv /\ [DrbNext]_drbVars
        => [\A i \in 0 .. Total - 1 : Kept(i) => Kept(i)']_drbVars
  BY DrbStep
<1> QED
  BY <1>1, DrbInvariant, PTL DEF DrbSpec, NeverRemoved

(* A get returns the message of its position or none, by what is stored    *)
(* when it reads the slot, whichever directory it found the page through   *)
(* (mqueue.h:270-286).  Any number of threads.                             *)
THEOREM GetFindsCorrect == DrbSpec => GetFinds
<1>1. ASSUME DrbInv, [DrbNext]_drbVars, got' # got
      PROVE  got'.msg = IF Kept(got'.pos) THEN got'.pos ELSE Nil
  <2>1. EndGet
    BY <1>1 DEF DrbNext, drbVars, ClaimPosition, StoreRow, CountWritten, TestLength,
                TestEntry, Lock, ExtendCount, SwapDirectory, MakeRow, ReadEntry, BeginGet
  <2> QED
    BY <1>1, <2>1, EndGetFinds
<1>2. DrbInv /\ [DrbNext]_drbVars
        => [got' # got =>
              got'.msg = IF Kept(got'.pos) THEN got'.pos ELSE Nil]_drbVars
  BY <1>1
<1> QED
  BY <1>2, DrbInvariant, PTL DEF DrbSpec, GetFinds
=============================================================================
