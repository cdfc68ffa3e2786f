--------------------------- MODULE HdDriverProofs ---------------------------
(***************************************************************************)
(* Proofs about the disk driver.                                           *)
(*                                                                         *)
(* The functions of hd.c keep the queue sound and drop requests from its   *)
(* head only; one lemma for each says so.  An interrupt may come between   *)
(* the steps of the process, so that the invariant (IInv) beside the       *)
(* properties says what each place of the process may rely on (Places-     *)
(* Hold): from its command to the end of do_hd_request the drive is busy,  *)
(* because a handler that leaves the kernel up has sent a command; where   *)
(* current_request is followed there is one; a walk stands somewhere.      *)
(***************************************************************************)
EXTENDS HdDriver, SequenceTheorems, TLAPS

Modes == {"up", "lost", "crossed", "halted"}

(* The head of a queue may have all its errors, nothing behind it has any. *)
Weak(q) ==
  /\ q \in Seq(Request)
  /\ \A i \in 1 .. Len(q) : i > 1 => q[i].nr_errors = 0

Sound(q) ==
  /\ q \in Seq(Request)
  /\ \A i \in 1 .. Len(q) : /\ q[i].nr_errors < MAX_ERRORS
                            /\ i > 1 => q[i].nr_errors = 0

Drivers == [queue : Seq(Request), flight : BOOLEAN, mode : Modes, warned : BOOLEAN]

PlacesHold ==
  mode = "up" =>
    /\ at \in {"read", "walk", "check", "command", "data", "end", "free"} => queue # <<>>
    /\ at \in {"data", "end", "free", "write"} => flight
    /\ at = "walk" => behind >= 1

IInv == TypeOK /\ ErrorsAtHead /\ SomebodyServes /\ IdleDrive /\ PlacesHold

-----------------------------------------------------------------------------
(* The queue. *)

LEMMA SoundIsWeak ==
  ASSUME NEW q, Sound(q)
  PROVE  Weak(q)
BY DEF Sound, Weak

LEMMA EmptySound == Sound(<<>>) /\ Weak(<<>>)
BY DEF Sound, Weak

(* Without its first request a queue is sound. *)
LEMMA TailSound ==
  ASSUME NEW q, Weak(q), q # <<>>
  PROVE  Sound(Tail(q)) /\ Len(Tail(q)) = Len(q) - 1
<1>1. q \in Seq(Request) /\ Len(q) > 0
  BY DEF Weak
<1>2. Tail(q) \in Seq(Request) /\ Len(Tail(q)) = Len(q) - 1
  BY <1>1
<1>3. ASSUME NEW i \in 1 .. Len(Tail(q))
      PROVE  Tail(q)[i] = q[i + 1] /\ i + 1 \in 1 .. Len(q) /\ i + 1 > 1
  BY <1>1, <1>2
<1>4. MAX_ERRORS > 0
  BY HdAssumption
<1> QED
  BY <1>2, <1>3, <1>4 DEF Sound, Weak

(* The first request replaced. *)
LEMMA SetHead ==
  ASSUME NEW q, Weak(q), q # <<>>, NEW r \in Request
  PROVE  LET n == [q EXCEPT ![1] = r]
         IN /\ Weak(n) /\ n # <<>> /\ Len(n) = Len(q) /\ n[1] = r
            /\ \A i \in 1 .. Len(q) : i > 1 => n[i] = q[i]
            /\ r.nr_errors < MAX_ERRORS => Sound(n)
<1> DEFINE n == [q EXCEPT ![1] = r]
<1>1. q \in Seq(Request) /\ Len(q) \in Nat /\ Len(q) > 0 /\ 1 \in 1 .. Len(q)
  BY DEF Weak
<1>2. n \in Seq(Request) /\ Len(n) = Len(q)
  BY <1>1, ExceptSeq
<1>3. n[1] = r /\ \A i \in 1 .. Len(q) : i > 1 => n[i] = q[i]
  BY <1>1, ExceptSeq
<1>4. n # <<>>
  BY <1>1, <1>2
<1> HIDE DEF n
<1>5. Weak(n)
  BY <1>2, <1>3 DEF Weak
<1>6. r.nr_errors < MAX_ERRORS => Sound(n)
  <2> SUFFICES ASSUME r.nr_errors < MAX_ERRORS, NEW i \in 1 .. Len(n)
               PROVE  n[i].nr_errors < MAX_ERRORS /\ (i > 1 => n[i].nr_errors = 0)
    BY <1>2 DEF Sound
  <2>1. i = 1 \/ i > 1
    OBVIOUS
  <2> QED
    BY <1>2, <1>3, <1>5, <2>1, HdAssumption DEF Weak
<1> QED
  BY <1>2, <1>3, <1>4, <1>5, <1>6 DEF n

(* What InsertAt does to a sequence. *)
Inserted(n, S, q, k, r) ==
  /\ n \in Seq(S)
  /\ Len(n) = Len(q) + 1
  /\ \A i \in 1 .. Len(q) + 1 :
       n[i] = IF i < k THEN q[i] ELSE IF i = k THEN r ELSE q[i - 1]

LEMMA InsertElements ==
  ASSUME NEW S, NEW q \in Seq(S), NEW r \in S, NEW k \in 1 .. Len(q) + 1
  PROVE  Inserted(InsertAt(q, k, r), S, q, k, r)
<1> DEFINE front == SubSeq(q, 1, k - 1)
           back  == SubSeq(q, k, Len(q))
           fr    == front \o <<r>>
<1>1. Len(q) \in Nat /\ k \in Nat /\ k >= 1 /\ k <= Len(q) + 1
  OBVIOUS
<1>2. /\ front \in Seq(S) /\ Len(front) = k - 1
      /\ \A i \in 1 .. k - 1 : front[i] = q[i]
  BY <1>1
<1>3. /\ back \in Seq(S) /\ Len(back) = Len(q) + 1 - k
      /\ \A i \in 1 .. Len(q) + 1 - k : back[i] = q[k + i - 1]
  BY <1>1
<1>4. InsertAt(q, k, r) = fr \o back
  BY DEF InsertAt
<1> HIDE DEF front, back
<1>5. <<r>> \in Seq(S) /\ Len(<<r>>) = 1 /\ <<r>>[1] = r
  OBVIOUS
<1>6. fr \in Seq(S) /\ Len(fr) = k
  BY <1>1, <1>2, <1>5
<1>7. (\A i \in 1 .. k - 1 : fr[i] = q[i]) /\ fr[k] = r
  BY <1>1, <1>2, <1>5, <1>6
<1> HIDE DEF fr
<1>8. fr \o back \in Seq(S) /\ Len(fr \o back) = Len(q) + 1
  <2>1. fr \o back \in Seq(S) /\ Len(fr \o back) = Len(fr) + Len(back)
    BY <1>3, <1>6, ConcatProperties
  <2> QED
    BY <1>1, <1>3, <1>6, <2>1
<1>9. ASSUME NEW i \in 1 .. Len(q) + 1
      PROVE  (fr \o back)[i] = IF i < k THEN q[i] ELSE IF i = k THEN r ELSE q[i - 1]
  <2>1. (fr \o back)[i] = IF i <= k THEN fr[i] ELSE back[i - k]
    BY <1>1, <1>3, <1>6, <1>8
  <2>2. CASE i <= k
    BY <2>1, <2>2, <1>1, <1>7
  <2>3. CASE i > k
    <3>1. i - k \in 1 .. Len(q) + 1 - k
      BY <1>1, <2>3
    <3>2. back[i - k] = q[k + (i - k) - 1] /\ k + (i - k) - 1 = i - 1
      BY <1>1, <1>3, <3>1
    <3> QED
      BY <2>1, <2>3, <3>2
  <2>4. i <= k \/ i > k
    BY <1>1
  <2> QED
    BY <2>2, <2>3, <2>4, Zenon
<1> QED
  BY <1>4, <1>8, <1>9 DEF Inserted

(* A request without errors can go anywhere behind the first one. *)
LEMMA InsertKeeps ==
  ASSUME NEW q, Weak(q), q # <<>>,
         NEW r \in Request, r.nr_errors = 0,
         NEW k \in 2 .. Len(q) + 1
  PROVE  LET n == InsertAt(q, k, r)
         IN Weak(n) /\ n # <<>> /\ (Sound(q) => Sound(n))
<1> DEFINE n == InsertAt(q, k, r)
<1>1. q \in Seq(Request) /\ Len(q) \in Nat /\ Len(q) > 0 /\ k \in 1 .. Len(q) + 1
  BY DEF Weak
<1>2. /\ n \in Seq(Request) /\ Len(n) = Len(q) + 1
      /\ \A i \in 1 .. Len(q) + 1 :
           n[i] = IF i < k THEN q[i] ELSE IF i = k THEN r ELSE q[i - 1]
  <2>1. q \in Seq(Request) /\ r \in Request /\ k \in 1 .. Len(q) + 1
    BY <1>1
  <2>2. Inserted(InsertAt(q, k, r), Request, q, k, r)
    BY <2>1, InsertElements
  <2> QED
    BY <2>2 DEF Inserted
<1> HIDE DEF n
<1>3. ASSUME NEW i \in 1 .. Len(n)
      PROVE  /\ i > 1 => n[i].nr_errors = 0
             /\ Sound(q) => n[i].nr_errors < MAX_ERRORS
  <2>1. n[i] = IF i < k THEN q[i] ELSE IF i = k THEN r ELSE q[i - 1]
    BY <1>2
  <2>2. i < k => i \in 1 .. Len(q)
    BY <1>1
  <2>3. i > k => i - 1 \in 1 .. Len(q) /\ i - 1 > 1
    BY <1>1, <1>2
  <2> QED
    BY <2>1, <2>2, <2>3, HdAssumption DEF Sound, Weak
<1>4. Weak(n) /\ n # <<>> /\ (Sound(q) => Sound(n))
  BY <1>1, <1>2, <1>3 DEF Sound, Weak
<1> QED
  BY <1>4 DEF n

-----------------------------------------------------------------------------
(* The queue as the cache sees it: do_hd_request drops requests from its   *)
(* head and does nothing else to it.                                       *)

Drops(old, new) ==
  \E k \in 0 .. Len(old) :
    /\ Len(new) = Len(old) - k
    /\ \A i \in 1 .. Len(new) : Kind(new[i]) = Kind(old[i + k])

LEMMA DropsNothing ==
  ASSUME NEW q, Weak(q)
  PROVE  Drops(q, q)
<1>1. 0 \in 0 .. Len(q) /\ Len(q) = Len(q) - 0 /\ \A i \in 1 .. Len(q) : i + 0 = i
  BY DEF Weak
<1> QED
  BY <1>1 DEF Drops

LEMMA DropsAll ==
  ASSUME NEW q, Weak(q)
  PROVE  Drops(q, <<>>)
<1>1. Len(q) \in 0 .. Len(q) /\ Len(<<>>) = Len(q) - Len(q)
  BY DEF Weak
<1> QED
  BY <1>1 DEF Drops

LEMMA DropsHead ==
  ASSUME NEW q, Weak(q), q # <<>>
  PROVE  Drops(q, Tail(q))
<1>1. q \in Seq(Request) /\ Len(q) > 0 /\ Len(Tail(q)) = Len(q) - 1
  BY DEF Weak
<1>2. 1 \in 0 .. Len(q) /\ \A i \in 1 .. Len(Tail(q)) : Tail(q)[i] = q[i + 1]
  BY <1>1
<1> QED
  BY <1>1, <1>2 DEF Drops

(* A mark on the first request leaves the line as it is. *)
LEMMA DropsNotMarking ==
  ASSUME NEW q, Weak(q), q # <<>>,
         NEW r \in Request, Kind(r) = Kind(q[1])
  PROVE  Drops(q, [q EXCEPT ![1] = r])
<1> DEFINE n == [q EXCEPT ![1] = r]
<1>1. /\ Len(n) = Len(q) /\ n[1] = r
      /\ \A i \in 1 .. Len(q) : i > 1 => n[i] = q[i]
  BY SetHead
<1> HIDE DEF n
<1>2. 0 \in 0 .. Len(q) /\ Len(n) = Len(q) - 0
  BY <1>1 DEF Weak
<1>3. ASSUME NEW i \in 1 .. Len(n)
      PROVE  Kind(n[i]) = Kind(q[i + 0])
  <2>1. i + 0 = i /\ (i = 1 \/ i > 1)
    OBVIOUS
  <2> QED
    BY <1>1, <2>1
<1>4. Drops(q, n)
  BY <1>2, <1>3 DEF Drops
<1> QED
  BY <1>4 DEF n

LEMMA DropsTwice ==
  ASSUME NEW a, NEW b, NEW c, Weak(a), Weak(b), Weak(c),
         Drops(a, b), Drops(b, c)
  PROVE  Drops(a, c)
<1>1. Len(a) \in Nat /\ Len(b) \in Nat /\ Len(c) \in Nat
  BY DEF Weak
<1>2. PICK k \in 0 .. Len(a) :
        /\ Len(b) = Len(a) - k
        /\ \A i \in 1 .. Len(b) : Kind(b[i]) = Kind(a[i + k])
  BY DEF Drops
<1>3. PICK l \in 0 .. Len(b) :
        /\ Len(c) = Len(b) - l
        /\ \A i \in 1 .. Len(c) : Kind(c[i]) = Kind(b[i + l])
  BY DEF Drops
<1>4. l + k \in 0 .. Len(a) /\ Len(c) = Len(a) - (l + k)
  BY <1>1, <1>2, <1>3
<1>5. ASSUME NEW i \in 1 .. Len(c)
      PROVE  Kind(c[i]) = Kind(a[i + (l + k)])
  <2>1. i + l \in 1 .. Len(b) /\ (i + l) + k = i + (l + k)
    BY <1>1, <1>2, <1>3
  <2> QED
    BY <1>2, <1>3, <2>1
<1> QED
  BY <1>4, <1>5 DEF Drops

-----------------------------------------------------------------------------
(* The functions of hd.c.  Each leaves a queue whose requests are those of *)
(* the old one without some of the first.                                  *)

Keeps(d, e) ==
  /\ e \in Drivers /\ Weak(e.queue)
  /\ Drops(d.queue, e.queue)
  /\ e.flight = d.flight /\ e.mode = d.mode

LEMMA KeepsTwice ==
  ASSUME NEW d, NEW e, NEW f, Weak(d.queue), Keeps(d, e), Keeps(e, f)
  PROVE  Keeps(d, f)
BY DropsTwice DEF Keeps

(* The first request as a function has marked it. *)
LEMMA MarkKeeps ==
  ASSUME NEW d \in Drivers, Weak(d.queue), d.queue # <<>>,
         NEW e \in Drivers, NEW r \in Request, Kind(r) = Kind(d.queue[1]),
         e.queue = [d.queue EXCEPT ![1] = r],
         e.flight = d.flight, e.mode = d.mode
  PROVE  /\ Keeps(d, e) /\ e.queue # <<>>
         /\ r.nr_errors < MAX_ERRORS => Sound(e.queue)
<1>1. /\ Weak(e.queue) /\ e.queue # <<>>
      /\ r.nr_errors < MAX_ERRORS => Sound(e.queue)
  BY SetHead
<1>2. Drops(d.queue, e.queue)
  BY DropsNotMarking
<1> QED
  BY <1>1, <1>2 DEF Keeps

LEMMA HeadOf ==
  ASSUME NEW d \in Drivers, Weak(d.queue), d.queue # <<>>
  PROVE  /\ d.queue \in Seq(Request) /\ 1 \in 1 .. Len(d.queue)
         /\ d.queue[1] \in Request /\ Head(d.queue) = d.queue[1]
BY DEF Weak

(* unlock_mem_buffer. *)
LEMMA UnlockKeeps ==
  ASSUME NEW d \in Drivers, Weak(d.queue), d.queue # <<>>
  PROVE  Keeps(d, Unlock(d)) /\ Unlock(d).queue # <<>>
<1> DEFINE h == d.queue[1]
           r == [h EXCEPT !.locked = FALSE]
<1>1. d.queue \in Seq(Request) /\ 1 \in 1 .. Len(d.queue) /\ h \in Request
  BY HeadOf
<1>2. r \in Request /\ Kind(r) = Kind(h)
  BY <1>1 DEF Request, Kind
<1>3. [d.queue EXCEPT ![1].locked = FALSE] = [d.queue EXCEPT ![1] = r]
  BY <1>1
<1>4. h.locked \in BOOLEAN
  BY <1>1 DEF Request
<1> HIDE DEF r
<1>5. [d.queue EXCEPT ![1] = r] \in Seq(Request)
  BY <1>2, SetHead DEF Weak
<1>6. (d.warned \/ ~h.locked) \in BOOLEAN
  BY <1>4 DEF Drivers
<1>7. /\ Unlock(d) \in Drivers
      /\ Unlock(d).queue = [d.queue EXCEPT ![1] = r]
      /\ Unlock(d).flight = d.flight /\ Unlock(d).mode = d.mode
  BY <1>3, <1>5, <1>6 DEF Unlock, Drivers
<1> QED
  BY <1>2, <1>7, MarkKeeps

(* The rest of end_request. *)
LEMMA FreeKeeps ==
  ASSUME NEW d \in Drivers, Weak(d.queue), d.queue # <<>>
  PROVE  Keeps(d, Free(d)) /\ Sound(Free(d).queue)
<1>1. Sound(Tail(d.queue)) /\ Weak(Tail(d.queue)) /\ Drops(d.queue, Tail(d.queue))
  BY TailSound, SoundIsWeak, DropsHead
<1>2. /\ Free(d) \in Drivers /\ Free(d).queue = Tail(d.queue)
      /\ Free(d).flight = d.flight /\ Free(d).mode = d.mode
  BY <1>1 DEF Free, Drivers, Sound
<1> QED
  BY <1>1, <1>2 DEF Keeps

LEMMA EndRequestKeeps ==
  ASSUME NEW d \in Drivers, Weak(d.queue), d.queue # <<>>
  PROVE  Keeps(d, EndRequest(d)) /\ Sound(EndRequest(d).queue)
<1> DEFINE u == Unlock(d)
<1>1. Keeps(d, u) /\ u.queue # <<>> /\ u \in Drivers /\ Weak(u.queue)
  BY UnlockKeeps DEF Keeps
<1>2. EndRequest(d) = Free(u)
  BY DEF EndRequest
<1> HIDE DEF u
<1>3. Keeps(u, Free(u)) /\ Sound(Free(u).queue)
  BY <1>1, FreeKeeps
<1> QED
  BY <1>1, <1>2, <1>3, KeepsTwice

(* One more error for a request that may have one more. *)
LEMMA CountedKeeps ==
  ASSUME NEW d \in Drivers, Weak(d.queue), d.queue # <<>>,
         d.queue[1].nr_errors < MAX_ERRORS
  PROVE  /\ Keeps(d, Counted(d)) /\ Counted(d).queue # <<>>
         /\ ~TooMany(d) => Sound(Counted(d).queue)
<1> DEFINE h == d.queue[1]
           r == [h EXCEPT !.nr_errors = @ + 1]
<1>1. d.queue \in Seq(Request) /\ 1 \in 1 .. Len(d.queue) /\ h \in Request
  BY HeadOf
<1>2. /\ r \in Request /\ Kind(r) = Kind(h)
      /\ ~TooMany(d) => r.nr_errors < MAX_ERRORS
  BY <1>1, HdAssumption DEF Request, Kind, TooMany
<1>3. [d.queue EXCEPT ![1].nr_errors = @ + 1] = [d.queue EXCEPT ![1] = r]
  BY <1>1
<1> HIDE DEF r
<1>4. [d.queue EXCEPT ![1] = r] \in Seq(Request)
  BY <1>2, SetHead DEF Weak
<1>5. /\ Counted(d) \in Drivers
      /\ Counted(d).queue = [d.queue EXCEPT ![1] = r]
      /\ Counted(d).flight = d.flight /\ Counted(d).mode = d.mode
  BY <1>3, <1>4 DEF Counted, Drivers
<1> QED
  BY <1>2, <1>5, MarkKeeps

LEMMA FailedRwKeeps ==
  ASSUME NEW d \in Drivers, Weak(d.queue), d.queue # <<>>
  PROVE  Keeps(d, FailedRw(d)) /\ Sound(FailedRw(d).queue)
<1>1. CASE TooMany(d)
  BY <1>1, EndRequestKeeps DEF FailedRw
<1>2. CASE ~TooMany(d)
  <2>1. d.queue[1].nr_errors < MAX_ERRORS
    BY <1>2, HeadOf, HdAssumption DEF TooMany, Request
  <2> QED
    BY <1>2, <2>1, CountedKeeps DEF FailedRw
<1> QED
  BY <1>1, <1>2

(* What do_hd_request leaves: the kernel up, with a request at the head,   *)
(* or a queue that is not followed.                                        *)
Leaves(d, e) ==
  /\ e \in Drivers /\ Sound(e.queue) /\ Weak(e.queue)
  /\ Drops(d.queue, e.queue)
  /\ e.mode = "up" => e.queue # <<>>

LEMMA LeavesTwice ==
  ASSUME NEW d, NEW e, NEW f, Weak(d.queue), Weak(e.queue),
         Drops(d.queue, e.queue), Leaves(e, f)
  PROVE  Leaves(d, f)
BY DropsTwice DEF Leaves

LEMMA CheckLeaves ==
  ASSUME NEW d \in Drivers, Sound(d.queue)
  PROVE  Leaves(d, Check(d)) /\ Check(d).flight = d.flight
<1>1. Weak(d.queue) /\ Drops(d.queue, d.queue) /\ Drops(d.queue, <<>>)
  BY SoundIsWeak, DropsNothing, DropsAll
<1>2. CASE d.queue # <<>> /\ Head(d.queue).first
  <2>1. Check(d) = d
    BY <1>2 DEF Check
  <2> QED
    BY <1>1, <1>2, <2>1 DEF Leaves
<1>3. CASE ~(d.queue # <<>> /\ Head(d.queue).first) /\ Len(d.queue) > 1
  <2>1. d.queue # <<>> /\ Check(d) = EndRequest(d)
    BY <1>3 DEF Check
  <2>2. Keeps(d, EndRequest(d)) /\ Sound(EndRequest(d).queue)
    BY <1>1, <2>1, EndRequestKeeps
  <2>3. EndRequest(d).queue = Tail([d.queue EXCEPT ![1].locked = FALSE])
    BY DEF EndRequest, Free, Unlock, Drivers
  <2>4. EndRequest(d).queue # <<>>
    <3> DEFINE u == Unlock(d)
    <3>1. u.queue = [d.queue EXCEPT ![1].locked = FALSE] /\ EndRequest(d).queue = Tail(u.queue)
      BY DEF EndRequest, Free, Unlock, Drivers
    <3>2. Weak(u.queue) /\ u.queue # <<>>
      BY <1>1, <2>1, UnlockKeeps DEF Keeps
    <3>3. Len(u.queue) = Len(d.queue)
      BY <1>1, <2>1, <3>1, <3>2 DEF Weak
    <3> HIDE DEF u
    <3>4. Len(Tail(u.queue)) = Len(d.queue) - 1
      BY <3>2, <3>3, TailSound
    <3> QED
      BY <1>1, <1>3, <3>1, <3>4 DEF Weak
  <2> QED
    BY <2>1, <2>2, <2>4 DEF Leaves, Keeps
<1>4. CASE ~(d.queue # <<>> /\ Head(d.queue).first) /\ ~(Len(d.queue) > 1)
  <2>1. Check(d) = [d EXCEPT !.queue = <<>>, !.mode = "lost"]
    BY <1>4 DEF Check
  <2>2. /\ Check(d) \in Drivers /\ Check(d).queue = <<>>
        /\ Check(d).mode = "lost" /\ Check(d).flight = d.flight
    <3>1. <<>> \in Seq(Request) /\ "lost" \in Modes
      BY DEF Modes
    <3> QED
      BY <2>1, <3>1 DEF Drivers
  <2> QED
    BY <1>1, <2>2, EmptySound DEF Leaves
<1> QED
  BY <1>2, <1>3, <1>4

(* After hd_cmd_out the drive has a command, or nothing goes on at all. *)
LEMMA CommandLeaves ==
  ASSUME NEW d \in Drivers, Sound(d.queue), d.mode = "up" => d.queue # <<>>,
         NEW ready \in BOOLEAN
  PROVE  LET e == Command(d, ready)
         IN /\ Leaves(d, e) /\ (e.mode = "up" => e.flight)
<1>1. Weak(d.queue) /\ Drops(d.queue, d.queue)
  BY SoundIsWeak, DropsNothing
<1> DEFINE e == Command(d, ready)
<1>2. /\ e \in Drivers /\ e.queue = d.queue
      /\ e.mode = "up" => d.mode = "up" /\ e.flight
  <2>1. CASE d.mode # "up"
    BY <2>1 DEF Command, Drivers
  <2>2. CASE d.mode = "up" /\ ready
    <3>1. e = [d EXCEPT !.flight = TRUE]
      BY <2>2 DEF Command
    <3> QED
      BY <2>2, <3>1 DEF Drivers
  <2>3. CASE d.mode = "up" /\ ~ready
    <3>1. e = [d EXCEPT !.mode = "halted"]
      BY <2>3 DEF Command
    <3> QED
      BY <3>1 DEF Drivers, Modes
  <2> QED
    BY <2>1, <2>2, <2>3
<1> HIDE DEF e
<1>3. Leaves(d, e) /\ (e.mode = "up" => e.flight)
  BY <1>1, <1>2 DEF Leaves
<1> QED
  BY <1>3 DEF e

LEMMA WrittenLeaves ==
  ASSUME NEW d \in Drivers, Sound(d.queue)
  PROVE  /\ Leaves(d, Written(d)) /\ Written(d).flight = d.flight
         /\ Written(d).mode = "up" => d.mode = "up"
<1>1. Weak(d.queue) /\ Drops(d.queue, d.queue)
  BY SoundIsWeak, DropsNothing
<1>2. CASE d.queue = <<>>
  <2>1. Written(d) = [d EXCEPT !.mode = "lost"]
    BY <1>2 DEF Written
  <2>2. /\ Written(d) \in Drivers /\ Written(d).queue = d.queue
        /\ Written(d).mode = "lost" /\ Written(d).flight = d.flight
    BY <2>1 DEF Drivers, Modes
  <2> QED
    BY <1>1, <2>2 DEF Leaves
<1>3. CASE d.queue # <<>>
  <2>1. Written(d) = d
    BY <1>3 DEF Written
  <2> QED
    BY <1>1, <1>3, <2>1 DEF Leaves
<1> QED
  BY <1>2, <1>3

(* do_hd_request as the interrupt handler runs it. *)
LEMMA ServeLeaves ==
  ASSUME NEW d \in Drivers, Sound(d.queue), NEW ready \in BOOLEAN, NEW drq \in BOOLEAN
  PROVE  LET e == Serve(d, ready, drq)
         IN Leaves(d, e) /\ (e.mode = "up" => e.flight)
<1> DEFINE checked == Check(d)
           sent    == Command(checked, ready)
           failed  == IF drq THEN sent ELSE FailedRw(sent)
<1>1. Weak(d.queue) /\ Leaves(d, checked)
  BY SoundIsWeak, CheckLeaves
<1>2. Leaves(checked, sent) /\ (sent.mode = "up" => sent.flight)
  BY <1>1, CommandLeaves DEF Leaves
<1>3. Serve(d, ready, drq) = IF ~Writing(sent) THEN sent ELSE Written(failed)
  BY DEF Serve
<1> HIDE DEF checked
<1>4. Leaves(d, sent)
  BY <1>1, <1>2, LeavesTwice DEF Leaves
<1> HIDE DEF sent
<1>5. CASE ~Writing(sent)
  <2>1. Serve(d, ready, drq) = sent
    BY <1>3, <1>5
  <2> QED
    BY <1>2, <1>4, <2>1
<1>6. CASE Writing(sent)
  <2>1. sent.mode = "up" /\ sent.flight /\ sent.queue # <<>> /\ sent \in Drivers
    BY <1>2, <1>4, <1>6 DEF Writing, Leaves
  <2>2. Keeps(sent, sent) /\ Sound(sent.queue) /\ Weak(sent.queue)
    BY <1>4, <2>1, DropsNothing DEF Leaves, Keeps
  <2>3. Keeps(sent, failed) /\ Sound(failed.queue)
    BY <2>1, <2>2, FailedRwKeeps
  <2> HIDE DEF failed
  <2>4. Leaves(failed, Written(failed)) /\ Written(failed).flight = failed.flight
    BY <2>3, WrittenLeaves DEF Keeps
  <2>5. Leaves(sent, Written(failed))
    BY <2>2, <2>3, <2>4, LeavesTwice DEF Keeps
  <2>6. Leaves(d, Written(failed))
    BY <1>1, <1>4, <2>2, <2>5, LeavesTwice DEF Leaves
  <2>7. Serve(d, ready, drq) = Written(failed)
    BY <1>3, <1>6
  <2> QED
    BY <2>1, <2>3, <2>4, <2>6, <2>7 DEF Keeps
<1> QED
  BY <1>5, <1>6

-----------------------------------------------------------------------------
(* The steps. *)

(* The driver of a state with the invariant. *)
LEMMA DriverSound ==
  ASSUME IInv
  PROVE  /\ Driver \in Drivers /\ Weak(queue)
         /\ Driver.queue = queue /\ Driver.flight = flight
         /\ Driver.mode = mode /\ Driver.warned = warned
         /\ Sound(queue) \/ Ending
<1>1. Weak(queue) /\ (Sound(queue) \/ Ending)
  BY DEF IInv, TypeOK, ErrorsAtHead, Sound, Weak
<1>2. Driver \in Drivers
  BY DEF IInv, TypeOK, Driver, Drivers, Modes
<1> QED
  BY <1>1, <1>2 DEF Driver

(* The invariant from the values that a step gives to the variables.       *)
LEMMA Becomes ==
  ASSUME NEW d \in Drivers, Become(d), at' \in Places, behind' \in Nat,
         Weak(d.queue),
         Sound(d.queue) \/ (d.mode = "up" /\ at' \in {"end", "free"}),
         d.mode = "up" =>
           /\ at' = "idle" /\ d.queue = <<>> => ~d.flight
           /\ at' \in {"check", "command"} => ~d.flight
           /\ d.queue # <<>> => d.flight \/ at' \in {"check", "command"}
           /\ at' \in {"read", "walk", "check", "command", "data", "end", "free"}
                => d.queue # <<>>
           /\ at' \in {"data", "end", "free", "write"} => d.flight
           /\ at' = "walk" => behind' >= 1
  PROVE  IInv'
<1>1. /\ queue' = d.queue /\ flight' = d.flight /\ mode' = d.mode
      /\ warned' = d.warned /\ ended' \in BOOLEAN
  BY DEF Become
<1>2. TypeOK'
  BY <1>1 DEF TypeOK, Drivers, Modes
<1>3. ErrorsAtHead'
  BY <1>1 DEF ErrorsAtHead, Ending, Sound, Weak
<1>4. SomebodyServes' /\ IdleDrive' /\ PlacesHold'
  BY <1>1 DEF SomebodyServes, IdleDrive, PlacesHold
<1> QED
  BY <1>2, <1>3, <1>4 DEF IInv

(* What a step does that leaves mode and warned alone. *)
LEMMA StepBecomes ==
  ASSUME IInv, Step, UNCHANGED flight, queue' \in Seq(Request)
  PROVE  LET d == [Driver EXCEPT !.queue = queue']
         IN /\ d \in Drivers /\ d.queue = queue' /\ d.flight = flight /\ d.mode = mode
            /\ ~(Len(queue') < Len(queue)) => Become(d)
<1> DEFINE d == [Driver EXCEPT !.queue = queue']
<1>1. Driver \in Drivers /\ mode' = mode /\ warned' = warned /\ ended' = FALSE
  BY DriverSound DEF Step
<1>2. /\ d \in Drivers /\ d.queue = queue' /\ d.flight = flight /\ d.mode = mode
      /\ d.warned = warned
  BY <1>1, DriverSound DEF Drivers
<1> HIDE DEF d
<1>3. ASSUME ~(Len(queue') < Len(queue)) PROVE Become(d)
  <2>0. (Len(queue') < Len(queue)) = FALSE
    BY <1>3
  <2>1. ended' = (Len(queue') < Len(queue))
    BY <1>1, <2>0
  <2> QED
    BY <1>1, <1>2, <2>1 DEF Become
<1> QED
  BY <1>2, <1>3 DEF d

(* What rw_blk puts into a request. *)
LEMMA NewSound ==
  ASSUME NEW r \in Requests
  PROVE  r \in Request /\ r.nr_errors = 0 /\ r.nr_errors < MAX_ERRORS
<1>1. PICK c \in {READ, WRITE}, first \in BOOLEAN : r = New(c, first)
  BY DEF Requests
<1> QED
  BY <1>1, HdAssumption DEF New, Request

LEMMA TestKeeps ==
  ASSUME IInv, Test
  PROVE  IInv'
<1>1. /\ mode = "up" /\ at = "idle" /\ Step /\ flight' = flight /\ behind' = behind
      /\ behind \in Nat
  BY DEF Test, At, IInv, TypeOK
<1>2. Sound(queue)
  BY <1>1, DriverSound DEF Ending
<1> DEFINE d == [Driver EXCEPT !.queue = queue']
<1>3. CASE queue = <<>>
  <2>1. PICK r \in Requests : queue' = <<r>> /\ at' = "check"
    BY <1>3 DEF Test
  <2>2. Sound(queue') /\ queue' \in Seq(Request) /\ queue' # <<>> /\ Len(queue') = 1
    BY <2>1, NewSound, HdAssumption DEF Sound
  <2>3. /\ d \in Drivers /\ d.queue = queue' /\ d.flight = flight /\ d.mode = mode
        /\ Become(d)
    BY <1>1, <1>3, <2>2, StepBecomes
  <2>4. ~flight
    BY <1>1, <1>3 DEF IInv, IdleDrive
  <2> HIDE DEF d
  <2> QED
    BY <1>1, <2>1, <2>2, <2>3, <2>4, Becomes, SoundIsWeak DEF Places
<1>4. CASE queue # <<>>
  <2>1. queue' = queue /\ at' = "read"
    BY <1>4 DEF Test
  <2>2. /\ d \in Drivers /\ d.queue = queue' /\ d.flight = flight /\ d.mode = mode
        /\ Become(d)
    BY <1>1, <1>2, <2>1, StepBecomes DEF Sound
  <2>3. flight
    BY <1>1, <1>4 DEF IInv, SomebodyServes
  <2> HIDE DEF d
  <2> QED
    BY <1>1, <1>2, <1>4, <2>1, <2>2, <2>3, Becomes, SoundIsWeak DEF Places
<1> QED
  BY <1>3, <1>4

LEMMA WalkKeeps ==
  ASSUME IInv, Read \/ Walk
  PROVE  IInv'
<1>1. /\ mode = "up" /\ at \in {"read", "walk"} /\ at' = "walk" /\ Step
      /\ flight' = flight /\ queue' = queue
  BY DEF Read, Walk, At
<1>2. Sound(queue) /\ queue # <<>> /\ flight /\ Len(queue) \in Nat
  BY <1>1, DriverSound DEF Ending, IInv, PlacesHold, SomebodyServes, Sound
<1>3. behind' \in Nat /\ behind' >= 1
  <2>1. behind \in Nat /\ queue \in Seq(Request)
    BY DEF IInv, TypeOK
  <2>2. Len(queue) \in Nat /\ Len(queue) >= 1
    BY <1>2, <2>1
  <2>3. CASE Read
    BY <2>2, <2>3 DEF Read
  <2>4. CASE Walk
    BY <2>1, <2>4 DEF Walk
  <2> QED
    BY <2>3, <2>4
<1> DEFINE d == [Driver EXCEPT !.queue = queue']
<1>4. /\ d \in Drivers /\ d.queue = queue' /\ d.flight = flight /\ d.mode = mode
      /\ Become(d)
  <2>1. queue' \in Seq(Request) /\ ~(Len(queue') < Len(queue))
    BY <1>1, <1>2 DEF Sound
  <2> QED
    BY <1>1, <2>1, StepBecomes
<1> HIDE DEF d
<1> QED
  BY <1>1, <1>2, <1>3, <1>4, Becomes, SoundIsWeak DEF Places

(* Where a request goes that is not lost. *)
LEMMA LinkPlace ==
  ASSUME IInv, Link, queue' # queue
  PROVE  /\ queue # <<>>
         /\ \E r \in Requests, k \in 2 .. Len(queue) + 1 :
              queue' = InsertAt(queue, k, r)
<1>1. mode = "up" /\ at = "walk"
  BY DEF Link, At
<1>2. queue # <<>> /\ behind >= 1 /\ behind \in Nat /\ Len(queue) \in Nat
  BY <1>1 DEF IInv, PlacesHold, TypeOK
<1>3. PICK r \in Requests : /\ behind <= Len(queue)
                            /\ queue' = InsertAt(queue, Len(queue) - behind + 2, r)
  BY DEF Link
<1>4. Len(queue) - behind + 2 \in 2 .. Len(queue) + 1
  BY <1>2, <1>3
<1> QED
  BY <1>2, <1>3, <1>4

LEMMA LinkKeeps ==
  ASSUME IInv, Link
  PROVE  IInv'
<1>1. /\ mode = "up" /\ at = "walk" /\ at' = "idle" /\ behind' = 0 /\ Step
      /\ flight' = flight
  BY DEF Link, At
<1>2. Sound(queue) /\ queue # <<>> /\ flight /\ Weak(queue)
  BY <1>1, DriverSound DEF Ending, IInv, PlacesHold, SomebodyServes, Sound
<1>3. Sound(queue') /\ queue' # <<>> /\ Len(queue') >= Len(queue) /\ Len(queue) \in Nat
      /\ Len(queue') \in Nat
  <2>1. CASE queue' = queue
    BY <1>2, <2>1 DEF Sound
  <2>2. CASE queue' # queue
    <3>1. PICK r \in Requests, k \in 2 .. Len(queue) + 1 : queue' = InsertAt(queue, k, r)
      BY <2>2, LinkPlace
    <3>2. r \in Request /\ r.nr_errors = 0
      BY NewSound
    <3>3. Sound(queue') /\ queue' # <<>>
      BY <1>2, <3>1, <3>2, InsertKeeps
    <3>4. queue \in Seq(Request) /\ k \in 1 .. Len(queue) + 1
      BY <1>2, <3>1 DEF Sound
    <3>5. Len(queue') = Len(queue) + 1
      BY <3>1, <3>2, <3>4, InsertElements DEF Inserted
    <3> QED
      BY <3>3, <3>4, <3>5
  <2> QED
    BY <2>1, <2>2
<1> DEFINE d == [Driver EXCEPT !.queue = queue']
<1>4. /\ d \in Drivers /\ d.queue = queue' /\ d.flight = flight /\ d.mode = mode
      /\ Become(d)
  <2>1. ~(Len(queue') < Len(queue)) /\ queue' \in Seq(Request)
    BY <1>3 DEF Sound
  <2> QED
    BY <1>1, <2>1, StepBecomes
<1> HIDE DEF d
<1> QED
  BY <1>1, <1>2, <1>3, <1>4, Becomes, SoundIsWeak DEF Places

LEMMA CheckRequestKeeps ==
  ASSUME IInv, CheckRequest
  PROVE  IInv' /\ Drops(queue, queue')
<1>1. mode = "up" /\ at = "check" /\ Become(Check(Driver)) /\ at' = "command"
      /\ behind' = behind /\ behind \in Nat
  BY DEF CheckRequest, At, Goto, IInv, TypeOK
<1> DEFINE e == Check(Driver)
<1>2. Leaves(Driver, e) /\ e.flight = flight
  BY <1>1, DriverSound, CheckLeaves DEF Ending
<1>3. ~flight
  BY <1>1 DEF IInv, IdleDrive
<1>4. Drops(queue, queue')
  BY <1>1, <1>2, DriverSound DEF Leaves, Become
<1> HIDE DEF e
<1>5. Become(e)
  BY <1>1 DEF e
<1> QED
  BY <1>1, <1>2, <1>3, <1>4, <1>5, Becomes DEF Leaves, Places

LEMMA SendKeeps ==
  ASSUME IInv, SendCommand
  PROVE  IInv' /\ Drops(queue, queue')
<1>1. PICK ready \in BOOLEAN :
        /\ Become(Command(Driver, ready))
        /\ at' = IF Writing(Command(Driver, ready)) THEN "data" ELSE "idle"
  BY DEF SendCommand, IsHdReady, Goto
<1>2. mode = "up" /\ at = "command" /\ behind' = behind /\ behind \in Nat
  BY DEF SendCommand, At, Goto, IInv, TypeOK
<1>3. queue # <<>> /\ Sound(queue)
  BY <1>2, DriverSound DEF Ending, IInv, PlacesHold
<1> DEFINE e == Command(Driver, ready)
<1>4. Leaves(Driver, e) /\ (e.mode = "up" => e.flight)
  BY <1>3, DriverSound, CommandLeaves
<1>5. Drops(queue, queue')
  BY <1>1, <1>4, DriverSound DEF Leaves, Become
<1>6. at' \in {"data", "idle"} /\ Become(e)
  BY <1>1
<1> HIDE DEF e
<1> QED
  BY <1>2, <1>4, <1>5, <1>6, Becomes DEF Leaves, Places

LEMMA WaitKeeps ==
  ASSUME IInv, WaitForData
  PROVE  IInv' /\ Drops(queue, queue')
<1>1. mode = "up" /\ at = "data" /\ behind' = behind /\ behind \in Nat
  BY DEF WaitForData, At, Goto, IInv, TypeOK
<1>2. queue # <<>> /\ Sound(queue) /\ Weak(queue) /\ flight
  BY <1>1, DriverSound DEF Ending, IInv, PlacesHold
<1>3. CASE Become(Driver) /\ at' = "write"
  <2>1. Drops(queue, queue')
    BY <1>2, <1>3, DriverSound, DropsNothing DEF Become
  <2> QED
    BY <1>1, <1>2, <1>3, <2>1, DriverSound, Becomes DEF Places
<1>4. CASE /\ Become(Counted(Driver))
           /\ at' = IF TooMany(Driver) THEN "end" ELSE "write"
  <2> DEFINE e == Counted(Driver)
  <2>1. queue[1].nr_errors < MAX_ERRORS
    BY <1>2 DEF Sound
  <2>2. /\ Keeps(Driver, e) /\ e.queue # <<>>
        /\ ~TooMany(Driver) => Sound(e.queue)
    BY <1>2, <2>1, DriverSound, CountedKeeps
  <2>3. Drops(queue, queue')
    BY <1>4, <2>2, DriverSound DEF Keeps, Become
  <2>4. /\ at' \in {"end", "write"} /\ (Sound(e.queue) \/ at' = "end")
        /\ Become(e) /\ e.flight /\ e.mode = "up"
    BY <1>1, <1>2, <1>4, <2>2, DriverSound DEF Keeps
  <2> HIDE DEF e
  <2> QED
    BY <1>1, <2>2, <2>3, <2>4, Becomes DEF Keeps, Places
<1> QED
  BY <1>3, <1>4 DEF WaitForData, Goto

LEMMA UnlockRequestKeeps ==
  ASSUME IInv, UnlockRequest
  PROVE  IInv' /\ Drops(queue, queue')
<1>1. /\ mode = "up" /\ at = "end" /\ behind' = behind /\ behind \in Nat
      /\ Become(Unlock(Driver)) /\ at' = "free"
  BY DEF UnlockRequest, At, Goto, IInv, TypeOK
<1>2. queue # <<>> /\ flight
  BY <1>1 DEF IInv, PlacesHold
<1> DEFINE e == Unlock(Driver)
<1>3. Keeps(Driver, e) /\ e.queue # <<>>
  BY <1>2, DriverSound, UnlockKeeps
<1>4. Drops(queue, queue')
  BY <1>1, <1>3, DriverSound DEF Keeps, Become
<1>5. Become(e) /\ e.flight /\ e.mode = "up"
  BY <1>1, <1>2, <1>3, DriverSound DEF Keeps
<1> HIDE DEF e
<1> QED
  BY <1>1, <1>3, <1>4, <1>5, Becomes DEF Keeps, Places

LEMMA FreeRequestKeeps ==
  ASSUME IInv, FreeRequest
  PROVE  IInv' /\ Drops(queue, queue')
<1>1. /\ mode = "up" /\ at = "free" /\ behind' = behind /\ behind \in Nat
      /\ Become(Free(Driver)) /\ at' = "write"
  BY DEF FreeRequest, At, Goto, IInv, TypeOK
<1>2. queue # <<>> /\ flight
  BY <1>1 DEF IInv, PlacesHold
<1> DEFINE e == Free(Driver)
<1>3. Keeps(Driver, e) /\ Sound(e.queue)
  BY <1>2, DriverSound, FreeKeeps
<1>4. Drops(queue, queue')
  BY <1>1, <1>3, DriverSound DEF Keeps, Become
<1>5. Become(e) /\ e.flight /\ e.mode = "up"
  BY <1>1, <1>2, <1>3, DriverSound DEF Keeps
<1> HIDE DEF e
<1> QED
  BY <1>1, <1>3, <1>4, <1>5, Becomes DEF Keeps, Places

LEMMA WriteKeeps ==
  ASSUME IInv, WriteData
  PROVE  IInv' /\ Drops(queue, queue')
<1>1. /\ mode = "up" /\ at = "write" /\ behind' = behind /\ behind \in Nat
      /\ Become(Written(Driver)) /\ at' = "idle"
  BY DEF WriteData, At, Goto, IInv, TypeOK
<1>2. Sound(queue) /\ flight
  BY <1>1, DriverSound DEF Ending, IInv, PlacesHold
<1> DEFINE e == Written(Driver)
<1>3. Leaves(Driver, e) /\ e.flight
  BY <1>2, DriverSound, WrittenLeaves
<1>4. Drops(queue, queue')
  BY <1>1, <1>3, DriverSound DEF Leaves, Become
<1>5. Become(e)
  BY <1>1
<1> HIDE DEF e
<1> QED
  BY <1>1, <1>3, <1>4, <1>5, Becomes DEF Leaves, Places

(* The interrupt finds the process anywhere but at check and command.  If  *)
(* it leaves the kernel up it has sent a command, and the process was not  *)
(* in end_request.                                                         *)
LEMMA IrqKeeps ==
  ASSUME IInv, Irq
  PROVE  IInv' /\ Drops(queue, queue')
<1>1. /\ mode = "up" /\ flight /\ at' = at /\ behind' = behind
      /\ at \in Places /\ behind \in Nat
  BY DEF Irq, IInv, TypeOK
<1>2. at \notin {"check", "command"}
  BY <1>1 DEF IInv, IdleDrive
<1>3. Answered \in Drivers /\ Answered.queue = queue /\ Weak(queue)
  BY DriverSound DEF Answered, Drivers
<1>4. CASE queue = <<>> /\ Become([Answered EXCEPT !.mode = "lost"])
  <2> DEFINE e == [Answered EXCEPT !.mode = "lost"]
  <2>1. e \in Drivers /\ e.queue = queue /\ e.mode = "lost"
    BY <1>3 DEF Drivers, Modes
  <2>2. Sound(e.queue) /\ Weak(e.queue) /\ Drops(queue, e.queue)
    BY <1>3, <1>4, <2>1, EmptySound, DropsNothing
  <2>3. Become(e)
    BY <1>4
  <2> HIDE DEF e
  <2>4. Drops(queue, queue')
    BY <2>2, <2>3 DEF Become
  <2> QED
    BY <1>1, <2>1, <2>2, <2>3, <2>4, Becomes
<1>5. ASSUME queue # <<>>, NEW ready \in BOOLEAN, NEW drq \in BOOLEAN,
             Become(Crossing(Serve(FailedRw(Answered), ready, drq)))
      PROVE  IInv' /\ Drops(queue, queue')
  <2> DEFINE f == FailedRw(Answered)
             s == Serve(f, ready, drq)
             e == Crossing(s)
  <2>1. Keeps(Answered, f) /\ Sound(f.queue)
    BY <1>3, <1>5, FailedRwKeeps
  <2> HIDE DEF f
  <2>2. Leaves(f, s) /\ (s.mode = "up" => s.flight)
    BY <2>1, ServeLeaves DEF Keeps
  <2> HIDE DEF s
  <2>3. Drops(queue, s.queue)
    BY <1>3, <2>1, <2>2, DropsTwice DEF Keeps, Leaves
  <2>4. /\ e \in Drivers /\ e.queue = s.queue /\ e.flight = s.flight
        /\ e.mode = "up" => s.mode = "up" /\ at \notin {"end", "free"}
    <3>1. CASE at \in {"end", "free"} /\ s.mode = "up"
      <4>1. e = [s EXCEPT !.mode = "crossed"]
        BY <3>1 DEF Crossing
      <4> QED
        BY <2>2, <4>1 DEF Leaves, Drivers, Modes
    <3>2. CASE ~(at \in {"end", "free"} /\ s.mode = "up")
      <4>1. e = s
        BY <3>2 DEF Crossing
      <4> QED
        BY <2>2, <3>2, <4>1 DEF Leaves
    <3> QED
      BY <3>1, <3>2
  <2>5. Become(e)
    BY <1>5 DEF s, f
  <2> HIDE DEF e
  <2>6. Drops(queue, queue')
    BY <2>3, <2>4, <2>5 DEF Become
  <2>7. /\ Sound(e.queue) /\ Weak(e.queue)
        /\ e.mode = "up" => e.flight /\ e.queue # <<>>
    BY <2>2, <2>4 DEF Leaves
  <2>8. at = "walk" => behind >= 1
    BY <1>1 DEF IInv, PlacesHold
  <2> QED
    BY <1>1, <1>2, <2>4, <2>5, <2>6, <2>7, <2>8, Becomes
<1> QED
  BY <1>4, <1>5 DEF Irq, IsHdReady

(* What is in the queue is dropped from its head or stays; only Test and   *)
(* Link put anything in.                                                   *)
LEMMA StepKeeps ==
  ASSUME IInv, Next
  PROVE  IInv' /\ (Test \/ Link \/ Drops(queue, queue'))
<1>1. CASE Test
  BY <1>1, TestKeeps
<1>2. CASE Read \/ Walk
  <2>1. queue' = queue
    BY <1>2 DEF Read, Walk
  <2> QED
    BY <1>2, <2>1, WalkKeeps, DropsNothing, DriverSound
<1>3. CASE Link
  BY <1>3, LinkKeeps
<1> QED
  BY <1>1, <1>2, <1>3, CheckRequestKeeps, SendKeeps, WaitKeeps,
     UnlockRequestKeeps, FreeRequestKeeps, WriteKeeps, IrqKeeps DEF Next

-----------------------------------------------------------------------------
(* The refinement. *)

Asked == [cmd : {READ, WRITE}, first : BOOLEAN]

LEMMA KindAsked ==
  ASSUME NEW r \in Request
  PROVE  Kind(r) \in Asked
BY DEF Kind, Asked, Request

(* The line of a queue, element by element. *)
LEMMA LineOf ==
  ASSUME NEW q \in Seq(Request)
  PROVE  /\ Line(q) \in Seq(Asked)
         /\ Len(Line(q)) = Len(q)
         /\ \A i \in 1 .. Len(q) : Line(q)[i] = Kind(q[i])
<1>1. Len(q) \in Nat /\ \A i \in 1 .. Len(q) : Kind(q[i]) \in Asked
  BY KindAsked
<1>2. Line(q) \in [1 .. Len(q) -> Asked]
  BY <1>1 DEF Line
<1>3. Line(q) \in Seq(Asked)
  BY <1>1, <1>2, SeqDef
<1>4. DOMAIN Line(q) = 1 .. Len(q)
  BY DEF Line
<1>5. Len(Line(q)) = Len(q)
  <2>1. Len(Line(q)) \in Nat /\ DOMAIN Line(q) = 1 .. Len(Line(q))
    BY <1>3, LenProperties
  <2> QED
    BY <1>1, <1>4, <2>1
<1> QED
  BY <1>3, <1>5 DEF Line

(* Requests dropped from the head leave the line there. *)
LEMMA DropsLeave ==
  ASSUME NEW q, NEW n, Weak(q), Weak(n), Drops(q, n)
  PROVE  \/ Line(n) = Line(q)
         \/ \E k \in 1 .. Len(Line(q)) :
              Line(n) = SubSeq(Line(q), k + 1, Len(Line(q)))
<1>1. q \in Seq(Request) /\ n \in Seq(Request)
  BY DEF Weak
<1>2. /\ Line(q) \in Seq(Asked) /\ Len(Line(q)) = Len(q)
      /\ \A i \in 1 .. Len(q) : Line(q)[i] = Kind(q[i])
  BY <1>1, LineOf
<1>3. /\ Line(n) \in Seq(Asked) /\ Len(Line(n)) = Len(n)
      /\ \A i \in 1 .. Len(n) : Line(n)[i] = Kind(n[i])
  BY <1>1, LineOf
<1>4. PICK k \in 0 .. Len(q) :
        /\ Len(n) = Len(q) - k
        /\ \A i \in 1 .. Len(n) : Kind(n[i]) = Kind(q[i + k])
  BY DEF Drops
<1>5. Len(q) \in Nat /\ k \in Nat
  BY <1>1
<1> DEFINE s == SubSeq(Line(q), k + 1, Len(q))
<1>6. \A i \in k + 1 .. Len(q) : Line(q)[i] \in Asked
  BY <1>2, <1>5
<1>7. /\ s \in Seq(Asked)
      /\ Len(s) = IF k + 1 <= Len(q) THEN Len(q) - (k + 1) + 1 ELSE 0
      /\ \A i \in 1 .. Len(q) - (k + 1) + 1 : s[i] = Line(q)[(k + 1) + i - 1]
  <2>1. k + 1 \in Int /\ Len(q) \in Int
    BY <1>5
  <2> QED
    BY <1>6, <2>1, SubSeqProperties
<1> HIDE DEF s
<1>8. Len(s) = Len(Line(n))
  BY <1>3, <1>4, <1>5, <1>7
<1>9. ASSUME NEW i \in 1 .. Len(s)
      PROVE  s[i] = Line(n)[i]
  <2>1. i \in 1 .. Len(n) /\ i + k \in 1 .. Len(q) /\ (k + 1) + i - 1 = i + k
    BY <1>3, <1>4, <1>5, <1>8
  <2>2. i \in 1 .. Len(q) - (k + 1) + 1
    BY <1>3, <1>4, <1>5, <1>8
  <2>3. s[i] = Line(q)[i + k]
    BY <1>7, <2>1, <2>2
  <2> QED
    BY <1>2, <1>3, <1>4, <2>1, <2>3
<1>10. s = Line(n)
  BY <1>3, <1>7, <1>8, <1>9, SeqEqual
<1>11. CASE k = 0
  <2>1. \A i \in 1 .. Len(n) : i + k = i
    BY <1>11
  <2>2. Len(Line(n)) = Len(Line(q)) /\ \A i \in 1 .. Len(Line(n)) : Line(n)[i] = Line(q)[i]
    BY <1>2, <1>3, <1>4, <1>5, <1>11, <2>1
  <2> QED
    BY <1>2, <1>3, <2>2, SeqEqual
<1>12. CASE k # 0
  <2>1. k \in 1 .. Len(Line(q))
    BY <1>2, <1>4, <1>5, <1>12
  <2> QED
    BY <1>2, <1>10, <2>1 DEF s
<1> QED
  BY <1>11, <1>12

(* A request put somewhere in the queue is put there in the line. *)
LEMMA LineInserts ==
  ASSUME NEW q \in Seq(Request), NEW r \in Request, NEW k \in 1 .. Len(q) + 1
  PROVE  Line(InsertAt(q, k, r)) = InsertAt(Line(q), k, Kind(r))
<1> DEFINE n == InsertAt(q, k, r)
           s == InsertAt(Line(q), k, Kind(r))
<1>1. /\ n \in Seq(Request) /\ Len(n) = Len(q) + 1
      /\ \A i \in 1 .. Len(q) + 1 :
           n[i] = IF i < k THEN q[i] ELSE IF i = k THEN r ELSE q[i - 1]
  <2>1. q \in Seq(Request) /\ r \in Request /\ k \in 1 .. Len(q) + 1
    OBVIOUS
  <2>2. Inserted(InsertAt(q, k, r), Request, q, k, r)
    BY <2>1, InsertElements
  <2> QED
    BY <2>2 DEF Inserted
<1>2. /\ Line(q) \in Seq(Asked) /\ Len(Line(q)) = Len(q)
      /\ \A i \in 1 .. Len(q) : Line(q)[i] = Kind(q[i])
  BY LineOf
<1>3. /\ s \in Seq(Asked) /\ Len(s) = Len(q) + 1
      /\ \A i \in 1 .. Len(q) + 1 :
           s[i] = IF i < k THEN Line(q)[i] ELSE IF i = k THEN Kind(r) ELSE Line(q)[i - 1]
  <2>1. k \in 1 .. Len(Line(q)) + 1 /\ Kind(r) \in Asked
    BY <1>2, KindAsked
  <2> QED
    BY <1>2, <2>1, InsertElements DEF Inserted
<1> HIDE DEF n, s
<1>4. /\ Line(n) \in Seq(Asked) /\ Len(Line(n)) = Len(n)
      /\ \A i \in 1 .. Len(n) : Line(n)[i] = Kind(n[i])
  BY <1>1, LineOf
<1>5. ASSUME NEW i \in 1 .. Len(Line(n))
      PROVE  Line(n)[i] = s[i]
  <2>1. Len(q) \in Nat /\ i \in 1 .. Len(q) + 1
    BY <1>1, <1>4
  <2>2. Line(n)[i] = Kind(n[i])
    BY <1>1, <1>4, <2>1
  <2>3. CASE i < k
    <3>1. i \in 1 .. Len(q)
      BY <2>1, <2>3
    <3> QED
      BY <1>1, <1>2, <1>3, <2>1, <2>2, <2>3, <3>1
  <2>4. CASE i = k
    BY <1>1, <1>3, <2>1, <2>2, <2>4
  <2>5. CASE i > k
    <3>1. i - 1 \in 1 .. Len(q) /\ ~(i < k) /\ i # k
      BY <2>1, <2>5
    <3> QED
      BY <1>1, <1>2, <1>3, <2>1, <2>2, <3>1
  <2> QED
    BY <2>1, <2>3, <2>4, <2>5
<1>6. Line(n) = s
  BY <1>1, <1>3, <1>4, <1>5, SeqEqual
<1> QED
  BY <1>6 DEF n, s

(* Every step of the driver is one of the line, or leaves it alone.        *)
LEMMA StepImplements ==
  ASSUME IInv, IInv', [Next]_vars
  PROVE  [Promised!Next]_(Line(queue))
<1>1. /\ Weak(queue) /\ Weak(queue') /\ queue \in Seq(Request)
      /\ Line(queue)' = Line(queue')
  BY DEF IInv, TypeOK, ErrorsAtHead, Weak
<1>2. CASE Drops(queue, queue')
  BY <1>1, <1>2, DropsLeave DEF Promised!Next, Promised!Leave
<1>3. CASE queue' = queue
  BY <1>1, <1>3
<1>4. CASE Test /\ queue' # queue
  <2>1. PICK r \in Requests : queue = <<>> /\ queue' = <<r>>
    BY <1>4 DEF Test
  <2>2. r \in Request /\ Kind(r) \in Asked
    BY NewSound, KindAsked
  <2>3. Line(queue) = <<>> /\ Line(queue') = <<Kind(r)>>
    BY <2>1 DEF Line
  <2> QED
    BY <1>1, <2>2, <2>3 DEF Promised!Next, Promised!Add, Asked
<1>5. CASE Link /\ queue' # queue
  <2>1. /\ queue # <<>>
        /\ \E r \in Requests, k \in 2 .. Len(queue) + 1 : queue' = InsertAt(queue, k, r)
    BY <1>5, LinkPlace
  <2>2. PICK r \in Requests, k \in 2 .. Len(queue) + 1 : queue' = InsertAt(queue, k, r)
    BY <2>1
  <2>3. r \in Request /\ Kind(r) \in Asked
    BY NewSound, KindAsked
  <2>4. Len(Line(queue)) = Len(queue) /\ Line(queue) # <<>> /\ k \in 1 .. Len(queue) + 1
    <3>1. Len(queue) \in Nat /\ Len(queue) > 0
      BY <1>1, <2>1
    <3>2. Len(Line(queue)) = Len(queue)
      BY <1>1, LineOf
    <3> QED
      BY <3>1, <3>2, <2>2
  <2>5. Line(queue') = InsertAt(Line(queue), k, Kind(r))
    BY <1>1, <2>2, <2>3, <2>4, LineInserts
  <2>6. Promised!Add(Kind(r))
    BY <1>1, <2>4, <2>5 DEF Promised!Add, InsertAt, Promised!InsertAt
  <2> QED
    BY <2>3, <2>6 DEF Promised!Next, Asked
<1>6. CASE UNCHANGED vars
  BY <1>3, <1>6 DEF vars
<1> QED
  BY <1>2, <1>3, <1>4, <1>5, <1>6, StepKeeps

-----------------------------------------------------------------------------
(* The theorems. *)

(* The invariant of the driver, with the interrupt between any two steps   *)
(* of the process (add_request, do_hd_request, failed_rw, end_request).    *)
THEOREM Invariant == Spec => []IInv
<1>1. Init => IInv
  <2> SUFFICES ASSUME Init PROVE IInv
    OBVIOUS
  <2>1. queue = <<>> /\ queue \in Seq(Request) /\ Len(queue) = 0
    BY DEF Init
  <2>2. TypeOK
    BY <2>1 DEF Init, TypeOK, Places
  <2>3. ErrorsAtHead /\ SomebodyServes /\ IdleDrive /\ PlacesHold
    BY <2>1 DEF Init, ErrorsAtHead, SomebodyServes, IdleDrive, PlacesHold
  <2> QED
    BY <2>2, <2>3 DEF IInv
<1>2. IInv /\ [Next]_vars => IInv'
  <2> SUFFICES ASSUME IInv, [Next]_vars PROVE IInv'
    OBVIOUS
  <2>1. CASE Next
    BY <2>1, StepKeeps
  <2>2. CASE UNCHANGED vars
    BY <2>2 DEF vars, IInv, TypeOK, ErrorsAtHead, Ending, SomebodyServes, IdleDrive, PlacesHold
  <2> QED
    BY <2>1, <2>2
<1> QED
  BY <1>1, <1>2, PTL DEF Spec

(* Every variable has values of its type: nr_errors never goes beyond      *)
(* MAX_ERRORS while the request is in the queue (failed_rw).               *)
THEOREM Typing == Spec => []TypeOK
<1>1. IInv => TypeOK
  BY DEF IInv
<1> QED
  BY <1>1, Invariant, PTL

(* Errors are charged to the current request, which is ended in time, and  *)
(* no request goes before it (failed_rw, end_request, add_request).        *)
THEOREM ErrorsCharged == Spec => []ErrorsAtHead
<1>1. IInv => ErrorsAtHead
  BY DEF IInv
<1> QED
  BY <1>1, Invariant, PTL

(* A request in the queue is never left with nobody to start it, also if   *)
(* the one before it is ended while it is being linked (rw_blk.c:46-65).   *)
THEOREM AlwaysServed == Spec => []SomebodyServes
<1>1. IInv => SomebodyServes
  BY DEF IInv
<1> QED
  BY <1>1, Invariant, PTL

(* The driver implements the line of requests that the buffer cache relies *)
(* on (do_hd_request, end_request, add_request).                           *)
THEOREM Refinement == Spec => ServesInOrder
<1>1. Init => Promised!Init
  BY DEF Init, Promised!Init, Line
<1>2. IInv /\ IInv' /\ [Next]_vars => [Promised!Next]_(Line(queue))
  BY StepImplements
<1> QED
  BY <1>1, <1>2, Invariant, PTL DEF Spec, ServesInOrder, Promised!Spec

=============================================================================
