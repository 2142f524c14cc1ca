----------------------------- MODULE Hcd_proof -----------------------------
(***************************************************************************)
(* Transfers are lost, duplicated and reordered neither by the endpoints   *)
(* nor by the DMA lists: proved for any endpoints, transfers and buffers.  *)
(*                                                                         *)
(* The endpoints.  Each step of the client's two tasks, of the daemon and  *)
(* of a channel leaves Queue(e) as it is (SamePipes), but for the two that *)
(* append to it and take its head.  EpSafe says of each pipe what it holds *)
(* and that it works on it (Good), of each transfer that it is in one      *)
(* place (UrbsAreOnce), and of the tasks what they work on (AllKnow,       *)
(* AllocatedAreClaimed); it holds in any environment.  BooksInv adds the   *)
(* counts, the announcements and the halts, in gentle environments.        *)
(*                                                                         *)
(* The pipe with two buffers.  Line(d) is what it holds: the transfers     *)
(* that are done, those in the buffers in the order of their turns, and    *)
(* those that are pending.  DmaSafe is inductive; a step leaves Line as it *)
(* is (SameLine), appends to it, or takes its head.  Together they keep    *)
(* what UrbQueue promises.                                                 *)
(***************************************************************************)
EXTENDS Hcd, TLAPS, SequenceTheorems

-----------------------------------------------------------------------------
(* Fill, Exec and the other operators keep what a pipe holds *)

EpPipe == [state : {"none", "active", "halted"}, pend : Seq(Urb), buf : Seq(Urb), done : Seq(Urb),
         exec : BOOLEAN, cmd : BOOLEAN, waiter : {"none", "api", "daemon"}, hasUrb : BOOLEAN]

Held(p) == p.done \o p.buf \o p.pend

Sound(p) ==
    /\ p \in EpPipe
    /\ Len(p.buf) <= NumBuffers
    /\ p.exec => p.buf # <<>>
    /\ p.state = "none" => Held(p) = <<>> /\ p.waiter = "none"
    /\ p.hasUrb <=> Held(p) # <<>>

\* It works on what it holds, with all its buffers.
Full(p) ==
    /\ p.buf # <<>> \/ p.pend # <<>> => p.exec
    /\ p.pend # <<>> => Len(p.buf) = NumBuffers

Good(p) == Sound(p) /\ (p.state = "active" => Full(p))

\* A sequence is its first k elements and the others.
LEMMA SplitInOrder ==
    ASSUME NEW S, NEW c \in Seq(S), NEW k \in 0..Len(c)
    PROVE  /\ SubSeq(c, 1, k) \in Seq(S) /\ SubSeq(c, k + 1, Len(c)) \in Seq(S)
           /\ Len(SubSeq(c, 1, k)) = k /\ Len(SubSeq(c, k + 1, Len(c))) = Len(c) - k
           /\ SubSeq(c, 1, k) \o SubSeq(c, k + 1, Len(c)) = c
<1> DEFINE s == SubSeq(c, 1, k)
           t == SubSeq(c, k + 1, Len(c))
<1>1. Len(c) \in Nat /\ k \in Int /\ k + 1 \in Int /\ Len(c) \in Int /\ k <= Len(c) /\ 0 <= k
  OBVIOUS
<1>2. s \in Seq(S) /\ t \in Seq(S)
  <2>1. \A i \in 1..Len(c) : c[i] \in S BY ElementOfSeq
  <2>2. \A i \in 1..k : c[i] \in S BY <1>1, <2>1
  <2>3. \A i \in k + 1..Len(c) : c[i] \in S BY <1>1, <2>1
  <2>4. s \in Seq(S) BY <1>1, <2>2, SubSeqProperties
  <2>5. t \in Seq(S) BY <1>1, <2>3, SubSeqProperties
  <2> QED BY <2>4, <2>5
<1>3. Len(s) = k /\ Len(t) = Len(c) - k
  <2>1. Len(s) = IF 1 <= k THEN k - 1 + 1 ELSE 0
    <3>1. \A i \in 1..k : c[i] \in S BY <1>1, ElementOfSeq
    <3> QED BY <1>1, <3>1, SubSeqProperties
  <2>2. Len(t) = IF k + 1 <= Len(c) THEN Len(c) - (k + 1) + 1 ELSE 0
    <3>1. \A i \in k + 1..Len(c) : c[i] \in S BY <1>1, ElementOfSeq
    <3> QED BY <1>1, <3>1, SubSeqProperties
  <2> QED BY <1>1, <2>1, <2>2
<1>4. s \o t = c
  <2>1. 1 \in 1..Len(c) + 1 /\ k \in 1 - 1..Len(c) /\ Len(c) \in k..Len(c)
    BY <1>1
  <2>2. s \o t = SubSeq(c, 1, Len(c)) BY <2>1, ConcatAdjacentSubSeq
  <2> QED BY <2>2, SubSeqFull
<1> QED BY <1>2, <1>3, <1>4

\* What moves from the front of a line to the end of the line before it keeps its place.
LEMMA MovingKeepsOrder ==
    ASSUME NEW S, NEW a \in Seq(S), NEW b \in Seq(S), NEW s \in Seq(S), NEW t \in Seq(S)
    PROVE  a \o (b \o s) \o t = a \o b \o (s \o t)
<1>1. a \o (b \o s) = (a \o b) \o s BY ConcatAssociative, SMTT(60)
<1>2. a \o b \in Seq(S) OBVIOUS
<1>3. ((a \o b) \o s) \o t = (a \o b) \o (s \o t)
  BY <1>2, ConcatAssociative, SMTT(60)
<1> QED BY <1>1, <1>3

\* The least of two numbers is one of them.
LEMMA LeastIs ==
    ASSUME NEW n \in Nat, NEW b \in Nat, NEW m \in Nat, b <= m, NEW l \in Nat
    PROVE  /\ Least(Least(n, m - b), l) \in 0..l
           /\ Least(Least(n, m - b), l) + b <= m
BY DEF Least

\* The least of all that fits and of all that there is
LEMMA LeastIsAll ==
    ASSUME NEW b \in Nat, NEW m \in Nat, b <= m
    PROVE  Least(m, m - b) = m - b
BY DEF Least

\* The least of one and of another number
LEMMA LeastIsOne ==
    ASSUME NEW b \in Nat, NEW m \in Nat, b < m, NEW l \in Nat, l >= 1
    PROVE  Least(Least(1, m - b), l) = 1
BY DEF Least

\* Filling keeps what the pipe holds, and leaves none pending if there is room.
LEMMA FillKeeps ==
    ASSUME NEW p, Sound(p), p.state # "none", NEW n \in Nat
    PROVE  LET f == Fill(p, n)
               k == Least(Least(n, NumBuffers - Len(p.buf)), Len(p.pend))
           IN  /\ Sound(f) /\ Held(f) = Held(p)
               /\ f.state = p.state /\ f.waiter = p.waiter /\ f.done = p.done
               /\ f.exec = p.exec /\ f.cmd = p.cmd
               /\ k \in Nat /\ Len(f.buf) = Len(p.buf) + k /\ Len(f.pend) = Len(p.pend) - k
<1> DEFINE k == Least(Least(n, NumBuffers - Len(p.buf)), Len(p.pend))
<1>1. /\ p.pend \in Seq(Urb) /\ p.buf \in Seq(Urb) /\ p.done \in Seq(Urb)
      /\ Len(p.pend) \in Nat /\ Len(p.buf) \in Nat /\ NumBuffers \in Nat
      /\ Len(p.buf) <= NumBuffers
  BY NumBuffersIsPos DEF Sound, EpPipe
<1>2. k \in 0..Len(p.pend) /\ k + Len(p.buf) <= NumBuffers BY <1>1, LeastIs
<1> DEFINE s == SubSeq(p.pend, 1, k)
           t == SubSeq(p.pend, k + 1, Len(p.pend))
<1>3. Fill(p, n) = [p EXCEPT !.buf = @ \o s, !.pend = t] BY DEF Fill
<1> HIDE DEF k
<1>4. /\ s \in Seq(Urb) /\ t \in Seq(Urb) /\ Len(s) = k /\ Len(t) = Len(p.pend) - k
      /\ s \o t = p.pend
  BY <1>1, <1>2, SplitInOrder
<1> HIDE DEF s, t
<1>5. p.done \o (p.buf \o s) \o t = p.done \o p.buf \o (s \o t)
  <2>1. PICK a \in Seq(Urb) : a = p.done BY <1>1
  <2>2. PICK b \in Seq(Urb) : b = p.buf BY <1>1
  <2>3. PICK c \in Seq(Urb) : c = s BY <1>4
  <2>4. PICK d \in Seq(Urb) : d = t BY <1>4
  <2>5. a \o (b \o c) \o d = a \o b \o (c \o d)
    BY MovingKeepsOrder, SMTT(60)
  <2> QED BY <2>1, <2>2, <2>3, <2>4, <2>5
<1>6. p.buf \o s \in Seq(Urb) /\ Len(p.buf \o s) = Len(p.buf) + k
  BY <1>1, <1>4, ConcatProperties
<1>7. /\ Fill(p, n) \in EpPipe
      /\ Fill(p, n).buf = p.buf \o s /\ Fill(p, n).pend = t /\ Fill(p, n).done = p.done
      /\ Fill(p, n).exec = p.exec /\ Fill(p, n).state = p.state /\ Fill(p, n).waiter = p.waiter
      /\ Fill(p, n).cmd = p.cmd /\ Fill(p, n).hasUrb = p.hasUrb
  BY <1>3, <1>4, <1>6 DEF Sound, EpPipe
<1>8. Held(Fill(p, n)) = Held(p) BY <1>4, <1>5, <1>7 DEF Held
<1>9. Len(Fill(p, n).buf) <= NumBuffers BY <1>1, <1>2, <1>6, <1>7
<1>10. p.exec => p.buf \o s # <<>>
  <2>1. ASSUME p.exec PROVE Len(p.buf) > 0 BY <1>1, <2>1 DEF Sound
  <2> QED BY <1>1, <1>2, <1>6, <2>1
<1>11. Sound(Fill(p, n)) BY <1>7, <1>8, <1>9, <1>10 DEF Sound
<1>12. k \in Nat BY <1>1, <1>2
<1> QED BY <1>4, <1>6, <1>7, <1>8, <1>11, <1>12 DEF k

\* Executing keeps what the pipe holds.
LEMMA ExecKeeps ==
    ASSUME NEW p, Sound(p), p.state # "none"
    PROVE  LET f == Exec(p)
           IN  /\ Sound(f) /\ Held(f) = Held(p)
               /\ f.state = p.state /\ f.waiter = p.waiter /\ f.done = p.done
               /\ f.buf = p.buf /\ f.pend = p.pend /\ f.cmd = p.cmd
               /\ p.buf # <<>> => f.exec
<1> DEFINE x == p.exec \/ p.buf # <<>>
<1>1. x \in BOOLEAN /\ (x => p.buf # <<>>) /\ (p.buf # <<>> => x)
  BY DEF Sound, EpPipe
<1>2. Exec(p) = [p EXCEPT !.exec = x] BY DEF Exec
<1> HIDE DEF x
<1>3. /\ Exec(p) \in EpPipe
      /\ Exec(p).exec = x /\ Exec(p).hasUrb = p.hasUrb /\ Exec(p).cmd = p.cmd
      /\ Exec(p).buf = p.buf /\ Exec(p).pend = p.pend /\ Exec(p).done = p.done
      /\ Exec(p).state = p.state /\ Exec(p).waiter = p.waiter
  BY <1>1, <1>2 DEF Sound, EpPipe
<1> QED BY <1>1, <1>3 DEF Sound, Held

\* The head of a sequence appended to another is taken from the first.
LEMMA AppendingHead ==
    ASSUME NEW S, NEW a \in Seq(S), NEW b \in Seq(S), NEW c \in Seq(S), b # <<>>
    PROVE  /\ Append(a, Head(b)) \in Seq(S) /\ Append(a, Head(b)) # <<>>
           /\ Tail(b) \in Seq(S) /\ Head(b) \in S
           /\ Len(Tail(b)) = Len(b) - 1
           /\ Append(a, Head(b)) \o Tail(b) \o c = a \o b \o c
<1>1. Head(b) \in S /\ Tail(b) \in Seq(S) /\ Len(Tail(b)) = Len(b) - 1
  BY HeadTailProperties
<1> DEFINE h == <<Head(b)>>
<1>2. h \in Seq(S) /\ Append(a, Head(b)) \in Seq(S) /\ Append(a, Head(b)) = a \o h
  BY <1>1, AppendProperties, AppendIsConcat
<1>3. h \o Tail(b) = b
  <2>1. Len(b) \in Nat /\ Len(b) >= 1 /\ Len(h) = 1 /\ h[1] = b[1]
    BY EmptySeq
  <2>2. Len(h \o Tail(b)) = Len(b) /\ h \o Tail(b) \in Seq(S)
    BY <1>1, <1>2, <2>1, ConcatProperties
  <2>3. \A i \in 1..Len(b) : (h \o Tail(b))[i] = b[i] BY <1>1, <1>2, <2>1
  <2> QED BY <2>2, <2>3, SeqEqual
<1> HIDE DEF h
<1>4. (a \o h) \o Tail(b) = a \o (h \o Tail(b))
  BY <1>1, <1>2, ConcatAssociative, SMTT(60)
<1>5. Append(a, Head(b)) # <<>> BY <1>1
<1> QED BY <1>1, <1>2, <1>3, <1>4, <1>5

\* A pipe holds nothing if none of its three places does.
LEMMA HoldsNothing ==
    ASSUME NEW p, p.pend \in Seq(Urb), p.buf \in Seq(Urb), p.done \in Seq(Urb)
    PROVE  Held(p) = <<>> <=> p.done = <<>> /\ p.buf = <<>> /\ p.pend = <<>>
<1>1. PICK a \in Seq(Urb), b \in Seq(Urb), c \in Seq(Urb) :
         a = p.done /\ b = p.buf /\ c = p.pend
  OBVIOUS
<1>2. a \o b \in Seq(Urb) BY ConcatProperties
<1>3. a \o b \o c = <<>> <=> a \o b = <<>> /\ c = <<>>
  BY <1>2, ConcatEqualIffEmpty
<1>4. a \o b = <<>> <=> a = <<>> /\ b = <<>> BY ConcatEqualIffEmpty
<1> QED BY <1>1, <1>3, <1>4 DEF Held

\* A buffer that is done holds the next transfer to be returned.
LEMMA HeadDoneKeeps ==
    ASSUME NEW p, Sound(p), p.buf # <<>>
    PROVE  LET f == HeadDone(p)
           IN  /\ Sound(f) /\ Held(f) = Held(p) /\ f.state = p.state /\ p.state # "none"
               /\ f.waiter = p.waiter /\ f.cmd = p.cmd /\ f.done # <<>> /\ f.exec = FALSE
               /\ f.pend = p.pend /\ Len(f.buf) = Len(p.buf) - 1
<1>1. /\ p.pend \in Seq(Urb) /\ p.buf \in Seq(Urb) /\ p.done \in Seq(Urb)
      /\ Len(p.buf) <= NumBuffers /\ NumBuffers \in Nat /\ Len(p.buf) \in Nat
  BY NumBuffersIsPos DEF Sound, EpPipe
<1>2. /\ Append(p.done, Head(p.buf)) \in Seq(Urb) /\ Tail(p.buf) \in Seq(Urb)
      /\ Len(Tail(p.buf)) = Len(p.buf) - 1 /\ Append(p.done, Head(p.buf)) # <<>>
      /\ Append(p.done, Head(p.buf)) \o Tail(p.buf) \o p.pend = Held(p)
  <2>1. PICK a \in Seq(Urb), b \in Seq(Urb), c \in Seq(Urb) :
           a = p.done /\ b = p.buf /\ c = p.pend
    BY <1>1
  <2>2. b # <<>> BY <2>1
  <2>3. /\ Append(a, Head(b)) \in Seq(Urb) /\ Tail(b) \in Seq(Urb)
        /\ Len(Tail(b)) = Len(b) - 1 /\ Append(a, Head(b)) # <<>>
        /\ Append(a, Head(b)) \o Tail(b) \o c = a \o b \o c
    BY <2>2, AppendingHead
  <2> QED BY <2>1, <2>3 DEF Held
<1>3. p.state # "none"
  <2>1. Held(p) # <<>> BY <1>1, HoldsNothing
  <2> QED BY <2>1 DEF Sound
<1> DEFINE d == Append(p.done, Head(p.buf))
           t == Tail(p.buf)
<1>4. HeadDone(p) = [p EXCEPT !.done = d, !.buf = t, !.exec = FALSE]
  BY DEF HeadDone
<1>5. d \in Seq(Urb) /\ t \in Seq(Urb) BY <1>2
<1> HIDE DEF d, t
<1>6. /\ HeadDone(p) \in EpPipe
      /\ HeadDone(p).done = d /\ HeadDone(p).buf = t
      /\ HeadDone(p).pend = p.pend /\ HeadDone(p).exec = FALSE
      /\ HeadDone(p).state = p.state /\ HeadDone(p).waiter = p.waiter
      /\ HeadDone(p).cmd = p.cmd /\ HeadDone(p).hasUrb = p.hasUrb
  BY <1>4, <1>5 DEF Sound, EpPipe
<1>7. Held(HeadDone(p)) = Held(p) BY <1>2, <1>6 DEF Held, d, t
<1>8. Len(t) = Len(p.buf) - 1 /\ d # <<>> BY <1>2 DEF d, t
<1>9. Sound(HeadDone(p)) BY <1>1, <1>3, <1>6, <1>7, <1>8 DEF Sound
<1> QED BY <1>3, <1>6, <1>7, <1>8, <1>9

\* What the completion of a buffer makes of a pipe: it goes on with the next one.
LEMMA DoneKeeps ==
    ASSUME NEW p, Good(p), p.exec, p.state = "active"
    PROVE  LET f == Fill(Exec(HeadDone(p)), 1)
           IN  /\ Good(f) /\ Held(f) = Held(p) /\ f.state = "active" /\ f.waiter = p.waiter
               /\ f.done # <<>> /\ f.cmd = p.cmd
<1> DEFINE h == HeadDone(p)
           x == Exec(h)
           f == Fill(x, 1)
           k == Least(Least(1, NumBuffers - Len(x.buf)), Len(x.pend))
<1>1. /\ Sound(h) /\ Held(h) = Held(p) /\ h.state = "active" /\ h.waiter = p.waiter
      /\ h.done # <<>> /\ h.pend = p.pend /\ Len(h.buf) = Len(p.buf) - 1 /\ h.cmd = p.cmd
  BY HeadDoneKeeps DEF Good, Sound
<1> HIDE DEF h
<1>2. /\ Sound(x) /\ Held(x) = Held(h) /\ x.state = h.state /\ x.waiter = h.waiter
      /\ x.done = h.done /\ x.buf = h.buf /\ x.pend = h.pend /\ (h.buf # <<>> => x.exec)
      /\ x.cmd = h.cmd
  BY <1>1, ExecKeeps
<1> HIDE DEF x
<1>3. /\ Sound(f) /\ Held(f) = Held(x) /\ f.state = x.state /\ f.waiter = x.waiter
      /\ f.done = x.done /\ f.exec = x.exec /\ f.cmd = x.cmd
      /\ k \in Nat /\ Len(f.buf) = Len(x.buf) + k /\ Len(f.pend) = Len(x.pend) - k
  BY <1>1, <1>2, FillKeeps, ZenonT(60)
<1> HIDE DEF f
<1>4. /\ Len(f.buf) \in Nat /\ Len(f.pend) \in Nat /\ Len(x.buf) \in Nat /\ Len(x.pend) \in Nat
      /\ Len(p.buf) \in Nat /\ Len(p.pend) \in Nat /\ f.buf \in Seq(Urb) /\ f.pend \in Seq(Urb)
      /\ p.pend \in Seq(Urb) /\ x.buf \in Seq(Urb) /\ NumBuffers \in Nat /\ NumBuffers >= 2
  <2>1. f.buf \in Seq(Urb) /\ f.pend \in Seq(Urb) BY <1>3 DEF Sound, EpPipe
  <2>2. x.buf \in Seq(Urb) /\ x.pend \in Seq(Urb) BY <1>2 DEF Sound, EpPipe
  <2>3. p.buf \in Seq(Urb) /\ p.pend \in Seq(Urb) BY DEF Good, Sound, EpPipe
  <2> QED BY <2>1, <2>2, <2>3, NumBuffersIsPos
<1>5. CASE p.pend = <<>>
  <2>1. Len(x.pend) = 0 BY <1>1, <1>2, <1>5
  <2>2. k = 0 BY <1>3, <1>4, <2>1 DEF Least
  <2>3. Len(f.buf) = Len(x.buf) /\ Len(f.pend) = 0 BY <1>3, <1>4, <2>1, <2>2
  <2>4. f.pend = <<>> /\ (f.buf # <<>> => x.buf # <<>>) BY <1>4, <2>3
  <2> QED BY <1>1, <1>2, <1>3, <2>4 DEF Good, Full, f, x, h
<1>6. CASE p.pend # <<>>
  <2>1. Len(p.buf) = NumBuffers /\ Len(p.pend) >= 1
    BY <1>4, <1>6 DEF Good, Full
  <2>2. Len(x.buf) = NumBuffers - 1 /\ Len(x.pend) >= 1 BY <1>1, <1>2, <2>1
  <2>3. Len(x.buf) < NumBuffers BY <1>4, <2>2
  <2>4. k = 1 BY <1>4, <2>2, <2>3, LeastIsOne, ZenonT(60)
  <2>5. k = 1 /\ Len(f.buf) = NumBuffers BY <1>3, <1>4, <2>2, <2>4
  <2>6. x.buf # <<>> BY <1>4, <2>2
  <2> QED BY <1>1, <1>2, <1>3, <2>5, <2>6 DEF Good, Full, f, x, h
<1> QED BY <1>5, <1>6

\* A buffer that ends with an error, or because the channel is halted, halts the pipe.
LEMMA HaltedKeeps ==
    ASSUME NEW p, Sound(p), p.state # "none", NEW w \in {"none", p.waiter}, NEW c \in BOOLEAN
    PROVE  LET f == [p EXCEPT !.state = "halted", !.waiter = w, !.cmd = c]
           IN  /\ Good(f) /\ Held(f) = Held(p) /\ f.state = "halted" /\ f.done = p.done
               /\ f.waiter = w /\ f.cmd = c
<1> DEFINE f == [p EXCEPT !.state = "halted", !.waiter = w, !.cmd = c]
<1>1. w \in {"none", "api", "daemon"} /\ p \in EpPipe BY DEF Sound, EpPipe
<1>2. /\ f \in EpPipe /\ f.state = "halted" /\ f.buf = p.buf /\ f.pend = p.pend /\ f.done = p.done
      /\ f.exec = p.exec /\ f.waiter = w /\ f.cmd = c /\ f.hasUrb = p.hasUrb
  BY <1>1 DEF EpPipe
<1> HIDE DEF f
<1>3. Good(f) /\ Held(f) = Held(p) BY <1>2 DEF Good, Sound, Held
<1> QED BY <1>2, <1>3 DEF f

\* Who waits, and whether a command lasts, is of no account.
LEMMA CommandKeeps ==
    ASSUME NEW p, Good(p), NEW w \in {"none", "api", "daemon"}, NEW c \in BOOLEAN,
           p.state = "none" => w = "none"
    PROVE  LET f == [p EXCEPT !.waiter = w, !.cmd = c]
           IN  /\ Good(f) /\ Held(f) = Held(p) /\ f.state = p.state /\ f.done = p.done
               /\ f.waiter = w /\ f.cmd = c
<1> DEFINE f == [p EXCEPT !.waiter = w, !.cmd = c]
<1>1. p \in EpPipe BY DEF Good, Sound
<1>2. /\ f \in EpPipe /\ f.state = p.state /\ f.buf = p.buf /\ f.pend = p.pend /\ f.done = p.done
      /\ f.exec = p.exec /\ f.waiter = w /\ f.cmd = c /\ f.hasUrb = p.hasUrb
  BY <1>1 DEF EpPipe
<1> HIDE DEF f
<1>3. Good(f) /\ Held(f) = Held(p) BY <1>2 DEF Good, Sound, Held, Full
<1> QED BY <1>2, <1>3 DEF f

\* A transfer that is accepted is the last one.
LEMMA AcceptedAppends ==
    ASSUME NEW p, Good(p), NEW u \in Urb, NEW submit \in BOOLEAN,
           p.state = IF submit THEN "active" ELSE "halted"
    PROVE  LET f == Accepted(p, u, submit)
           IN  /\ Good(f) /\ Held(f) = Append(Held(p), u) /\ Held(p) \in Seq(Urb)
               /\ f.state = p.state /\ f.waiter = p.waiter /\ f.done = p.done /\ f.cmd = p.cmd
<1> DEFINE q == [p EXCEPT !.pend = Append(@, u), !.hasUrb = TRUE]
<1>1. /\ p.pend \in Seq(Urb) /\ p.buf \in Seq(Urb) /\ p.done \in Seq(Urb) /\ p \in EpPipe
      /\ Len(p.pend) \in Nat /\ Len(p.buf) \in Nat /\ Len(p.buf) <= NumBuffers
      /\ NumBuffers \in Nat /\ NumBuffers >= 2
  BY NumBuffersIsPos DEF Good, Sound, EpPipe
<1> DEFINE s == Append(p.pend, u)
<1>2. s \in Seq(Urb) /\ Len(s) = Len(p.pend) + 1 /\ s # <<>>
  BY <1>1, AppendProperties
<1>3. q = [p EXCEPT !.pend = s, !.hasUrb = TRUE] OBVIOUS
<1>4. Accepted(p, u, submit) = IF submit THEN Exec(Fill(q, 1)) ELSE q
  BY DEF Accepted
<1> HIDE DEF q, s
<1>5. /\ q \in EpPipe
      /\ q.pend = s /\ q.buf = p.buf /\ q.done = p.done /\ q.hasUrb = TRUE
      /\ q.exec = p.exec /\ q.state = p.state /\ q.waiter = p.waiter /\ q.cmd = p.cmd
  BY <1>1, <1>2, <1>3 DEF EpPipe
<1>6. Held(p) \in Seq(Urb) /\ Held(q) = Append(Held(p), u)
  <2>1. PICK a \in Seq(Urb), b \in Seq(Urb), c \in Seq(Urb) :
           a = p.done /\ b = p.buf /\ c = p.pend
    BY <1>1
  <2>2. a \o b \in Seq(Urb) BY ConcatProperties
  <2>3. PICK ab \in Seq(Urb) : ab = a \o b BY <2>2
  <2>4. ab \o c \in Seq(Urb) BY ConcatProperties
  <2>5. Append(ab \o c, u) = (ab \o c) \o <<u>> /\ Append(c, u) = c \o <<u>>
    BY <2>4, AppendIsConcat
  <2>6. <<u>> \in Seq(Urb) OBVIOUS
  <2>7. (ab \o c) \o <<u>> = ab \o (c \o <<u>>) BY <2>6, ConcatAssociative
  <2>8. Held(p) = ab \o c /\ Held(q) = ab \o s /\ s = Append(c, u)
    BY <1>5, <2>1, <2>3 DEF Held, s
  <2> QED BY <2>4, <2>5, <2>7, <2>8
<1>7. Held(q) # <<>> BY <1>6, AppendProperties
<1>8. Sound(q) BY <1>5, <1>7 DEF Good, Sound
<1>9. CASE ~submit
  <2>1. Good(q) BY <1>5, <1>8, <1>9 DEF Good
  <2> QED BY <1>4, <1>5, <1>6, <1>9, <2>1
<1>10. CASE submit
  <2> DEFINE x == Fill(q, 1)
             f == Exec(x)
             k == Least(Least(1, NumBuffers - Len(q.buf)), Len(q.pend))
  <2>1. /\ Sound(x) /\ Held(x) = Held(q) /\ x.state = q.state /\ x.waiter = q.waiter
        /\ x.done = q.done /\ x.exec = q.exec /\ x.cmd = q.cmd
        /\ k \in Nat /\ Len(x.buf) = Len(q.buf) + k /\ Len(x.pend) = Len(q.pend) - k
    BY <1>5, <1>8, <1>10, FillKeeps
  <2> HIDE DEF x
  <2>2. /\ Sound(f) /\ Held(f) = Held(x) /\ f.state = x.state /\ f.waiter = x.waiter
        /\ f.done = x.done /\ f.buf = x.buf /\ f.pend = x.pend /\ f.cmd = x.cmd
        /\ (x.buf # <<>> => f.exec)
    BY <1>5, <1>10, <2>1, ExecKeeps
  <2>3. x.buf \in Seq(Urb) /\ x.pend \in Seq(Urb) BY <2>1 DEF Sound, EpPipe
  <2>4. x.buf # <<>> /\ (x.pend # <<>> => Len(x.buf) = NumBuffers)
    <3>1. CASE p.pend = <<>>
      <4>1. Len(q.pend) = 1 BY <1>2, <1>5, <3>1
      <4>2. CASE Len(q.buf) = NumBuffers
        BY <1>1, <2>1, <2>3, <4>1, <4>2 DEF Least
      <4>3. CASE Len(q.buf) # NumBuffers
        <5>1. k = 1 BY <1>1, <1>5, <4>1, <4>3 DEF Least
        <5>2. Len(x.buf) = Len(q.buf) + 1 /\ Len(x.pend) = 0
          BY <2>1, <4>1, <5>1
        <5> QED BY <1>1, <1>5, <2>3, <5>2
      <4> QED BY <4>2, <4>3
    <3>2. CASE p.pend # <<>>
      <4>1. Len(q.buf) = NumBuffers BY <1>5, <1>10, <3>2 DEF Good, Full
      <4>2. k = 0 BY <1>1, <1>2, <1>5, <4>1 DEF Least
      <4> QED BY <1>1, <2>1, <2>3, <4>1, <4>2
    <3> QED BY <3>1, <3>2
  <2>5. Good(f) BY <2>2, <2>4 DEF Good, Full
  <2> QED BY <1>4, <1>5, <1>6, <1>10, <2>1, <2>2, <2>5 DEF x
<1> QED BY <1>9, <1>10

\* A transfer that is dequeued was the first one.
LEMMA DequeuedTakes ==
    ASSUME NEW p, Good(p), p.done # <<>>
    PROVE  LET f == Dequeued(p)
           IN  /\ Good(f) /\ Held(p) \in Seq(Urb) /\ Held(p) # <<>> /\ Held(f) = Tail(Held(p))
               /\ p.state # "none" /\ f.state = p.state /\ f.waiter = p.waiter /\ f.cmd = p.cmd
               /\ f.done = Tail(p.done) /\ Head(p.done) = Head(Held(p)) /\ Head(p.done) \in Urb
<1>1. /\ p.pend \in Seq(Urb) /\ p.buf \in Seq(Urb) /\ p.done \in Seq(Urb) /\ p \in EpPipe
  BY DEF Good, Sound, EpPipe
<1>2. /\ Held(p) # <<>> /\ Held(p) \in Seq(Urb) /\ Head(p.done) = Head(Held(p))
      /\ Tail(p.done) \in Seq(Urb) /\ Head(p.done) \in Urb
      /\ Tail(p.done) \o p.buf \o p.pend = Tail(Held(p))
  <2>1. PICK a \in Seq(Urb), b \in Seq(Urb), c \in Seq(Urb) :
           a = p.done /\ b = p.buf /\ c = p.pend
    BY <1>1
  <2>2. a # <<>> /\ Head(a) \in Urb /\ Tail(a) \in Seq(Urb)
    BY <2>1, HeadTailProperties
  <2>3. \A x, y \in Seq(Urb) : x # <<>> =>
           /\ x \o y \in Seq(Urb) /\ x \o y # <<>> /\ Head(x \o y) = Head(x)
           /\ Tail(x \o y) = Tail(x) \o y
    <3>1. SUFFICES ASSUME NEW x \in Seq(Urb), NEW y \in Seq(Urb), x # <<>>
                   PROVE  /\ x \o y \in Seq(Urb) /\ x \o y # <<>> /\ Head(x \o y) = Head(x)
                          /\ Tail(x \o y) = Tail(x) \o y
      OBVIOUS
    <3>2. x \o y \in Seq(Urb) /\ x \o y # <<>>
      BY <3>1, ConcatProperties, ConcatEqualIffEmpty
    <3> QED BY <3>1, <3>2
  <2>4. a \o b \in Seq(Urb) /\ a \o b # <<>> /\ Head(a \o b) = Head(a)
        /\ Tail(a \o b) = Tail(a) \o b
    BY <2>2, <2>3
  <2>5. PICK ab \in Seq(Urb) : ab = a \o b BY <2>4
  <2>6. ab \o c \in Seq(Urb) /\ ab \o c # <<>> /\ Head(ab \o c) = Head(ab)
        /\ Tail(ab \o c) = Tail(ab) \o c
    BY <2>3, <2>4, <2>5
  <2>7. Held(p) = ab \o c BY <2>1, <2>5 DEF Held
  <2> QED BY <2>1, <2>2, <2>4, <2>5, <2>6, <2>7
<1> DEFINE t == Tail(p.done)
           x == t \o p.buf \o p.pend # <<>>
           f == Dequeued(p)
<1>3. f = [p EXCEPT !.done = t, !.hasUrb = x] BY <1>1 DEF Dequeued, EpPipe
<1>4. t \in Seq(Urb) /\ x \in BOOLEAN BY <1>2
<1> HIDE DEF t, x, f
<1>5. /\ f \in EpPipe /\ f.done = t /\ f.buf = p.buf /\ f.pend = p.pend /\ f.hasUrb = x
      /\ f.exec = p.exec /\ f.state = p.state /\ f.waiter = p.waiter /\ f.cmd = p.cmd
  BY <1>1, <1>3, <1>4 DEF EpPipe
<1>6. Held(f) = Tail(Held(p)) BY <1>2, <1>5 DEF Held, t
<1>7. p.state # "none" BY <1>2 DEF Good, Sound
<1>8. f.hasUrb <=> Held(f) # <<>> BY <1>5 DEF Held, x
<1>9. Good(f) BY <1>5, <1>7, <1>8 DEF Good, Sound, Full
<1> QED BY <1>2, <1>5, <1>6, <1>7, <1>9 DEF t, f

\* Flushing keeps what the pipe holds: all of it is done.
LEMMA FlushedKeeps ==
    ASSUME NEW p, Good(p), p.state = "halted"
    PROVE  LET f == Flushed(p)
           IN  /\ Good(f) /\ Held(f) = Held(p) /\ f.state = "halted" /\ f.waiter = p.waiter
               /\ FlushMoves(p) => Held(p) # <<>>
               /\ ~FlushMoves(p) => f.done = p.done
               /\ FlushMoves(p) \in BOOLEAN
<1>1. /\ p.pend \in Seq(Urb) /\ p.buf \in Seq(Urb) /\ p.done \in Seq(Urb) /\ p \in EpPipe
  BY DEF Good, Sound, EpPipe
<1> DEFINE d == p.done \o p.buf \o p.pend
           x == FlushMoves(p)
           f == Flushed(p)
<1>2. /\ d \in Seq(Urb) /\ d \o <<>> \o <<>> = d /\ x \in BOOLEAN
      /\ (x <=> p.buf # <<>> \/ p.pend # <<>>)
  <2>1. PICK a \in Seq(Urb), b \in Seq(Urb), c \in Seq(Urb) :
           a = p.done /\ b = p.buf /\ c = p.pend
    BY <1>1
  <2>2. a \o b \in Seq(Urb) BY ConcatProperties
  <2>3. (a \o b) \o c \in Seq(Urb) BY <2>2, ConcatProperties
  <2>4. \A y \in Seq(Urb) : y \o <<>> = y BY ConcatEmptySeq
  <2>5. b \o c = <<>> <=> b = <<>> /\ c = <<>> BY ConcatEqualIffEmpty
  <2> QED BY <2>1, <2>3, <2>4, <2>5 DEF FlushMoves
<1>3. f = [p EXCEPT !.done = d, !.buf = <<>>, !.pend = <<>>, !.exec = FALSE, !.cmd = x]
  BY <1>1 DEF Flushed, EpPipe
<1>4. d = Held(p) BY DEF Held
<1> HIDE DEF d, x, f
<1>5. /\ f \in EpPipe /\ f.done = d /\ f.buf = <<>> /\ f.pend = <<>> /\ f.hasUrb = p.hasUrb
      /\ f.exec = FALSE /\ f.state = p.state /\ f.waiter = p.waiter
  <2>1. d \in Seq(Urb) /\ x \in BOOLEAN /\ <<>> \in Seq(Urb) BY <1>2
  <2> QED BY <1>1, <1>3, <2>1 DEF EpPipe
<1>6. Held(f) = Held(p) BY <1>2, <1>4, <1>5 DEF Held
<1>7. Len(f.buf) <= NumBuffers BY <1>5, NumBuffersIsPos
<1>8. Good(f) BY <1>5, <1>6, <1>7 DEF Good, Sound
<1>9. x => Held(p) # <<>> BY <1>1, <1>2, HoldsNothing
<1>10. ~x => f.done = p.done
  <2>1. PICK a \in Seq(Urb) : a = p.done BY <1>1
  <2>2. a \o <<>> = a BY ConcatEmptySeq
  <2> QED BY <1>2, <1>5, <2>1, <2>2 DEF d
<1> QED BY <1>2, <1>5, <1>6, <1>8, <1>9, <1>10 DEF f, x

\* A pipe that is cleared goes on with what it holds.
LEMMA ClearedKeeps ==
    ASSUME NEW p, Good(p), p.state # "none"
    PROVE  LET f == Cleared(p)
           IN  /\ Good(f) /\ Held(f) = Held(p) /\ f.waiter = p.waiter /\ f.done = p.done
               /\ f.state = IF p.state = "halted" /\ Conn THEN "active" ELSE p.state
<1>1. /\ p \in EpPipe /\ p.pend \in Seq(Urb) /\ p.buf \in Seq(Urb) /\ p.done \in Seq(Urb)
      /\ Len(p.buf) <= NumBuffers
  BY DEF Good, Sound, EpPipe
<1>2. CASE p.state = "halted" /\ Conn
  <2> DEFINE q == [p EXCEPT !.state = "active", !.cmd = FALSE]
             x == Fill(q, NumBuffers)
             f == Exec(x)
             k == Least(Least(NumBuffers, NumBuffers - Len(q.buf)), Len(q.pend))
  <2>1. /\ q \in EpPipe /\ q.state = "active" /\ q.pend = p.pend /\ q.buf = p.buf
        /\ q.done = p.done /\ q.exec = p.exec /\ q.hasUrb = p.hasUrb /\ q.waiter = p.waiter
    BY <1>1 DEF EpPipe
  <2>2. Cleared(p) = f BY <1>2 DEF Cleared
  <2> HIDE DEF q
  <2>3. Sound(q) /\ Held(q) = Held(p) BY <2>1 DEF Good, Sound, Held
  <2>4. /\ Sound(x) /\ Held(x) = Held(q) /\ x.state = q.state /\ x.waiter = q.waiter
        /\ x.done = q.done /\ k \in Nat
        /\ Len(x.buf) = Len(q.buf) + k /\ Len(x.pend) = Len(q.pend) - k
    BY <2>1, <2>3, NumBuffersIsPos, FillKeeps
  <2> HIDE DEF x
  <2>5. /\ Sound(f) /\ Held(f) = Held(x) /\ f.state = x.state /\ f.waiter = x.waiter
        /\ f.done = x.done /\ f.buf = x.buf /\ f.pend = x.pend /\ (x.buf # <<>> => f.exec)
    BY <2>1, <2>4, ExecKeeps
  <2>6. /\ Len(q.pend) \in Nat /\ Len(q.buf) \in Nat /\ Len(q.buf) <= NumBuffers
        /\ x.buf \in Seq(Urb) /\ x.pend \in Seq(Urb)
    BY <1>1, <2>1, <2>4 DEF Sound, EpPipe
  <2>7. x.pend # <<>> => Len(x.buf) = NumBuffers
    <3>1. SUFFICES ASSUME Len(x.pend) # 0 PROVE Len(x.buf) = NumBuffers
      BY <2>6
    <3>2. k = NumBuffers - Len(q.buf)
      <4>1. k # Len(q.pend) BY <2>4, <2>6, <3>1
      <4> HIDE DEF f
      <4>2. Least(NumBuffers, NumBuffers - Len(q.buf)) = NumBuffers - Len(q.buf)
        BY <2>6, NumBuffersIsPos, LeastIsAll
      <4> QED BY <2>6, <4>1, <4>2 DEF Least
    <3> QED BY <2>4, <2>6, <3>2, NumBuffersIsPos
  <2>8. x.pend # <<>> => x.buf # <<>> BY <2>6, <2>7, NumBuffersIsPos
  <2>9. Good(f) BY <2>5, <2>7, <2>8 DEF Good, Full
  <2> HIDE DEF f
  <2> QED BY <1>2, <2>1, <2>2, <2>3, <2>4, <2>5, <2>9
<1>3. CASE ~(p.state = "halted" /\ Conn)
  <2> DEFINE f == [p EXCEPT !.cmd = FALSE]
  <2>1. Cleared(p) = f BY <1>3 DEF Cleared
  <2>2. /\ f \in EpPipe /\ f.state = p.state /\ f.pend = p.pend /\ f.hasUrb = p.hasUrb
        /\ f.buf = p.buf /\ f.done = p.done /\ f.exec = p.exec /\ f.waiter = p.waiter
    BY <1>1 DEF EpPipe
  <2> HIDE DEF f
  <2>3. Good(f) /\ Held(f) = Held(p) BY <2>2 DEF Good, Sound, Held, Full
  <2> QED BY <1>3, <2>1, <2>2, <2>3
<1> QED BY <1>2, <1>3

-----------------------------------------------------------------------------
(* The invariant *)

Worker == {"handler", "api"}

\* The places of a submission are just three names.
USE DEF Submitting

\* A transfer that a task has counted and has yet to enqueue
Enqueuing(t) == task[t].at \in Submitting

\* Types, with the endpoints of this environment
TaskType ==
    [at : {"idle", "loop", "flush", "notify", "dequeue", "callback", "count",
           "wait", "free", "abort"} \cup Submitting,
     ep : Eps \cup {NoEp}, urb : Urb \cup {NoUrb}, to : Eps \cup {NoEp}, n : Nat,
     left : SUBSET Eps]

DaemonType ==
    [at : {"idle", "walk", "wait", "flush", "notify", "suspend", "abort"},
     why : {"gone", "suspend", "resume"}, ep : Eps \cup {NoEp}, left : SUBSET Eps]

BooksOK ==
    /\ port \in {"enabled", "suspended", "lost"} /\ gone \in BOOLEAN
    /\ acts \subseteq {"gone", "suspend", "resume", "resume_port"} /\ claimed \in BOOLEAN
    /\ wrap \in [Ep -> [pending : BOOLEAN, count : Int, last : {"done", "error"}]]
    /\ pendingEps \in Seq(Eps) /\ sem \in BOOLEAN

EpShape ==
    /\ BooksOK /\ pipe \in [Ep -> EpPipe] /\ inflight \subseteq Urb
    /\ task \in [Worker -> TaskType] /\ dmn \in DaemonType

\* Who works on an endpoint, or with a transfer, knows which one.
TaskKnows(t, r) ==
    /\ r.at \in {"flush", "notify", "dequeue", "callback", "count", "wait"} => r.ep # NoEp
    /\ t = "handler" /\ r.at \in Submitting => r.ep # NoEp
    /\ r.at = "callback" => r.urb # NoUrb
    /\ r.at \in Submitting => r.to # NoEp /\ r.urb # NoUrb

DaemonKnows(d) ==
    d.at \in {"wait", "flush", "notify"} => d.ep # NoEp /\ d.ep \in d.left

AllKnow == DaemonKnows(dmn) /\ \A t \in Worker : TaskKnows(t, task[t])

\* Endpoints exist only of a claimed interface, until they are freed; the daemon's do.
AllocatedAreClaimed ==
    /\ \A e \in Eps : Alive(e) => claimed /\ (Api.at = "free" => e \in Api.left)
    /\ Walking => \A e \in dmn.left : Alive(e)

\* A transfer is in one place.
UrbsAreOnce ==
    /\ \A e \in Ep : \A i \in DOMAIN Queue(e) : Queue(e)[i] \in inflight
    /\ \A e, f \in Ep : \A i \in DOMAIN Queue(e), j \in DOMAIN Queue(f) :
          Queue(e)[i] = Queue(f)[j] => e = f /\ i = j
    /\ \A t \in Worker : Enqueuing(t) =>
          task[t].urb \in inflight /\ \A e \in Ep : ~In(task[t].urb, Queue(e))
    /\ Enqueuing("handler") /\ Enqueuing("api") => Handler.urb # Api.urb

EpSafe ==
    /\ env \in Environments /\ EpShape /\ AllKnow /\ (\A e \in Ep : Good(pipe[e]))
    /\ AllocatedAreClaimed /\ UrbsAreOnce

\* A step that leaves in the pipes what is in them
SamePipes ==
    /\ pipe' \in [Ep -> EpPipe]
    /\ \A f \in Ep : Good(pipe'[f]) /\ Queue(f)' = Queue(f)

SameAlive == \A f \in Ep : Alive(f)' <=> Alive(f)

-----------------------------------------------------------------------------

\* The endpoints and transfers of an environment
LEMMA EnvironmentIsTyped ==
    ASSUME env \in Environments
    PROVE  Eps \subseteq Ep /\ Urbs \subseteq Urb /\ NoEp \notin Ep /\ NoUrb \notin Urb
           /\ NoEp \notin Eps
BY EnvironmentsAreTyped, NamesDiffer DEF Eps, Urbs

\* The books of an environment stay typed when it stays the same.
LEMMA TypesStay ==
    ASSUME env' = env
    PROVE  Eps' = Eps /\ Uses' = Uses /\ Urbs' = Urbs /\ TaskType' = TaskType
           /\ DaemonType' = DaemonType
BY DEF Eps, Uses, Urbs, TaskType, DaemonType

\* If the pipes hold what they held, and nobody takes up a transfer, transfers stay
\* where they are.
LEMMA OnceKept ==
    ASSUME UrbsAreOnce, \A e \in Ep : Queue(e)' = Queue(e), inflight' = inflight,
           \A t \in Worker : Enqueuing(t)' => Enqueuing(t) /\ task'[t].urb = task[t].urb
    PROVE  UrbsAreOnce'
BY DEF UrbsAreOnce, In, Worker, Handler, Api, Enqueuing

\* Pipes that stay as they are hold what they held.
LEMMA PipesUnchanged ==
    ASSUME EpSafe, pipe' = pipe
    PROVE  SamePipes /\ SameAlive
BY DEF SamePipes, SameAlive, EpSafe, EpShape, Queue, Alive

\* A step that changes one pipe, which holds what it held
LEMMA PipeChanges ==
    ASSUME EpSafe, NEW e \in Ep, NEW p, Good(p), Held(p) = Held(pipe[e]),
           pipe' = [pipe EXCEPT ![e] = p]
    PROVE  /\ SamePipes /\ ((p.state = "none" <=> pipe[e].state = "none") => SameAlive)
           /\ pipe'[e] = p /\ \A f \in Ep \ {e} : pipe'[f] = pipe[f]
<1>1. pipe \in [Ep -> EpPipe] /\ \A f \in Ep : Good(pipe[f])
  BY DEF EpSafe, EpShape
<1>2. p \in EpPipe BY DEF Good, Sound
<1>3. pipe'[e] = p /\ \A f \in Ep \ {e} : pipe'[f] = pipe[f] BY <1>1
<1>4. \A f \in Ep : Queue(f) = Held(pipe[f]) /\ Queue(f)' = Held(pipe'[f])
  BY DEF Queue, Held
<1>5. \A f \in Ep : Good(pipe'[f]) BY <1>1, <1>3
<1>6. \A f \in Ep : Queue(f)' = Queue(f) BY <1>3, <1>4
<1>7. (p.state = "none" <=> pipe[e].state = "none") => SameAlive
  BY <1>3 DEF Alive, SameAlive
<1>8. pipe' \in [Ep -> EpPipe] BY <1>1, <1>2
<1> QED BY <1>3, <1>5, <1>6, <1>7, <1>8 DEF SamePipes

\* One task moves, the other one does not.
LEMMA TaskMoves ==
    ASSUME EpSafe, NEW t \in Worker, NEW r \in TaskType, task' = [task EXCEPT ![t] = r]
    PROVE  /\ task' \in [Worker -> TaskType] /\ task'[t] = r
           /\ \A s \in Worker \ {t} : task'[s] = task[s]
BY DEF EpSafe, EpShape

\* A step of a client's task that takes up no transfer
LEMMA TaskStepKeeps ==
    ASSUME EpSafe, NEW t \in Worker, NEW r \in TaskType, task' = [task EXCEPT ![t] = r],
           TaskKnows(t, r), r.at \in Submitting => Enqueuing(t) /\ r.urb = task[t].urb,
           UNCHANGED <<inflight, dmn, env>>, BooksOK', SamePipes, AllocatedAreClaimed'
    PROVE  EpSafe' /\ SamePipes
<1>1. /\ task' \in [Worker -> TaskType] /\ task'[t] = r
      /\ \A s \in Worker \ {t} : task'[s] = task[s]
  BY TaskMoves
<1>2. EpShape' BY <1>1, TypesStay DEF EpSafe, EpShape, SamePipes
<1>3. AllKnow' BY <1>1 DEF EpSafe, AllKnow
<1>4. \A s \in Worker : Enqueuing(s)' => Enqueuing(s) /\ task'[s].urb = task[s].urb
  BY <1>1 DEF Enqueuing
<1>5. UrbsAreOnce' BY <1>4, OnceKept DEF EpSafe, SamePipes
<1>6. (\A e \in Ep : Good(pipe[e]))'
  BY DEF SamePipes, Good, Sound, Held, Full
<1> QED BY <1>2, <1>3, <1>5, <1>6 DEF EpSafe

\* A task moves on and the pipes hold what they held.
LEMMA TaskStepSafe ==
    ASSUME EpSafe, NEW t \in Worker, NEW r \in TaskType, task' = [task EXCEPT ![t] = r],
           TaskKnows(t, r), r.at \in Submitting => Enqueuing(t) /\ r.urb = task[t].urb,
           UNCHANGED <<inflight, dmn, claimed, env>>, BooksOK', SamePipes, SameAlive,
           t = "api" /\ r.at = "free" => Eps \subseteq r.left \/ r = task[t]
    PROVE  EpSafe' /\ SamePipes
<1>1. /\ task' \in [Worker -> TaskType] /\ task'[t] = r
      /\ \A s \in Worker \ {t} : task'[s] = task[s]
  BY TaskMoves
<1>2. AllocatedAreClaimed'
  <2>1. \A e \in Eps : e \in Ep BY EnvironmentIsTyped DEF EpSafe
  <2>2. \A e \in Eps : Alive(e)' => claimed'
    BY <2>1 DEF EpSafe, SameAlive, AllocatedAreClaimed
  <2>3. \A e \in Eps : Alive(e)' /\ Api'.at = "free" => e \in Api'.left
    BY <1>1, <2>1 DEF EpSafe, SameAlive, AllocatedAreClaimed, Api, Worker
  <2>4. Walking' => \A e \in dmn'.left : Alive(e)'
    BY <2>1 DEF EpSafe, EpShape, DaemonType, SameAlive, AllocatedAreClaimed, Walking
  <2> QED BY <2>2, <2>3, <2>4, TypesStay DEF AllocatedAreClaimed
<1> QED BY <1>2, TaskStepKeeps

\* A step of the daemon's, or of none of the tasks
LEMMA DaemonStepSafe ==
    ASSUME EpSafe, dmn' \in DaemonType, DaemonKnows(dmn'),
           Walking' => \A e \in dmn'.left : Alive(e),
           UNCHANGED <<inflight, task, claimed, env>>, BooksOK', SamePipes, SameAlive
    PROVE  EpSafe' /\ SamePipes
<1>1. EpShape' BY TypesStay DEF EpSafe, EpShape, SamePipes
<1>2. AllKnow' BY DEF EpSafe, AllKnow, DaemonKnows
<1>3. AllocatedAreClaimed'
  <2>1. (\A e \in Eps : e \in Ep) /\ dmn'.left \subseteq Eps
    BY EnvironmentIsTyped DEF EpSafe, DaemonType
  <2>2. \A e \in Eps : Alive(e)' => claimed' /\ (Api'.at = "free" => e \in Api'.left)
    BY <2>1 DEF EpSafe, SameAlive, AllocatedAreClaimed, Api
  <2>3. Walking' => \A e \in dmn'.left : Alive(e)' BY <2>1 DEF SameAlive
  <2> QED BY <2>2, <2>3, TypesStay DEF AllocatedAreClaimed
<1>4. UrbsAreOnce' BY OnceKept DEF EpSafe, SamePipes, Enqueuing
<1>5. (\A e \in Ep : Good(pipe[e]))'
  BY DEF SamePipes, Good, Sound, Held, Full
<1> QED BY <1>1, <1>2, <1>3, <1>4, <1>5 DEF EpSafe

-----------------------------------------------------------------------------
(* The handler *)

\* endpoint_callback() keeps the books.
LEMMA CallbackTyped ==
    ASSUME BooksOK, NEW e \in Ep, e \in Eps, NEW event \in {"done", "error"},
           EndpointCallback(e, event), UNCHANGED <<port, gone, acts, claimed, env>>
    PROVE  BooksOK'
<1>1. wrap' \in [Ep -> [pending : BOOLEAN, count : Int, last : {"done", "error"}]]
  BY ZenonT(60) DEF BooksOK, EndpointCallback
<1>2. pendingEps' \in Seq(Eps)
  BY AppendProperties DEF BooksOK, EndpointCallback
<1> QED BY <1>1, <1>2, TypesStay DEF BooksOK, EndpointCallback

\* The books stay in order when nobody writes to them.
LEMMA BooksUnchanged ==
    ASSUME EpSafe, UNCHANGED <<port, gone, acts, claimed, wrap, pendingEps, sem, env>>
    PROVE  BooksOK'
BY TypesStay DEF EpSafe, EpShape, BooksOK

\* HandleEvents leaves in the pipes what is in them.
LEMMA HandleEventsSafe == ASSUME EpSafe, HandleEvents PROVE EpSafe' /\ SamePipes
<1> DEFINE r == [Handler EXCEPT !.at = "loop"]
<1>1. task' = [task EXCEPT !["handler"] = r] /\ Handler \in TaskType
  BY DEF HandleEvents, At, EpSafe, EpShape, Handler, Worker
<1>2. r \in TaskType /\ r.at = "loop" BY <1>1 DEF TaskType
<1> HIDE DEF r
<1>3. UNCHANGED <<pipe, inflight, dmn, claimed, env>> /\ BooksOK'
  BY TypesStay DEF EpSafe, EpShape, BooksOK, HandleEvents, fixed
<1>4. TaskKnows("handler", r) BY <1>2 DEF TaskKnows
<1>5. SamePipes /\ SameAlive BY <1>3, PipesUnchanged
<1>6. "handler" \in Worker BY DEF Worker
<1> QED BY <1>1, <1>2, <1>3, <1>4, <1>5, <1>6, TaskStepSafe

\* NextEp leaves in the pipes what is in them.
LEMMA NextEpSafe == ASSUME EpSafe, NextEp PROVE EpSafe' /\ SamePipes
<1>1. PICK e \in Eps : e = Head(pendingEps)
  BY HeadTailProperties DEF EpSafe, EpShape, BooksOK, NextEp
<1>2. PICK s \in {"flush", "dequeue"} : s = IF wrap[e].last = "error" THEN "flush" ELSE "dequeue"
  OBVIOUS
<1> DEFINE r == [Handler EXCEPT !.at = s, !.ep = e, !.n = 0]
<1>3. task' = [task EXCEPT !["handler"] = r] /\ Handler \in TaskType
  BY <1>1, <1>2 DEF NextEp, EpSafe, EpShape, Handler, Worker
<1>4. r \in TaskType /\ r.at = s /\ r.ep = e BY <1>3 DEF TaskType
<1> HIDE DEF r
<1>5. UNCHANGED <<pipe, inflight, dmn, claimed, env>> BY DEF NextEp, fixed
<1>6. BooksOK'
  <2>1. e \in Ep BY EnvironmentIsTyped DEF EpSafe
  <2>2. wrap' \in [Ep -> [pending : BOOLEAN, count : Int, last : {"done", "error"}]]
    BY <1>1, <2>1 DEF NextEp, EpSafe, EpShape, BooksOK
  <2>3. pendingEps' \in Seq(Eps)
    BY HeadTailProperties DEF NextEp, EpSafe, EpShape, BooksOK
  <2> QED BY <1>5, <2>2, <2>3, TypesStay DEF EpSafe, EpShape, BooksOK, NextEp
<1>7. TaskKnows("handler", r)
  BY <1>4, EnvironmentIsTyped DEF TaskKnows, EpSafe
<1>8. SamePipes /\ SameAlive BY <1>5, PipesUnchanged
<1>9. "handler" \in Worker BY DEF Worker
<1> QED BY <1>3, <1>4, <1>5, <1>6, <1>7, <1>8, <1>9, TaskStepSafe

\* HandledEvents leaves in the pipes what is in them.
LEMMA HandledEventsSafe == ASSUME EpSafe, HandledEvents PROVE EpSafe' /\ SamePipes
<1> DEFINE r == [Handler EXCEPT !.at = "idle"]
<1>1. task' = [task EXCEPT !["handler"] = r] /\ Handler \in TaskType
  BY DEF HandledEvents, EpSafe, EpShape, Handler, Worker
<1>2. r \in TaskType /\ r.at = "idle" BY <1>1 DEF TaskType
<1> HIDE DEF r
<1>3. UNCHANGED <<pipe, inflight, dmn, claimed, env>> /\ BooksOK'
  BY BooksUnchanged DEF HandledEvents, fixed
<1>4. TaskKnows("handler", r) BY <1>2 DEF TaskKnows
<1>5. SamePipes /\ SameAlive BY <1>3, PipesUnchanged
<1>6. "handler" \in Worker BY DEF Worker
<1> QED BY <1>1, <1>2, <1>3, <1>4, <1>5, <1>6, TaskStepSafe

\* HandlerFlush leaves in the pipes what is in them.
LEMMA HandlerFlushSafe == ASSUME EpSafe, HandlerFlush PROVE EpSafe' /\ SamePipes
<1> DEFINE e == Handler.ep
           p == pipe[e]
<1>1. /\ Handler \in TaskType /\ e \in Eps /\ e \in Ep /\ Good(p) /\ e # NoEp
      /\ "handler" \in Worker
  BY EnvironmentIsTyped
     DEF EpSafe, EpShape, AllKnow, TaskKnows, HandlerFlush, Worker, Handler, TaskType
<1>2. UNCHANGED <<inflight, dmn, claimed, env>> /\ BooksOK'
  BY BooksUnchanged DEF HandlerFlush, fixed
<1>3. PICK s \in {"abort", "notify", "dequeue"} : task' = At("handler", s)
  BY DEF HandlerFlush
<1> DEFINE r == [Handler EXCEPT !.at = s]
<1>4. task' = [task EXCEPT !["handler"] = r] BY <1>3 DEF At, Handler
<1>5. r \in TaskType /\ r.at = s /\ r.ep = e BY <1>1 DEF TaskType
<1> HIDE DEF r
<1>6. SamePipes /\ SameAlive
  <2>1. CASE p.state # "halted" BY <2>1, PipesUnchanged DEF HandlerFlush
  <2>2. CASE p.state = "halted"
    <3>1. pipe' = [pipe EXCEPT ![e] = Flushed(p)] BY <2>2 DEF HandlerFlush
    <3>2. Good(Flushed(p)) /\ Held(Flushed(p)) = Held(p) /\ Flushed(p).state = "halted"
      BY <1>1, <2>2, FlushedKeeps
    <3> HIDE DEF e
    <3> QED BY <1>1, <2>2, <3>1, <3>2, PipeChanges
  <2> QED BY <2>1, <2>2
<1>7. TaskKnows("handler", r) BY <1>1, <1>5 DEF TaskKnows
<1> QED BY <1>1, <1>2, <1>4, <1>5, <1>6, <1>7, TaskStepSafe

\* CallbackReturns leaves in the pipes what is in them.
LEMMA CallbackReturnsSafe == ASSUME EpSafe, CallbackReturns PROVE EpSafe' /\ SamePipes
<1> DEFINE r == [Handler EXCEPT !.at = "dequeue"]
<1>1. task' = [task EXCEPT !["handler"] = r] /\ Handler \in TaskType
  BY DEF CallbackReturns, At, EpSafe, EpShape, Handler, Worker
<1>2. r \in TaskType /\ r.at = "dequeue" /\ r.ep = Handler.ep
  BY <1>1 DEF TaskType
<1> HIDE DEF r
<1>3. UNCHANGED <<pipe, inflight, dmn, claimed, env>> /\ BooksOK'
  BY BooksUnchanged DEF CallbackReturns, fixed
<1>4. TaskKnows("handler", r)
  BY <1>2 DEF TaskKnows, EpSafe, AllKnow, Worker, CallbackReturns, Handler
<1>5. SamePipes /\ SameAlive BY <1>3, PipesUnchanged
<1>6. "handler" \in Worker BY DEF Worker
<1> QED BY <1>1, <1>2, <1>3, <1>4, <1>5, <1>6, TaskStepSafe

\* HandlerCount leaves in the pipes what is in them.
LEMMA HandlerCountSafe == ASSUME EpSafe, HandlerCount PROVE EpSafe' /\ SamePipes
<1>1. UNCHANGED <<pipe, inflight, dmn, claimed, env>> /\ Handler \in TaskType
  BY DEF HandlerCount, fixed, EpSafe, EpShape, Handler, Worker
<1>2. SamePipes /\ SameAlive BY <1>1, PipesUnchanged
<1>3. CASE Handler.n > wrap[Handler.ep].count
  <2> DEFINE r == [Handler EXCEPT !.at = "abort"]
  <2>1. task' = [task EXCEPT !["handler"] = r] /\ BooksOK'
    BY <1>3, BooksUnchanged DEF HandlerCount, At, Handler, fixed
  <2>2. r \in TaskType /\ r.at = "abort" BY <1>1 DEF TaskType
  <2> HIDE DEF r
  <2>3. TaskKnows("handler", r) /\ "handler" \in Worker
    BY <2>2 DEF TaskKnows, Worker
  <2> QED BY <1>1, <1>2, <2>1, <2>2, <2>3, TaskStepSafe
<1>4. CASE ~(Handler.n > wrap[Handler.ep].count)
  <2> DEFINE r == [Handler EXCEPT !.at = "loop", !.ep = NoEp, !.urb = NoUrb, !.n = 0]
  <2>1. task' = [task EXCEPT !["handler"] = r]
    BY <1>4 DEF HandlerCount, At, Handler
  <2>2. r \in TaskType /\ r.at = "loop" BY <1>1 DEF TaskType
  <2> HIDE DEF r
  <2>3. TaskKnows("handler", r) /\ "handler" \in Worker
    BY <2>2 DEF TaskKnows, Worker
  <2>4. wrap' \in [Ep -> [pending : BOOLEAN, count : Int, last : {"done", "error"}]]
    <3> DEFINE e == Handler.ep
    <3>1. e \in Ep
      BY <1>1, EnvironmentIsTyped
         DEF EpSafe, AllKnow, TaskKnows, HandlerCount, Worker, Handler, TaskType
    <3>2. PICK c \in Int : c = wrap[e].count - Handler.n
      BY <1>1, <3>1 DEF EpSafe, EpShape, BooksOK, TaskType
    <3>3. wrap' = [wrap EXCEPT ![e].count = c]
      BY <1>4, <3>1, <3>2 DEF EpSafe, EpShape, BooksOK, HandlerCount
    <3> HIDE DEF e
    <3> QED BY <3>1, <3>3 DEF EpSafe, EpShape, BooksOK
  <2>5. BooksOK'
    BY <1>1, <2>4, TypesStay DEF EpSafe, EpShape, BooksOK, HandlerCount
  <2> QED BY <1>1, <1>2, <2>1, <2>2, <2>3, <2>5, TaskStepSafe
<1> QED BY <1>3, <1>4

-----------------------------------------------------------------------------
(* The API, and the commands of both tasks *)

\* Notify leaves in the pipes what is in them.
LEMMA NotifySafe == ASSUME EpSafe, NEW t \in Worker, Notify(t) PROVE EpSafe' /\ SamePipes
<1> DEFINE e == task[t].ep
           p == [pipe[e] EXCEPT !.waiter = @, !.cmd = FALSE]
<1>1. /\ task[t] \in TaskType /\ e \in Eps /\ e \in Ep /\ Good(pipe[e]) /\ e # NoEp
      /\ pipe \in [Ep -> EpPipe]
  BY EnvironmentIsTyped DEF EpSafe, EpShape, AllKnow, TaskKnows, Notify, TaskType
<1>2. UNCHANGED <<inflight, dmn, claimed, env>> /\ BooksOK'
  <2>1. UNCHANGED <<port, gone, acts, claimed, inflight, dmn, env>>
    BY DEF Notify, fixed
  <2>2. EndpointCallback(e, "done") BY DEF Notify
  <2> HIDE DEF e
  <2> QED BY <1>1, <2>1, <2>2, CallbackTyped DEF EpSafe, EpShape
<1>3. SamePipes /\ SameAlive
  <2>1. Good(p) /\ Held(p) = Held(pipe[e]) /\ p.state = pipe[e].state
    <3>1. PICK w \in {"none", "api", "daemon"} : w = pipe[e].waiter
      BY <1>1 DEF EpPipe
    <3>2. pipe[e].state = "none" => w = "none" BY <1>1, <3>1 DEF Good, Sound
    <3> HIDE DEF e
    <3> QED BY <1>1, <3>1, <3>2, CommandKeeps, ZenonT(60)
  <2>2. pipe' = [pipe EXCEPT ![e] = p] BY <1>1 DEF Notify, EpPipe
  <2> HIDE DEF e, p
  <2> QED BY <1>1, <2>1, <2>2, PipeChanges
<1> DEFINE r == IF t = "api" THEN [task[t] EXCEPT !.at = "idle", !.ep = NoEp, !.left = {}]
                ELSE [task[t] EXCEPT !.at = "dequeue"]
<1>4. task' = [task EXCEPT ![t] = r] BY DEF Notify, Rest, At, Worker
<1>5. r \in TaskType /\ r.at \in {"idle", "dequeue"} /\ (r.at = "dequeue" => r.ep = e)
  BY <1>1 DEF TaskType
<1> HIDE DEF r
<1>6. TaskKnows(t, r) BY <1>1, <1>5 DEF TaskKnows
<1> HIDE DEF e
<1> QED BY <1>2, <1>3, <1>4, <1>5, <1>6, TaskStepSafe

\* ApiHalt leaves in the pipes what is in them.
LEMMA ApiHaltSafe == ASSUME EpSafe, NEW e \in Eps, ApiHalt(e) PROVE EpSafe' /\ SamePipes
<1> DEFINE p == pipe[e]
<1>1. /\ e \in Ep /\ e # NoEp /\ Good(p) /\ p.state # "none" /\ p \in EpPipe /\ Api \in TaskType
      /\ Api.at = "idle" /\ "api" \in Worker /\ pipe \in [Ep -> EpPipe]
  BY EnvironmentIsTyped DEF EpSafe, EpShape, ApiHalt, Commanding, Alive, Api, Worker
<1>2. UNCHANGED <<inflight, dmn, claimed, env>> /\ BooksOK'
  BY BooksUnchanged DEF ApiHalt, fixed
<1>3. CASE ~HaltWaits(p)
  <2> DEFINE f == [p EXCEPT !.state = "halted", !.waiter = @, !.cmd = FALSE]
  <2>1. Good(f) /\ Held(f) = Held(p) /\ f.state = "halted"
    BY <1>1, HaltedKeeps DEF Good
  <2>2. pipe' = [pipe EXCEPT ![e] = f] /\ task' = task
    BY <1>1, <1>3 DEF ApiHalt, EpPipe
  <2> HIDE DEF f
  <2>3. SamePipes /\ SameAlive BY <1>1, <2>1, <2>2, PipeChanges
  <2>4. task' = [task EXCEPT !["api"] = Api] /\ TaskKnows("api", Api)
    BY <1>1, <2>2 DEF Api, EpSafe, EpShape, AllKnow
  <2> QED BY <1>1, <1>2, <2>3, <2>4, TaskStepSafe
<1>4. CASE HaltWaits(p) /\ p.waiter # "none"
  <2> DEFINE r == [Api EXCEPT !.at = "abort"]
  <2>1. task' = [task EXCEPT !["api"] = r] /\ pipe' = pipe
    BY <1>4 DEF ApiHalt, At, Api
  <2>2. r \in TaskType /\ r.at = "abort" BY <1>1 DEF TaskType
  <2> HIDE DEF r
  <2>3. TaskKnows("api", r) BY <2>2 DEF TaskKnows
  <2> QED BY <1>1, <1>2, <2>1, <2>2, <2>3, PipesUnchanged, TaskStepSafe
<1>5. CASE HaltWaits(p) /\ p.waiter = "none"
  <2> DEFINE f == [p EXCEPT !.waiter = "api", !.cmd = TRUE]
             r == [Api EXCEPT !.at = "wait", !.ep = e]
  <2>1. Good(f) /\ Held(f) = Held(p) /\ f.state = p.state
    BY <1>1, CommandKeeps
  <2>2. pipe' = [pipe EXCEPT ![e] = f] /\ task' = [task EXCEPT !["api"] = r]
    BY <1>1, <1>5 DEF ApiHalt, Api
  <2>3. r \in TaskType /\ r.at = "wait" /\ r.ep = e BY <1>1 DEF TaskType
  <2> HIDE DEF f, r
  <2>4. SamePipes /\ SameAlive BY <1>1, <2>1, <2>2, PipeChanges
  <2>5. TaskKnows("api", r) BY <1>1, <2>3 DEF TaskKnows
  <2> QED BY <1>1, <1>2, <2>2, <2>3, <2>4, <2>5, TaskStepSafe
<1> QED BY <1>3, <1>4, <1>5

\* ApiHalted leaves in the pipes what is in them.
LEMMA ApiHaltedSafe == ASSUME EpSafe, ApiHalted PROVE EpSafe' /\ SamePipes
<1> DEFINE e == Api.ep
           p == pipe[e]
<1>1. /\ e \in Eps /\ e \in Ep /\ Good(p) /\ p \in EpPipe /\ Api \in TaskType
      /\ "api" \in Worker /\ pipe \in [Ep -> EpPipe]
  BY EnvironmentIsTyped
     DEF EpSafe, EpShape, AllKnow, TaskKnows, ApiHalted, Worker, Api, TaskType
<1>2. UNCHANGED <<inflight, dmn, claimed, env>> /\ BooksOK'
  BY BooksUnchanged DEF ApiHalted, fixed
<1>3. CASE p.state # "halted"
  <2> DEFINE r == [Api EXCEPT !.at = "abort"]
  <2>1. task' = [task EXCEPT !["api"] = r] /\ pipe' = pipe
    BY <1>3 DEF ApiHalted, At, Api
  <2>2. r \in TaskType /\ r.at = "abort" BY <1>1 DEF TaskType
  <2> HIDE DEF r
  <2>3. TaskKnows("api", r) BY <2>2 DEF TaskKnows
  <2> QED BY <1>1, <1>2, <2>1, <2>2, <2>3, PipesUnchanged, TaskStepSafe
<1>4. CASE p.state = "halted"
  <2> DEFINE f == [p EXCEPT !.waiter = @, !.cmd = FALSE]
             r == [Api EXCEPT !.at = "idle", !.ep = NoEp, !.left = {}]
  <2>1. Good(f) /\ Held(f) = Held(p) /\ f.state = p.state
    <3>1. PICK w \in {"none", "api", "daemon"} : w = p.waiter
      BY <1>1 DEF EpPipe
    <3>2. p.state # "none" BY <1>4
    <3> HIDE DEF e
    <3> QED BY <1>1, <3>1, <3>2, CommandKeeps, ZenonT(60)
  <2>2. pipe' = [pipe EXCEPT ![e] = f] /\ task' = [task EXCEPT !["api"] = r]
    BY <1>1, <1>4 DEF ApiHalted, Api, Rest, EpPipe
  <2>3. r \in TaskType /\ r.at = "idle" BY <1>1 DEF TaskType
  <2> HIDE DEF f, r
  <2>4. SamePipes /\ SameAlive
    <3> HIDE DEF e
    <3> QED BY <1>1, <2>1, <2>2, PipeChanges
  <2>5. TaskKnows("api", r) BY <1>1, <2>3 DEF TaskKnows
  <2> QED BY <1>1, <1>2, <2>2, <2>3, <2>4, <2>5, TaskStepSafe
<1> QED BY <1>3, <1>4

\* ApiFlush leaves in the pipes what is in them.
LEMMA ApiFlushSafe == ASSUME EpSafe, NEW e \in Eps, ApiFlush(e) PROVE EpSafe' /\ SamePipes
<1> DEFINE p == pipe[e]
<1>1. /\ e \in Ep /\ e # NoEp /\ Good(p) /\ p.state = "halted" /\ Api \in TaskType
      /\ Api.at = "idle" /\ "api" \in Worker /\ pipe \in [Ep -> EpPipe]
  BY EnvironmentIsTyped DEF EpSafe, EpShape, ApiFlush, Commanding, Alive, Api, Worker
<1>2. UNCHANGED <<inflight, dmn, claimed, env>> /\ BooksOK'
  BY BooksUnchanged DEF ApiFlush, fixed
<1>3. SamePipes /\ SameAlive
  <2>1. pipe' = [pipe EXCEPT ![e] = Flushed(p)] BY DEF ApiFlush
  <2>2. Good(Flushed(p)) /\ Held(Flushed(p)) = Held(p) /\ Flushed(p).state = "halted"
    BY <1>1, FlushedKeeps
  <2> QED BY <1>1, <2>1, <2>2, PipeChanges
<1> DEFINE r == IF FlushMoves(p) THEN [Api EXCEPT !.at = "notify", !.ep = e] ELSE Api
<1>4. task' = [task EXCEPT !["api"] = r]
  BY <1>1 DEF ApiFlush, Api, EpSafe, EpShape
<1>5. r \in TaskType /\ ((r.at = "notify" /\ r.ep = e) \/ r = Api)
  BY <1>1 DEF TaskType
<1> HIDE DEF r
<1>6. TaskKnows("api", r) BY <1>1, <1>5 DEF TaskKnows
<1> QED BY <1>1, <1>2, <1>3, <1>4, <1>5, <1>6, TaskStepSafe

\* ApiClear leaves in the pipes what is in them.
LEMMA ApiClearSafe == ASSUME EpSafe, NEW e \in Eps, ApiClear(e) PROVE EpSafe' /\ SamePipes
<1> DEFINE p == pipe[e]
<1>1. /\ e \in Ep /\ Good(p) /\ p.state = "halted" /\ Api \in TaskType
      /\ "api" \in Worker /\ pipe \in [Ep -> EpPipe]
  BY EnvironmentIsTyped DEF EpSafe, EpShape, ApiClear, Commanding, Alive, Api, Worker
<1>2. UNCHANGED <<inflight, dmn, claimed, task, env>> /\ BooksOK'
  BY BooksUnchanged DEF ApiClear, fixed
<1>3. SamePipes /\ SameAlive
  <2>1. pipe' = [pipe EXCEPT ![e] = Cleared(p)] BY DEF ApiClear
  <2>2. Good(Cleared(p)) /\ Held(Cleared(p)) = Held(p) /\ Cleared(p).state # "none"
    BY <1>1, ClearedKeeps
  <2> QED BY <1>1, <2>1, <2>2, PipeChanges
<1>4. task' = [task EXCEPT !["api"] = Api] /\ TaskKnows("api", Api) /\ Api = task["api"]
  BY <1>1, <1>2 DEF Api, EpSafe, EpShape, AllKnow
<1>5. Api.at \in Submitting => Enqueuing("api") BY DEF Enqueuing, Api
<1> QED BY <1>1, <1>2, <1>3, <1>4, <1>5, TaskStepSafe

\* Release leaves in the pipes what is in them.
LEMMA ReleaseSafe == ASSUME EpSafe, Release PROVE EpSafe' /\ SamePipes
<1> DEFINE r == [Api EXCEPT !.at = "free", !.left = Eps]
<1>1. task' = [task EXCEPT !["api"] = r] /\ Api \in TaskType
  BY DEF Release, EpSafe, EpShape, Api, Worker
<1>2. r \in TaskType /\ r.at = "free" /\ r.left = Eps BY <1>1 DEF TaskType
<1> HIDE DEF r
<1>3. UNCHANGED <<pipe, inflight, dmn, claimed, env>> /\ BooksOK'
  BY BooksUnchanged DEF Release, fixed
<1>4. TaskKnows("api", r) /\ "api" \in Worker BY <1>2 DEF TaskKnows, Worker
<1>5. SamePipes /\ SameAlive BY <1>3, PipesUnchanged
<1> QED BY <1>1, <1>2, <1>3, <1>4, <1>5, TaskStepSafe

-----------------------------------------------------------------------------
(* Claiming, releasing and freeing *)

\* What a pipe that is not there holds
LEMMA NoPipeIsGood ==
    /\ Good(NoPipe) /\ NoPipe.state = "none"
    /\ Held(NoPipe) = <<>> /\ NoPipe.done = <<>> /\ NoPipe.waiter = "none"
<1>1. <<>> \in Seq(Urb) OBVIOUS
<1>2. NoPipe \in EpPipe BY <1>1 DEF NoPipe, EpPipe
<1>3. Held(NoPipe) = <<>> BY <1>1, HoldsNothing DEF NoPipe
<1> QED BY <1>2, <1>3, NumBuffersIsPos DEF Good, Sound, NoPipe

\* An endpoint that was allocated holds nothing and is good.
LEMMA NewPipeIsGood ==
    ASSUME NEW p, p = [NoPipe EXCEPT !.state = "active"]
    PROVE  /\ Good(p) /\ Held(p) = <<>> /\ p.state = "active"
           /\ p.done = <<>> /\ p.waiter = "none"
<1>1. <<>> \in Seq(Urb) OBVIOUS
<1>2. p \in EpPipe /\ p.state = "active" /\ p.done = <<>> /\ p.buf = <<>> /\ p.pend = <<>>
      /\ p.waiter = "none" /\ p.exec = FALSE /\ p.hasUrb = FALSE
  BY <1>1 DEF NoPipe, EpPipe
<1>3. Held(p) = <<>> BY <1>1, <1>2, HoldsNothing
<1> QED BY <1>2, <1>3, NumBuffersIsPos DEF Good, Sound, Full

\* FreeEp leaves in the pipes what is in them.
LEMMA FreeEpSafe == ASSUME EpSafe, NEW e \in Eps, FreeEp(e) PROVE EpSafe' /\ SamePipes
<1> DEFINE p == pipe[e]
           q == Queue(e) # <<>> \/ pipe[e].exec \/ pipe[e].hasUrb
<1>1. /\ e \in Ep /\ Good(p) /\ Api \in TaskType /\ Api = task["api"]
      /\ Api.at = "free" /\ ~Walking /\ "api" \in Worker /\ pipe \in [Ep -> EpPipe]
  BY EnvironmentIsTyped DEF EpSafe, EpShape, FreeEp, Api, Worker
<1>2. UNCHANGED <<inflight, dmn, claimed, env>> /\ BooksOK'
  BY BooksUnchanged DEF FreeEp, fixed
<1>3. CASE q
  <2> DEFINE r == [Api EXCEPT !.at = "abort"]
  <2>1. task' = [task EXCEPT !["api"] = r] /\ pipe' = pipe
    BY <1>3 DEF FreeEp, At, Api
  <2>2. r \in TaskType /\ r.at = "abort" BY <1>1 DEF TaskType
  <2> HIDE DEF r
  <2>3. TaskKnows("api", r) BY <2>2 DEF TaskKnows
  <2> QED BY <1>1, <1>2, <2>1, <2>2, <2>3, PipesUnchanged, TaskStepSafe
<1>4. CASE ~q
  <2> DEFINE r == [Api EXCEPT !.left = @ \ {e}]
  <2>1. task' = [task EXCEPT !["api"] = r] /\ pipe' = [pipe EXCEPT ![e] = NoPipe]
    BY <1>4 DEF FreeEp, Api
  <2>2. r \in TaskType /\ r.at = "free" /\ r.left = Api.left \ {e}
    BY <1>1 DEF TaskType
  <2> HIDE DEF r
  <2>3. TaskKnows("api", r) BY <2>2 DEF TaskKnows
  <2>4. Held(NoPipe) = Held(pipe[e]) BY <1>4, NoPipeIsGood DEF Queue, Held
  <2>5. SamePipes /\ pipe'[e] = NoPipe /\ \A f \in Ep \ {e} : pipe'[f] = pipe[f]
    BY <1>1, <2>1, <2>4, NoPipeIsGood, PipeChanges
  <2>6. ~Alive(e)' BY <2>5, NoPipeIsGood DEF Alive
  <2>7. AllocatedAreClaimed'
    <3>1. task'["api"] = r BY <1>1, <2>1, <2>2, TaskMoves
    <3>2. ~Walking' BY <1>1, <1>2 DEF Walking
    <3>3. \A f \in Eps : f \in Ep BY EnvironmentIsTyped DEF EpSafe
    <3>4. \A f \in Eps \ {e} : Alive(f)' => claimed' /\ (Api'.at = "free" => f \in Api'.left)
      BY <1>1, <1>2, <2>2, <2>5, <3>1, <3>3 DEF Alive, EpSafe, AllocatedAreClaimed, Api
    <3> QED BY <1>2, <2>6, <3>2, <3>4, TypesStay DEF AllocatedAreClaimed
  <2> QED BY <1>1, <1>2, <2>1, <2>2, <2>3, <2>5, <2>7, TaskStepKeeps
<1> QED BY <1>3, <1>4

\* Released leaves in the pipes what is in them.
LEMMA ReleasedSafe == ASSUME EpSafe, Released PROVE EpSafe' /\ SamePipes
<1> DEFINE r == [Api EXCEPT !.at = "idle", !.ep = NoEp, !.left = {}]
<1>1. task' = [task EXCEPT !["api"] = r] /\ Api \in TaskType /\ "api" \in Worker
  BY DEF Released, Rest, EpSafe, EpShape, Api, Worker
<1>2. r \in TaskType /\ r.at = "idle" BY <1>1 DEF TaskType
<1> HIDE DEF r
<1>3. UNCHANGED <<port, gone, acts, pipe, wrap, pendingEps, sem, inflight, dmn, env>>
      /\ claimed' = FALSE
  BY DEF Released, fixed
<1>4. BooksOK' BY <1>3, TypesStay DEF EpSafe, EpShape, BooksOK
<1>5. TaskKnows("api", r) BY <1>2 DEF TaskKnows
<1>6. SamePipes BY <1>3, PipesUnchanged
<1>7. \A e \in Eps : ~Alive(e) BY DEF EpSafe, AllocatedAreClaimed, Released
<1>8. AllocatedAreClaimed'
  <2>1. \A e \in Eps : ~Alive(e)' BY <1>3, <1>7 DEF Alive
  <2>2. Walking' => \A e \in dmn'.left : Alive(e)'
    BY <1>3 DEF Walking, EpSafe, AllocatedAreClaimed, Alive
  <2> QED BY <1>3, <2>1, <2>2, TypesStay DEF AllocatedAreClaimed
<1> QED BY <1>1, <1>2, <1>3, <1>4, <1>5, <1>6, <1>8, TaskStepKeeps

\* Claim leaves in the pipes what is in them.
LEMMA ClaimSafe == ASSUME EpSafe, Claim PROVE EpSafe' /\ SamePipes
<1>1. PICK n : n = [NoPipe EXCEPT !.state = "active"] OBVIOUS
<1>2. pipe' = [e \in Ep |-> IF e \in Eps THEN n ELSE pipe[e]]
  BY <1>1 DEF Claim
<1>3. Good(n) /\ Held(n) = <<>> /\ n.state = "active" /\ n \in EpPipe
  BY <1>1, NewPipeIsGood DEF Good, Sound
<1>4. Eps \subseteq Ep /\ pipe \in [Ep -> EpPipe] /\ \A e \in Ep : Good(pipe[e])
  BY EnvironmentIsTyped DEF EpSafe, EpShape
<1>5. UNCHANGED <<port, gone, acts, pendingEps, sem, inflight, task, dmn, env>>
      /\ claimed' = TRUE
  BY DEF Claim, fixed
<1>6. BooksOK'
  <2>1. wrap' \in [Ep -> [pending : BOOLEAN, count : Int, last : {"done", "error"}]]
    BY DEF Claim, NoWrap
  <2> QED BY <1>5, <2>1, TypesStay DEF EpSafe, EpShape, BooksOK
<1>7. SamePipes
  <2>1. \A e \in Eps : ~Alive(e) BY DEF EpSafe, AllocatedAreClaimed, Claim
  <2>2. \A e \in Eps : Held(pipe[e]) = <<>>
    BY <1>4, <2>1 DEF Alive, Good, Sound
  <2>3. \A f \in Ep : pipe'[f] = IF f \in Eps THEN n ELSE pipe[f] BY <1>2
  <2>4. \A f \in Ep : Good(pipe'[f]) /\ Held(pipe'[f]) = Held(pipe[f])
    BY <1>3, <1>4, <2>2, <2>3
  <2>5. \A f \in Ep : Queue(f) = Held(pipe[f]) /\ Queue(f)' = Held(pipe'[f])
    BY DEF Queue, Held
  <2>6. pipe' \in [Ep -> EpPipe] BY <1>2, <1>3, <1>4
  <2> QED BY <2>4, <2>5, <2>6 DEF SamePipes
<1>8. AllocatedAreClaimed'
  <2>1. Api'.at = "idle" /\ ~Walking' BY <1>5 DEF Claim, Api, Walking
  <2> QED BY <1>5, <2>1, TypesStay DEF AllocatedAreClaimed
<1>9. task' = [task EXCEPT !["api"] = Api] /\ Api \in TaskType /\ Api.at = "idle"
      /\ "api" \in Worker /\ TaskKnows("api", Api)
  BY <1>5 DEF Claim, Api, EpSafe, EpShape, AllKnow, Worker
<1> QED BY <1>5, <1>6, <1>7, <1>8, <1>9, TaskStepKeeps

-----------------------------------------------------------------------------
(* Submitting *)

\* A step of a client's task, whatever it does with transfers
LEMMA TaskStepTyped ==
    ASSUME EpSafe, NEW t \in Worker, NEW r \in TaskType, task' = [task EXCEPT ![t] = r],
           TaskKnows(t, r), UNCHANGED <<dmn, env>>, BooksOK', inflight' \subseteq Urb,
           pipe' \in [Ep -> EpPipe], \A f \in Ep : Good(pipe'[f]), SameAlive,
           UNCHANGED claimed, t = "api" => r.at # "free", UrbsAreOnce'
    PROVE  EpSafe'
<1>1. /\ task' \in [Worker -> TaskType] /\ task'[t] = r
      /\ \A s \in Worker \ {t} : task'[s] = task[s]
  BY TaskMoves
<1>2. EpShape' BY <1>1, TypesStay DEF EpSafe, EpShape
<1>3. AllKnow' BY <1>1 DEF EpSafe, AllKnow
<1>4. AllocatedAreClaimed'
  <2>1. \A e \in Eps : e \in Ep BY EnvironmentIsTyped DEF EpSafe
  <2>2. \A e \in Eps : Alive(e)' => claimed'
    BY <2>1 DEF EpSafe, SameAlive, AllocatedAreClaimed
  <2>3. \A e \in Eps : Alive(e)' /\ Api'.at = "free" => e \in Api'.left
    BY <1>1, <2>1 DEF EpSafe, SameAlive, AllocatedAreClaimed, Api, Worker
  <2>4. Walking' => \A e \in dmn'.left : Alive(e)'
    BY <2>1 DEF EpSafe, EpShape, DaemonType, SameAlive, AllocatedAreClaimed, Walking
  <2> QED BY <2>2, <2>3, <2>4, TypesStay DEF AllocatedAreClaimed
<1>5. (\A e \in Ep : Good(pipe[e]))' BY DEF Good, Sound, Held, Full
<1> QED BY <1>2, <1>3, <1>4, <1>5 DEF EpSafe

\* SubmitCount leaves in the pipes what is in them.
LEMMA SubmitCountSafe ==
    ASSUME EpSafe, NEW t \in Worker, NEW u \in Urbs, NEW e \in Eps, SubmitCount(t, u, e)
    PROVE  EpSafe' /\ SamePipes
<1> DEFINE r == [task[t] EXCEPT !.at = "check", !.urb = u, !.to = e]
<1>1. /\ task[t] \in TaskType /\ e \in Ep /\ e # NoEp /\ u \in Urb /\ u # NoUrb
      /\ u \notin inflight /\ inflight' = inflight \cup {u} /\ inflight \subseteq Urb
      /\ UNCHANGED <<port, gone, acts, claimed, pipe, pendingEps, sem, dmn, env>>
      /\ task' = [task EXCEPT ![t] = r]
  BY EnvironmentIsTyped DEF EpSafe, EpShape, SubmitCount, fixed
<1>2. r \in TaskType /\ r.at = "check" /\ r.urb = u /\ r.to = e /\ r.ep = task[t].ep
  BY <1>1 DEF TaskType
<1> HIDE DEF r
<1>3. BooksOK'
  <2>1. wrap' \in [Ep -> [pending : BOOLEAN, count : Int, last : {"done", "error"}]]
    <3>1. PICK c \in Int : c = wrap[e].count + 1
      BY <1>1 DEF EpSafe, EpShape, BooksOK
    <3>2. wrap' = [wrap EXCEPT ![e].count = c]
      BY <1>1, <3>1 DEF SubmitCount, EpSafe, EpShape, BooksOK
    <3> QED BY <1>1, <3>2 DEF EpSafe, EpShape, BooksOK
  <2> QED BY <1>1, <2>1, TypesStay DEF EpSafe, EpShape, BooksOK
<1>4. TaskKnows(t, r)
  <2>1. t = "handler" => task[t].ep # NoEp
    BY DEF SubmitCount, EpSafe, AllKnow, TaskKnows, Handler
  <2> QED BY <1>1, <1>2, <2>1 DEF TaskKnows
<1>5. SamePipes /\ SameAlive BY <1>1, PipesUnchanged
<1>6. UrbsAreOnce'
  <2>1. /\ task'[t] = r /\ \A s \in Worker \ {t} : task'[s] = task[s]
    BY <1>1, <1>2, TaskMoves
  <2>2. UrbsAreOnce /\ \A f \in Ep : Queue(f)' = Queue(f)
    BY <1>5 DEF EpSafe, SamePipes
  <2>3. \A f \in Ep : \A i \in DOMAIN Queue(f)' : Queue(f)'[i] \in inflight'
    BY <1>1, <2>2 DEF UrbsAreOnce
  <2>4. \A f, g \in Ep : \A i \in DOMAIN Queue(f)', j \in DOMAIN Queue(g)' :
           Queue(f)'[i] = Queue(g)'[j] => f = g /\ i = j
    BY <2>2 DEF UrbsAreOnce
  <2>5. \A s \in Worker : Enqueuing(s)' =>
           task'[s].urb \in inflight' /\ \A f \in Ep : ~In(task[s].urb, Queue(f))'
    BY <1>1, <1>2, <2>1, <2>2 DEF UrbsAreOnce, Enqueuing, In
  <2>6. Enqueuing("handler")' /\ Enqueuing("api")' => Handler'.urb # Api'.urb
    BY <1>1, <1>2, <2>1, <2>2 DEF UrbsAreOnce, Enqueuing, Handler, Api, Worker
  <2> QED BY <2>3, <2>4, <2>5, <2>6 DEF UrbsAreOnce
<1>7. inflight' \subseteq Urb BY <1>1
<1> QED BY <1>1, <1>2, <1>3, <1>4, <1>5, <1>6, <1>7, TaskStepTyped DEF SamePipes

\* Transfers stay where they are, but for one that is put into a queue.
LEMMA OnceAccepted ==
    ASSUME EpSafe, NEW t \in Worker, NEW e \in Ep, NEW u, Enqueuing(t), task[t].urb = u,
           Queue(e) \in Seq(Urb), Queue(e)' = Append(Queue(e), u),
           \A f \in Ep \ {e} : Queue(f)' = Queue(f), inflight' = inflight,
           ~Enqueuing(t)', \A s \in Worker \ {t} : task'[s] = task[s]
    PROVE  UrbsAreOnce'
<1>1. /\ UrbsAreOnce /\ u \in inflight /\ \A f \in Ep : ~In(u, Queue(f))
  BY DEF EpSafe, UrbsAreOnce
<1>2. PICK q \in Seq(Urb) : q = Queue(e) OBVIOUS
<1>3. PICK m \in Nat : m = Len(q) /\ DOMAIN q = 1..m OBVIOUS
<1>4. /\ DOMAIN Queue(e)' = 1..m + 1 /\ Queue(e)'[m + 1] = u
      /\ \A i \in 1..m : Queue(e)'[i] = Queue(e)[i]
  BY <1>2, <1>3
<1>5. DOMAIN Queue(e) = 1..m /\ \A i \in 1..m : i \in 1..m + 1 BY <1>2, <1>3
<1>6. \A i \in DOMAIN Queue(e)' : i = m + 1 \/ i \in DOMAIN Queue(e)
  BY <1>3, <1>4, <1>5
<1>7. \A f \in Ep : \A i \in DOMAIN Queue(f)' :
         \/ i \in DOMAIN Queue(f) /\ Queue(f)'[i] = Queue(f)[i]
         \/ f = e /\ i = m + 1 /\ Queue(f)'[i] = u
  BY <1>4, <1>5, <1>6
<1>8. \A f \in Ep : \A i \in DOMAIN Queue(f)' : Queue(f)'[i] \in inflight'
  BY <1>1, <1>7 DEF UrbsAreOnce
<1>9. \A f \in Ep : \A i \in DOMAIN Queue(f) : Queue(f)[i] # u
  BY <1>1 DEF In
<1>10. \A f, g \in Ep : \A i \in DOMAIN Queue(f)', j \in DOMAIN Queue(g)' :
          Queue(f)'[i] = Queue(g)'[j] => f = g /\ i = j
  <2> SUFFICES ASSUME NEW f \in Ep, NEW g \in Ep, NEW i \in DOMAIN Queue(f)',
                      NEW j \in DOMAIN Queue(g)', Queue(f)'[i] = Queue(g)'[j]
               PROVE  f = g /\ i = j
    OBVIOUS
  <2>1. CASE i \in DOMAIN Queue(f) /\ Queue(f)'[i] = Queue(f)[i]
    <3>1. j \in DOMAIN Queue(g) /\ Queue(g)'[j] = Queue(g)[j]
      BY <1>7, <1>9, <2>1
    <3>2. Queue(f)[i] = Queue(g)[j] BY <2>1, <3>1
    <3> QED BY <1>1, <2>1, <3>1, <3>2 DEF UrbsAreOnce
  <2>2. CASE f = e /\ i = m + 1 /\ Queue(f)'[i] = u BY <1>7, <1>9, <2>2
  <2> QED BY <1>7, <2>1, <2>2
<1>11. \A s \in Worker : Enqueuing(s)' => s # t /\ Enqueuing(s) /\ task'[s] = task[s]
  BY DEF Enqueuing
<1>12. \A s \in Worker \ {t} : Enqueuing(s) => task[s].urb # u
  BY <1>1 DEF UrbsAreOnce, Worker, Handler, Api
<1>13. \A s \in Worker : Enqueuing(s)' =>
          task'[s].urb \in inflight' /\ \A f \in Ep : ~In(task[s].urb, Queue(f))'
  <2> SUFFICES ASSUME NEW s \in Worker, Enqueuing(s)', NEW f \in Ep, In(task[s].urb, Queue(f))'
               PROVE  FALSE
    BY <1>1, <1>11 DEF UrbsAreOnce
  <2>1. s # t /\ Enqueuing(s) /\ task'[s] = task[s] /\ task[s].urb # u
    BY <1>11, <1>12
  <2>2. PICK i \in DOMAIN Queue(f)' : Queue(f)'[i] = task[s].urb
    BY <2>1 DEF In
  <2>3. i \in DOMAIN Queue(f) /\ Queue(f)[i] = task[s].urb
    BY <1>7, <2>1, <2>2
  <2> QED BY <1>1, <2>1, <2>3 DEF UrbsAreOnce, In
<1>14. ~(Enqueuing("handler")' /\ Enqueuing("api")') BY <1>11 DEF Worker
<1> QED BY <1>8, <1>10, <1>13, <1>14 DEF UrbsAreOnce

\* Transfers stay where they are, but for one that is taken from its queue.
LEMMA OnceReturned ==
    ASSUME EpSafe, NEW e \in Ep, Queue(e) \in Seq(Urb), Queue(e) # <<>>,
           Queue(e)' = Tail(Queue(e)), \A f \in Ep \ {e} : Queue(f)' = Queue(f),
           inflight' = inflight \ {Head(Queue(e))},
           \A s \in Worker : Enqueuing(s)' => Enqueuing(s) /\ task'[s].urb = task[s].urb
    PROVE  UrbsAreOnce'
<1>1. UrbsAreOnce BY DEF EpSafe
<1>2. PICK q \in Seq(Urb) : q = Queue(e) /\ q # <<>> OBVIOUS
<1>3. PICK m \in Nat : m = Len(q) /\ DOMAIN q = 1..m /\ m >= 1 BY <1>2
<1>4. DOMAIN Queue(e)' = 1..m - 1 /\ \A i \in 1..m - 1 : Queue(e)'[i] = Queue(e)[i + 1]
  BY <1>2, <1>3
<1>5. DOMAIN Queue(e) = 1..m /\ Head(Queue(e)) = Queue(e)[1] /\ 1 \in 1..m
  BY <1>2, <1>3
<1>6. \A i \in 1..m - 1 : i + 1 \in 1..m /\ i + 1 # 1 BY <1>3
<1> DEFINE N(f, i) == IF f = e THEN i + 1 ELSE i
<1>7. \A f \in Ep : \A i \in DOMAIN Queue(f)' :
         N(f, i) \in DOMAIN Queue(f) /\ Queue(f)'[i] = Queue(f)[N(f, i)]
  BY <1>4, <1>5, <1>6
<1>8. \A f \in Ep : \A i \in DOMAIN Queue(f)' : f # e \/ N(f, i) # 1
  BY <1>4, <1>6
<1>9. \A f \in Ep : \A i, j \in DOMAIN Queue(f)' : N(f, i) = N(f, j) => i = j
  <2>1. \A i, j \in 1..m - 1 : i + 1 = j + 1 => i = j BY <1>3
  <2> QED BY <1>4, <2>1
<1> HIDE DEF N
<1>10. \A f \in Ep : \A i \in DOMAIN Queue(f)' : Queue(f)'[i] # Queue(e)[1]
  BY <1>1, <1>5, <1>7, <1>8 DEF UrbsAreOnce
<1>11. \A f \in Ep : \A i \in DOMAIN Queue(f)' : Queue(f)'[i] \in inflight'
  BY <1>1, <1>5, <1>7, <1>10 DEF UrbsAreOnce
<1>12. \A f, g \in Ep : \A i \in DOMAIN Queue(f)', j \in DOMAIN Queue(g)' :
          Queue(f)'[i] = Queue(g)'[j] => f = g /\ i = j
  BY <1>1, <1>7, <1>9 DEF UrbsAreOnce
<1>13. \A s \in Worker : Enqueuing(s)' =>
          task'[s].urb \in inflight' /\ \A f \in Ep : ~In(task[s].urb, Queue(f))'
  <2> SUFFICES ASSUME NEW s \in Worker, Enqueuing(s)'
               PROVE  task'[s].urb \in inflight' /\ \A f \in Ep : ~In(task[s].urb, Queue(f))'
    OBVIOUS
  <2>1. /\ Enqueuing(s) /\ task'[s].urb = task[s].urb /\ task[s].urb \in inflight
        /\ \A f \in Ep : \A i \in DOMAIN Queue(f) : Queue(f)[i] # task[s].urb
    BY <1>1 DEF UrbsAreOnce, In
  <2>2. task'[s].urb \in inflight' BY <1>5, <2>1
  <2>3. \A f \in Ep : \A i \in DOMAIN Queue(f)' : Queue(f)'[i] # task'[s].urb
    BY <1>7, <2>1
  <2> QED BY <2>2, <2>3 DEF In
<1>14. Enqueuing("handler")' /\ Enqueuing("api")' => Handler'.urb # Api'.urb
  BY <1>1 DEF UrbsAreOnce, Handler, Api, Worker
<1> QED BY <1>11, <1>12, <1>13, <1>14 DEF UrbsAreOnce

\* Transfers stay where they are, but for one that is not accepted.
LEMMA OnceRefused ==
    ASSUME EpSafe, NEW t \in Worker, Enqueuing(t), \A f \in Ep : Queue(f)' = Queue(f),
           inflight' = inflight \ {task[t].urb},
           ~Enqueuing(t)', \A s \in Worker \ {t} : task'[s] = task[s]
    PROVE  UrbsAreOnce'
<1>1. UrbsAreOnce /\ \A f \in Ep : ~In(task[t].urb, Queue(f))
  BY DEF EpSafe, UrbsAreOnce
<1>2. \A f \in Ep : \A i \in DOMAIN Queue(f)' : Queue(f)'[i] \in inflight'
  BY <1>1 DEF UrbsAreOnce, In
<1>3. \A f, g \in Ep : \A i \in DOMAIN Queue(f)', j \in DOMAIN Queue(g)' :
         Queue(f)'[i] = Queue(g)'[j] => f = g /\ i = j
  BY <1>1 DEF UrbsAreOnce
<1>4. \A s \in Worker : Enqueuing(s)' => s # t /\ Enqueuing(s) /\ task'[s] = task[s]
  BY DEF Enqueuing
<1>5. \A s \in Worker \ {t} : Enqueuing(s) => task[s].urb # task[t].urb
  BY <1>1 DEF UrbsAreOnce, Worker, Handler, Api
<1>6. \A s \in Worker : Enqueuing(s)' =>
         task'[s].urb \in inflight' /\ \A f \in Ep : ~In(task[s].urb, Queue(f))'
  BY <1>1, <1>4, <1>5 DEF UrbsAreOnce, In
<1>7. ~(Enqueuing("handler")' /\ Enqueuing("api")') BY <1>4 DEF Worker
<1> QED BY <1>2, <1>3, <1>6, <1>7 DEF UrbsAreOnce

-----------------------------------------------------------------------------
(* Enqueuing and dequeuing *)

\* What becomes of the pipes when one of them is replaced by a good one
LEMMA PipeReplaced ==
    ASSUME EpSafe, NEW e \in Ep, NEW p, Good(p), pipe' = [pipe EXCEPT ![e] = p],
           p.state = "none" <=> pipe[e].state = "none"
    PROVE  /\ pipe' \in [Ep -> EpPipe] /\ (\A f \in Ep : Good(pipe'[f])) /\ SameAlive
           /\ pipe'[e] = p /\ \A f \in Ep \ {e} : pipe'[f] = pipe[f]
           /\ Queue(e)' = Held(p) /\ \A f \in Ep \ {e} : Queue(f)' = Queue(f)
<1>1. pipe \in [Ep -> EpPipe] /\ \A f \in Ep : Good(pipe[f])
  BY DEF EpSafe, EpShape
<1>2. p \in EpPipe BY DEF Good, Sound
<1>3. pipe'[e] = p /\ \A f \in Ep \ {e} : pipe'[f] = pipe[f] BY <1>1
<1>4. \A f \in Ep : Queue(f) = Held(pipe[f]) /\ Queue(f)' = Held(pipe'[f])
  BY DEF Queue, Held
<1>5. \A f \in Ep : Good(pipe'[f]) BY <1>1, <1>3
<1>6. SameAlive BY <1>3 DEF Alive, SameAlive
<1>7. pipe' \in [Ep -> EpPipe] BY <1>1, <1>2
<1> QED BY <1>3, <1>4, <1>5, <1>6, <1>7

\* A submission goes from one place to the next, or comes to its end.
SubmitMoves(t) ==
    /\ Enqueuing(t) /\ \E a \in {"resume", "enqueue"} : task' = [task EXCEPT ![t].at = a]
    /\ acts' \in {acts, acts \cup {"resume_port"}}
    /\ UNCHANGED <<port, gone, claimed, pipe, wrap, pendingEps, sem, inflight, dmn, fixed>>

SubmitFails(t) ==
    /\ task[t].at = "resume" /\ SubmitErr(t)
    /\ UNCHANGED <<port, gone, acts, claimed, pipe, pendingEps, sem, dmn, fixed>>

SubmitCloses(t) == SubmitEnqueue(t) \/ SubmitFails(t)

LEMMA SubmitSteps ==
    ASSUME NEW t, SubmitGoesOn(t)
    PROVE  SubmitMoves(t) \/ SubmitCloses(t)
BY DEF SubmitGoesOn, SubmitCheck, SubmitResume, SubmitMoves, SubmitFails, SubmitCloses, Enqueuing

\* A transfer that is enqueued is the last of its endpoint, or in no queue any more.
LEMMA EnqueueIs ==
    ASSUME EpSafe, NEW t \in Worker, SubmitCloses(t)
    PROVE  /\ Enqueuing(t) /\ pipe' \in [Ep -> EpPipe] /\ (\A f \in Ep : Good(pipe'[f]))
           /\ SameAlive
           /\ \E e \in Ep, u \in Urb :
                 /\ e = task[t].to /\ u = task[t].urb
                 /\ \/ /\ Queue(e) \in Seq(Urb) /\ Queue(e)' = Append(Queue(e), u)
                       /\ \A f \in Ep \ {e} : Queue(f)' = Queue(f)
                       /\ inflight' = inflight /\ wrap' = wrap
                    \/ /\ \A f \in Ep : Queue(f)' = Queue(f)
                       /\ inflight' = inflight \ {u}
                       /\ wrap' = [wrap EXCEPT ![e].count = @ - 1]
<1>1. PICK e \in Ep, u \in Urb : e = task[t].to /\ u = task[t].urb
  BY EnvironmentIsTyped
     DEF EpSafe, EpShape, AllKnow, TaskKnows, SubmitCloses, SubmitEnqueue, SubmitFails, TaskType,
         Enqueuing
<1>2. PICK p : p = pipe[e] OBVIOUS
<1>3. Enqueuing(t) /\ Good(p) /\ pipe \in [Ep -> EpPipe]
  BY <1>1, <1>2 DEF EpSafe, EpShape, SubmitCloses, SubmitEnqueue, SubmitFails, Enqueuing
<1>4. CASE SubmitEnqueue(t) /\ (Submits(p) \/ Defers(p))
  <2>1. PICK s \in BOOLEAN : s = Submits(p) BY DEF Submits
  <2>2. p.state = IF s THEN "active" ELSE "halted"
    BY <1>4, <2>1 DEF Submits, Defers
  <2>3. PICK f : f = Accepted(p, u, s) OBVIOUS
  <2>4. /\ Good(f) /\ Held(f) = Append(Held(p), u) /\ Held(p) \in Seq(Urb)
        /\ f.state = p.state
    BY <1>3, <2>2, <2>3, AcceptedAppends
  <2>5. pipe' = [pipe EXCEPT ![e] = f] /\ inflight' = inflight /\ wrap' = wrap
    BY <1>1, <1>2, <1>4, <2>1, <2>3 DEF SubmitEnqueue
  <2>6. Queue(e) = Held(p) BY <1>2 DEF Queue, Held
  <2>7. /\ pipe' \in [Ep -> EpPipe] /\ (\A g \in Ep : Good(pipe'[g])) /\ SameAlive
        /\ Queue(e)' = Held(f) /\ \A g \in Ep \ {e} : Queue(g)' = Queue(g)
    BY <1>2, <2>4, <2>5, PipeReplaced
  <2> QED BY <1>1, <1>3, <2>4, <2>5, <2>6, <2>7
<1>5. CASE SubmitFails(t) \/ ~(Submits(p) \/ Defers(p))
  <2>1. pipe' = pipe /\ inflight' = inflight \ {u} /\ wrap' = [wrap EXCEPT ![e].count = @ - 1]
    BY <1>1, <1>2, <1>5 DEF SubmitCloses, SubmitEnqueue, SubmitFails, SubmitErr
  <2>2. SamePipes /\ SameAlive BY <2>1, PipesUnchanged
  <2> QED BY <1>1, <1>3, <2>1, <2>2 DEF SamePipes
<1> QED BY <1>4, <1>5 DEF SubmitCloses

\* The end of a submission leaves in the pipes what is in them.
LEMMA SubmitClosesSafe ==
    ASSUME EpSafe, NEW t \in Worker, SubmitCloses(t) PROVE EpSafe'
<1> DEFINE s == IF t = "handler" THEN "dequeue" ELSE "idle"
           v == IF t = "api" THEN NoUrb ELSE task[t].urb
           r == [task[t] EXCEPT !.at = s, !.to = NoEp, !.urb = v]
<1>1. PICK e \in Ep, u \in Urb :
         /\ e = task[t].to /\ u = task[t].urb
         /\ \/ /\ Queue(e) \in Seq(Urb) /\ Queue(e)' = Append(Queue(e), u)
               /\ \A f \in Ep \ {e} : Queue(f)' = Queue(f)
               /\ inflight' = inflight /\ wrap' = wrap
            \/ /\ \A f \in Ep : Queue(f)' = Queue(f)
               /\ inflight' = inflight \ {u}
               /\ wrap' = [wrap EXCEPT ![e].count = @ - 1]
  BY EnqueueIs
<1>2. /\ task[t] \in TaskType /\ Enqueuing(t)
      /\ UNCHANGED <<port, gone, claimed, pendingEps, sem, dmn, env>>
      /\ inflight \subseteq Urb /\ (t = "handler" => task[t].ep # NoEp)
  BY EnqueueIs DEF EpSafe, EpShape, AllKnow, TaskKnows, SubmitCloses, SubmitEnqueue, SubmitFails,
                   fixed, Enqueuing
<1>3. task' = [task EXCEPT ![t] = r]
  BY <1>2 DEF SubmitCloses, SubmitEnqueue, SubmitFails, SubmitErr, SubmitEnds, After, TaskType
<1>4. /\ r \in TaskType /\ r.at = s /\ r.ep = task[t].ep
      /\ s \in {"dequeue", "idle"} /\ (s = "dequeue" => t = "handler")
  BY <1>2 DEF TaskType
<1> HIDE DEF r, s, v
<1>5. TaskKnows(t, r) BY <1>2, <1>4 DEF TaskKnows
<1>6. BooksOK'
  <2>1. wrap' \in [Ep -> [pending : BOOLEAN, count : Int, last : {"done", "error"}]]
    <3>1. PICK c \in Int : c = wrap[e].count - 1
      BY DEF EpSafe, EpShape, BooksOK
    <3>2. wrap' = wrap \/ wrap' = [wrap EXCEPT ![e].count = c]
      BY <1>1, <3>1 DEF EpSafe, EpShape, BooksOK
    <3> QED BY <3>2, ZenonT(60) DEF EpSafe, EpShape, BooksOK
  <2>2. acts' \subseteq {"gone", "suspend", "resume", "resume_port"}
    BY DEF SubmitCloses, SubmitEnqueue, SubmitFails, EpSafe, EpShape, BooksOK
  <2> QED BY <1>2, <2>1, <2>2, TypesStay DEF EpSafe, EpShape, BooksOK
<1>7. ~Enqueuing(t)' /\ \A w \in Worker \ {t} : task'[w] = task[w]
  BY <1>3, <1>4, TaskMoves DEF Enqueuing
<1>8. UrbsAreOnce' /\ inflight' \subseteq Urb
  <2>1. CASE /\ Queue(e) \in Seq(Urb) /\ Queue(e)' = Append(Queue(e), u)
             /\ \A f \in Ep \ {e} : Queue(f)' = Queue(f)
             /\ inflight' = inflight
    BY <1>1, <1>2, <1>7, <2>1, OnceAccepted
  <2>2. CASE (\A f \in Ep : Queue(f)' = Queue(f)) /\ inflight' = inflight \ {u}
    BY <1>1, <1>2, <1>7, <2>2, OnceRefused
  <2> QED BY <1>1, <2>1, <2>2
<1>9. pipe' \in [Ep -> EpPipe] /\ (\A f \in Ep : Good(pipe'[f])) /\ SameAlive
  BY EnqueueIs
<1> QED BY <1>2, <1>3, <1>4, <1>5, <1>6, <1>8, <1>9, TaskStepTyped

\* So does a submission that goes on.
LEMMA SubmitMovesSafe ==
    ASSUME EpSafe, NEW t \in Worker, SubmitMoves(t) PROVE EpSafe' /\ SamePipes
<1>1. PICK a \in {"resume", "enqueue"} : task' = [task EXCEPT ![t].at = a]
  BY DEF SubmitMoves
<1>2. PICK r : r = [task[t] EXCEPT !.at = a] OBVIOUS
<1>3. task[t] \in TaskType /\ TaskKnows(t, task[t]) /\ Enqueuing(t) /\ t \in DOMAIN task
  BY DEF EpSafe, EpShape, AllKnow, SubmitMoves
<1>4. /\ r \in TaskType /\ r.at = a /\ r.urb = task[t].urb /\ r.ep = task[t].ep
      /\ r.to = task[t].to /\ task' = [task EXCEPT ![t] = r]
  BY <1>1, <1>2, <1>3 DEF TaskType
<1>5. TaskKnows(t, r) BY <1>3, <1>4 DEF TaskKnows, Enqueuing
<1>6. UNCHANGED <<inflight, dmn, claimed, env>> /\ BooksOK'
  BY TypesStay DEF SubmitMoves, fixed, EpSafe, EpShape, BooksOK
<1>7. SamePipes /\ SameAlive BY PipesUnchanged DEF SubmitMoves
<1> QED BY <1>3, <1>4, <1>5, <1>6, <1>7, TaskStepSafe

LEMMA SubmitGoesOnSafe ==
    ASSUME EpSafe, NEW t \in Worker, SubmitGoesOn(t) PROVE EpSafe'
BY SubmitSteps, SubmitClosesSafe, SubmitMovesSafe

\* A transfer that the handler takes is the first of its endpoint.
LEMMA DequeueIs ==
    ASSUME EpSafe, HandlerDequeue
    PROVE  \E e \in Ep : /\ e = Handler.ep /\ e # NoEp
           /\ \/ /\ pipe' = pipe /\ inflight' = inflight /\ pipe[e].done = <<>>
                 /\ task' = [task EXCEPT !["handler"] = [Handler EXCEPT !.at = "count"]]
              \/ \E u \in Urb :
                 /\ pipe[e].done # <<>> /\ Queue(e) \in Seq(Urb) /\ Queue(e) # <<>>
                 /\ Queue(e)' = Tail(Queue(e)) /\ u = Head(Queue(e))
                 /\ \A f \in Ep \ {e} : Queue(f)' = Queue(f)
                 /\ inflight' = inflight \ {u}
                 /\ task' = [task EXCEPT !["handler"] =
                               [Handler EXCEPT !.at = "callback", !.n = @ + 1, !.urb = u]]
                 /\ pipe' = [pipe EXCEPT ![e] = Dequeued(pipe[e])]
                 /\ pipe' \in [Ep -> EpPipe] /\ (\A f \in Ep : Good(pipe'[f])) /\ SameAlive
<1>1. PICK e \in Ep : e = Handler.ep /\ e # NoEp
  BY EnvironmentIsTyped
     DEF EpSafe, EpShape, AllKnow, TaskKnows, HandlerDequeue, TaskType, Handler, Worker
<1>2. PICK p : p = pipe[e] OBVIOUS
<1>3. Good(p) BY <1>1, <1>2 DEF EpSafe
<1>4. CASE p.done = <<>> BY <1>1, <1>2, <1>4 DEF HandlerDequeue, At, Handler
<1>5. CASE p.done # <<>>
  <2>1. PICK f : f = Dequeued(p) OBVIOUS
  <2>2. /\ Good(f) /\ Held(p) \in Seq(Urb) /\ Held(p) # <<>> /\ Held(f) = Tail(Held(p))
        /\ p.state # "none" /\ f.state = p.state
        /\ Head(p.done) = Head(Held(p)) /\ Head(p.done) \in Urb
    BY <1>3, <1>5, <2>1, DequeuedTakes
  <2>3. PICK u \in Urb : u = Head(p.done) BY <2>2
  <2>4. Queue(e) = Held(p) BY <1>2 DEF Queue, Held
  <2>5. pipe' = [pipe EXCEPT ![e] = f] /\ inflight' = inflight \ {u}
    BY <1>1, <1>2, <1>5, <2>1, <2>3 DEF HandlerDequeue, Handler
  <2>6. task' = [task EXCEPT !["handler"] =
                   [Handler EXCEPT !.at = "callback", !.n = @ + 1, !.urb = u]]
    <3>1. pipe[Handler.ep].done # <<>> /\ Head(pipe[Handler.ep].done) = u
      BY <1>1, <1>2, <1>5, <2>3
    <3> QED BY <3>1 DEF HandlerDequeue, Handler
  <2>7. /\ pipe' \in [Ep -> EpPipe] /\ (\A g \in Ep : Good(pipe'[g])) /\ SameAlive
        /\ Queue(e)' = Held(f) /\ \A g \in Ep \ {e} : Queue(g)' = Queue(g)
    BY <1>2, <2>2, <2>5, PipeReplaced
  <2> QED BY <1>1, <1>2, <1>5, <2>1, <2>2, <2>3, <2>4, <2>5, <2>6, <2>7
<1> QED BY <1>4, <1>5

\* HandlerDequeue leaves in the pipes what is in them.
LEMMA HandlerDequeueSafe == ASSUME EpSafe, HandlerDequeue PROVE EpSafe'
<1>1. PICK e \in Ep : /\ e = Handler.ep /\ e # NoEp
           /\ \/ /\ pipe' = pipe /\ inflight' = inflight /\ pipe[e].done = <<>>
                 /\ task' = [task EXCEPT !["handler"] = [Handler EXCEPT !.at = "count"]]
              \/ \E u \in Urb :
                 /\ pipe[e].done # <<>> /\ Queue(e) \in Seq(Urb) /\ Queue(e) # <<>>
                 /\ Queue(e)' = Tail(Queue(e)) /\ u = Head(Queue(e))
                 /\ \A f \in Ep \ {e} : Queue(f)' = Queue(f)
                 /\ inflight' = inflight \ {u}
                 /\ task' = [task EXCEPT !["handler"] =
                               [Handler EXCEPT !.at = "callback", !.n = @ + 1, !.urb = u]]
                 /\ pipe' = [pipe EXCEPT ![e] = Dequeued(pipe[e])]
                 /\ pipe' \in [Ep -> EpPipe] /\ (\A f \in Ep : Good(pipe'[f])) /\ SameAlive
  BY DequeueIs
<1>2. /\ Handler \in TaskType /\ Handler = task["handler"] /\ "handler" \in Worker
      /\ UNCHANGED <<port, gone, acts, claimed, wrap, pendingEps, sem, dmn, env>>
      /\ inflight \subseteq Urb /\ Handler.at = "dequeue"
  BY DEF HandlerDequeue, fixed, Handler, Worker, EpSafe, EpShape
<1>3. BooksOK' BY <1>2, BooksUnchanged
<1>4. CASE pipe' = pipe /\ inflight' = inflight
           /\ task' = [task EXCEPT !["handler"] = [Handler EXCEPT !.at = "count"]]
  <2> DEFINE r == [Handler EXCEPT !.at = "count"]
  <2>1. r \in TaskType /\ r.at = "count" /\ r.ep = Handler.ep
    BY <1>2 DEF TaskType
  <2>2. task' = [task EXCEPT !["handler"] = r] BY <1>4
  <2> HIDE DEF r
  <2>3. TaskKnows("handler", r) BY <1>1, <1>2, <2>1 DEF TaskKnows
  <2> QED BY <1>2, <1>3, <1>4, <2>1, <2>2, <2>3, PipesUnchanged, TaskStepSafe
<1>5. CASE pipe[e].done # <<>>
  <2>1. PICK u \in Urb :
           /\ Queue(e) \in Seq(Urb) /\ Queue(e) # <<>>
           /\ Queue(e)' = Tail(Queue(e)) /\ u = Head(Queue(e))
           /\ \A f \in Ep \ {e} : Queue(f)' = Queue(f)
           /\ inflight' = inflight \ {u}
           /\ task' = [task EXCEPT !["handler"] =
                         [Handler EXCEPT !.at = "callback", !.n = @ + 1, !.urb = u]]
           /\ pipe' \in [Ep -> EpPipe] /\ (\A f \in Ep : Good(pipe'[f])) /\ SameAlive
    BY <1>1, <1>5
  <2>2. PICK n \in Nat : n = Handler.n + 1 BY <1>2 DEF TaskType
  <2> DEFINE r == [Handler EXCEPT !.at = "callback", !.n = n, !.urb = u]
  <2>3. /\ r \in TaskType /\ r.at = "callback" /\ r.ep = Handler.ep /\ r.urb = u
    BY <1>2 DEF TaskType
  <2>4. task' = [task EXCEPT !["handler"] = r] BY <2>1, <2>2
  <2> HIDE DEF r
  <2>5. TaskKnows("handler", r)
    BY <1>1, <1>2, <2>1, <2>3, NamesDiffer DEF TaskKnows
  <2>6. \A s \in Worker : Enqueuing(s)' => Enqueuing(s) /\ task'[s].urb = task[s].urb
    BY <1>2, <2>3, <2>4, TaskMoves DEF Enqueuing
  <2>7. UrbsAreOnce' BY <2>1, <2>6, OnceReturned
  <2>8. inflight' \subseteq Urb BY <1>2, <2>1
  <2> QED BY <1>2, <1>3, <2>1, <2>3, <2>4, <2>5, <2>7, <2>8, TaskStepTyped
<1> QED BY <1>1, <1>4, <1>5

-----------------------------------------------------------------------------
(* The daemon, the channels and the theorem *)

\* What a halt and the end of a command make of a pipe, and of one that failed
LEMMA HaltingKeeps ==
    ASSUME NEW p, Good(p), p.state # "none"
    PROVE  LET f == [p EXCEPT !.state = "halted", !.cmd = FALSE]
           IN  /\ Good(f) /\ Held(f) = Held(p) /\ f.state = "halted" /\ f.done = p.done
               /\ f.waiter = p.waiter /\ f.cmd = FALSE
<1> DEFINE f == [p EXCEPT !.state = "halted", !.cmd = FALSE]
<1>1. /\ f \in EpPipe /\ f.state = "halted" /\ f.buf = p.buf /\ f.pend = p.pend /\ f.done = p.done
      /\ f.exec = p.exec /\ f.waiter = p.waiter /\ f.cmd = FALSE /\ f.hasUrb = p.hasUrb
  BY DEF EpPipe, Good, Sound
<1> HIDE DEF f
<1>2. Good(f) /\ Held(f) = Held(p) BY <1>1 DEF Good, Sound, Held
<1> QED BY <1>1, <1>2 DEF f

\* A command that ends leaves the pipe as it is.
LEMMA EndingKeeps ==
    ASSUME NEW p, Good(p)
    PROVE  LET f == [p EXCEPT !.cmd = FALSE]
           IN  /\ Good(f) /\ Held(f) = Held(p) /\ f.state = p.state /\ f.done = p.done
               /\ f.waiter = p.waiter /\ f.cmd = FALSE
<1> DEFINE f == [p EXCEPT !.cmd = FALSE]
<1>1. /\ f \in EpPipe /\ f.state = p.state /\ f.buf = p.buf /\ f.pend = p.pend /\ f.done = p.done
      /\ f.exec = p.exec /\ f.waiter = p.waiter /\ f.cmd = FALSE /\ f.hasUrb = p.hasUrb
  BY DEF EpPipe, Good, Sound
<1> HIDE DEF f
<1>2. Good(f) /\ Held(f) = Held(p) BY <1>1 DEF Good, Sound, Held, Full
<1> QED BY <1>1, <1>2 DEF f

\* An error halts the pipe; its buffer is done.
LEMMA FailingKeeps ==
    ASSUME NEW p, Sound(p), p.buf # <<>>
    PROVE  LET f == [HeadDone(p) EXCEPT !.state = "halted"]
               g == [HeadDone(p) EXCEPT !.state = "halted", !.waiter = "none"]
           IN  /\ Good(f) /\ Held(f) = Held(p) /\ f.state = "halted" /\ f.done # <<>>
               /\ f.waiter = p.waiter
               /\ Good(g) /\ Held(g) = Held(p) /\ g.state = "halted" /\ g.done # <<>>
               /\ g.waiter = "none" /\ p.state # "none"
<1> DEFINE h == HeadDone(p)
           f == [h EXCEPT !.state = "halted"]
           g == [h EXCEPT !.state = "halted", !.waiter = "none"]
<1>1. /\ Sound(h) /\ Held(h) = Held(p) /\ p.state # "none" /\ h.state = p.state
      /\ h.done # <<>> /\ h.waiter = p.waiter
  BY HeadDoneKeeps
<1> HIDE DEF h
<1>2. /\ f \in EpPipe /\ f.state = "halted" /\ f.buf = h.buf /\ f.pend = h.pend /\ f.done = h.done
      /\ f.exec = h.exec /\ f.waiter = h.waiter /\ f.hasUrb = h.hasUrb
  BY <1>1 DEF EpPipe, Sound
<1>3. /\ g \in EpPipe /\ g.state = "halted" /\ g.buf = h.buf /\ g.pend = h.pend /\ g.done = h.done
      /\ g.exec = h.exec /\ g.waiter = "none" /\ g.hasUrb = h.hasUrb
  BY <1>1 DEF EpPipe, Sound
<1> HIDE DEF f, g
<1>4. Good(f) /\ Held(f) = Held(p) BY <1>1, <1>2 DEF Good, Sound, Held
<1>5. Good(g) /\ Held(g) = Held(p) BY <1>1, <1>3 DEF Good, Sound, Held
<1> QED BY <1>1, <1>2, <1>3, <1>4, <1>5 DEF f, g, h

\* What is known of the daemon and the endpoints it has left
LEMMA DaemonKnown ==
    ASSUME EpSafe
    PROVE  /\ dmn \in DaemonType /\ DaemonKnows(dmn)
           /\ Walking => \A e \in dmn.left : Alive(e)
           /\ dmn.at \in {"wait", "flush", "notify"} => dmn.ep \in Eps /\ dmn.ep \in Ep
BY EnvironmentIsTyped
   DEF EpSafe, EpShape, AllKnow, AllocatedAreClaimed, DaemonKnows, DaemonType

\* Unplug leaves in the pipes what is in them.
LEMMA UnplugSafe == ASSUME EpSafe, Unplug PROVE EpSafe' /\ SamePipes
<1>1. UNCHANGED <<claimed, pipe, wrap, pendingEps, sem, inflight, task, dmn, env>>
  BY DEF Unplug, fixed
<1>2. BooksOK' BY <1>1, TypesStay DEF Unplug, EpSafe, EpShape, BooksOK
<1>3. /\ dmn' \in DaemonType /\ DaemonKnows(dmn')
      /\ (Walking' => \A e \in dmn'.left : Alive(e))
  BY <1>1, DaemonKnown DEF Walking
<1> QED BY <1>1, <1>2, <1>3, PipesUnchanged, DaemonStepSafe

\* AskSuspend leaves in the pipes what is in them.
LEMMA AskSuspendSafe == ASSUME EpSafe, AskSuspend PROVE EpSafe' /\ SamePipes
<1>1. UNCHANGED <<port, gone, claimed, pipe, wrap, pendingEps, sem, inflight, task, dmn, env>>
  BY DEF AskSuspend, fixed
<1>2. BooksOK' BY <1>1, TypesStay DEF AskSuspend, EpSafe, EpShape, BooksOK
<1>3. /\ dmn' \in DaemonType /\ DaemonKnows(dmn')
      /\ (Walking' => \A e \in dmn'.left : Alive(e))
  BY <1>1, DaemonKnown DEF Walking
<1> QED BY <1>1, <1>2, <1>3, PipesUnchanged, DaemonStepSafe

\* ResumePort leaves in the pipes what is in them.
LEMMA ResumePortSafe == ASSUME EpSafe, ResumePort PROVE EpSafe' /\ SamePipes
<1>1. UNCHANGED <<gone, claimed, pipe, wrap, pendingEps, sem, inflight, task, dmn, env>>
  BY DEF ResumePort, fixed
<1>2. BooksOK' BY <1>1, TypesStay DEF ResumePort, EpSafe, EpShape, BooksOK
<1>3. /\ dmn' \in DaemonType /\ DaemonKnows(dmn')
      /\ (Walking' => \A e \in dmn'.left : Alive(e))
  BY <1>1, DaemonKnown DEF Walking
<1> QED BY <1>1, <1>2, <1>3, PipesUnchanged, DaemonStepSafe

\* Walk leaves in the pipes what is in them.
LEMMA WalkSafe ==
    ASSUME EpSafe, NEW why \in {"gone", "suspend", "resume"}, Walk(why) PROVE EpSafe' /\ SamePipes
<1>1. UNCHANGED <<port, gone, claimed, pipe, wrap, pendingEps, sem, inflight, task, env>>
  BY DEF Walk, fixed
<1>2. BooksOK' BY <1>1, TypesStay DEF Walk, EpSafe, EpShape, BooksOK
<1>3. /\ dmn' \in DaemonType /\ DaemonKnows(dmn') /\ \A e \in dmn'.left : Alive(e)
  BY DEF Walk, DaemonType, DaemonKnows
<1> QED BY <1>1, <1>2, <1>3, PipesUnchanged, DaemonStepSafe

\* WalkEnds leaves in the pipes what is in them.
LEMMA WalkEndsSafe == ASSUME EpSafe, WalkEnds PROVE EpSafe' /\ SamePipes
<1>1. UNCHANGED <<port, gone, acts, claimed, pipe, wrap, pendingEps, sem, inflight, task, env>>
  BY DEF WalkEnds, fixed
<1>2. BooksOK' BY <1>1, BooksUnchanged
<1>3. PICK s \in {"suspend", "idle"} : dmn' = [dmn EXCEPT !.at = s]
  BY DEF WalkEnds
<1>4. dmn' \in DaemonType /\ dmn'.at = s BY <1>3, DaemonKnown DEF DaemonType
<1>5. DaemonKnows(dmn') /\ ~Walking' BY <1>4 DEF DaemonKnows, Walking
<1> QED BY <1>1, <1>2, <1>4, <1>5, PipesUnchanged, DaemonStepSafe

\* SuspendPort leaves in the pipes what is in them.
LEMMA SuspendPortSafe == ASSUME EpSafe, SuspendPort PROVE EpSafe' /\ SamePipes
<1>1. UNCHANGED <<gone, acts, claimed, pipe, wrap, pendingEps, sem, inflight, task, env>>
  BY DEF SuspendPort, fixed
<1>2. BooksOK' BY <1>1, TypesStay DEF SuspendPort, EpSafe, EpShape, BooksOK
<1>3. dmn' = [dmn EXCEPT !.at = "idle"] BY DEF SuspendPort
<1>4. dmn' \in DaemonType /\ dmn'.at = "idle"
  BY <1>3, DaemonKnown DEF DaemonType
<1>5. DaemonKnows(dmn') /\ ~Walking' BY <1>4 DEF DaemonKnows, Walking
<1> QED BY <1>1, <1>2, <1>4, <1>5, PipesUnchanged, DaemonStepSafe

\* A step of the daemon's that works on the pipe of one endpoint
LEMMA DaemonWorksSafe ==
    ASSUME EpSafe, NEW e \in Ep, NEW p, Good(p), Held(p) = Held(pipe[e]),
           p.state = "none" <=> pipe[e].state = "none",
           pipe' = [pipe EXCEPT ![e] = p], NEW d \in DaemonType, dmn' = d, DaemonKnows(d),
           Walking, d.left \subseteq dmn.left, BooksOK',
           UNCHANGED <<inflight, task, claimed, env>>
    PROVE  EpSafe' /\ SamePipes
<1>1. SamePipes /\ SameAlive BY PipeChanges
<1>2. \A f \in d.left : Alive(f) BY DaemonKnown
<1> QED BY <1>1, <1>2, DaemonStepSafe

\* What is expected of a pipe is not the case.
LEMMA DaemonAbortsSafe ==
    ASSUME EpSafe, pipe' = pipe, dmn' = [dmn EXCEPT !.at = "abort"], BooksOK',
           UNCHANGED <<inflight, task, claimed, env>>
    PROVE  EpSafe' /\ SamePipes
<1>1. dmn' \in DaemonType /\ dmn'.at = "abort" BY DaemonKnown DEF DaemonType
<1>2. DaemonKnows(dmn') /\ ~Walking' BY <1>1 DEF DaemonKnows, Walking
<1> QED BY <1>1, <1>2, PipesUnchanged, DaemonStepSafe

\* DmnHalt leaves in the pipes what is in them.
LEMMA DmnHaltSafe == ASSUME EpSafe, NEW e \in Eps, DmnHalt(e) PROVE EpSafe' /\ SamePipes
<1>1. UNCHANGED <<port, gone, acts, claimed, wrap, pendingEps, sem, inflight, task, env>>
      /\ BooksOK'
  BY BooksUnchanged DEF DmnHalt, fixed
<1>2. PICK p : p = pipe[e] OBVIOUS
<1>3. /\ e \in Ep /\ e # NoEp /\ Good(p) /\ p.state # "none" /\ p \in EpPipe /\ Walking
      /\ dmn \in DaemonType /\ e \in dmn.left
  BY <1>2, DaemonKnown, EnvironmentIsTyped
     DEF EpSafe, Good, Sound, DmnHalt, Walking, Alive
<1>4. CASE ~HaltWaits(p)
  <2>1. PICK f : f = [p EXCEPT !.state = "halted", !.cmd = FALSE] OBVIOUS
  <2>2. Good(f) /\ Held(f) = Held(p) /\ f.state = "halted"
    BY <1>3, <2>1, HaltingKeeps
  <2>3. pipe' = [pipe EXCEPT ![e] = f] BY <1>2, <1>4, <2>1 DEF DmnHalt
  <2>4. PICK d : d = [dmn EXCEPT !.at = "flush", !.ep = e] OBVIOUS
  <2>5. d \in DaemonType /\ d.at = "flush" /\ d.ep = e /\ d.left = dmn.left
    BY <1>3, <2>4 DEF DaemonType
  <2>6. dmn' = d /\ DaemonKnows(d)
    BY <1>2, <1>3, <1>4, <2>4, <2>5 DEF DmnHalt, DaemonKnows
  <2> QED BY <1>1, <1>2, <1>3, <2>2, <2>3, <2>5, <2>6, DaemonWorksSafe
<1>5. CASE HaltWaits(p) /\ p.waiter # "none"
  <2>1. pipe' = pipe /\ dmn' = [dmn EXCEPT !.at = "abort"]
    BY <1>2, <1>5 DEF DmnHalt
  <2> QED BY <1>1, <2>1, DaemonAbortsSafe
<1>6. CASE HaltWaits(p) /\ p.waiter = "none"
  <2>1. PICK f : f = [p EXCEPT !.waiter = "daemon", !.cmd = TRUE] OBVIOUS
  <2>2. Good(f) /\ Held(f) = Held(p) /\ f.state = p.state
    BY <1>3, <2>1, CommandKeeps
  <2>3. pipe' = [pipe EXCEPT ![e] = f] BY <1>2, <1>6, <2>1 DEF DmnHalt
  <2>4. PICK d : d = [dmn EXCEPT !.at = "wait", !.ep = e] OBVIOUS
  <2>5. d \in DaemonType /\ d.at = "wait" /\ d.ep = e /\ d.left = dmn.left
    BY <1>3, <2>4 DEF DaemonType
  <2>6. dmn' = d /\ DaemonKnows(d)
    BY <1>2, <1>3, <1>6, <2>4, <2>5 DEF DmnHalt, DaemonKnows
  <2> QED BY <1>1, <1>2, <1>3, <2>2, <2>3, <2>5, <2>6, DaemonWorksSafe
<1> QED BY <1>4, <1>5, <1>6

\* DmnHalted leaves in the pipes what is in them.
LEMMA DmnHaltedSafe == ASSUME EpSafe, DmnHalted PROVE EpSafe' /\ SamePipes
<1>1. UNCHANGED <<port, gone, acts, claimed, wrap, pendingEps, sem, inflight, task, env>>
      /\ BooksOK'
  BY BooksUnchanged DEF DmnHalted, fixed
<1>2. PICK e \in Ep : e = dmn.ep /\ e # NoEp /\ e \in dmn.left
  BY DaemonKnown DEF DmnHalted, DaemonKnows
<1>3. PICK p : p = pipe[e] OBVIOUS
<1>4. Good(p) /\ p \in EpPipe /\ Walking /\ dmn \in DaemonType
  BY <1>3, DaemonKnown DEF EpSafe, Good, Sound, DmnHalted, Walking
<1>5. CASE p.state # "halted"
  <2>1. pipe' = pipe /\ dmn' = [dmn EXCEPT !.at = "abort"]
    BY <1>2, <1>3, <1>5 DEF DmnHalted
  <2> QED BY <1>1, <2>1, DaemonAbortsSafe
<1>6. CASE p.state = "halted"
  <2>1. PICK f : f = [p EXCEPT !.cmd = FALSE] OBVIOUS
  <2>2. Good(f) /\ Held(f) = Held(p) /\ f.state = p.state
    BY <1>4, <2>1, EndingKeeps
  <2>3. pipe' = [pipe EXCEPT ![e] = f]
    BY <1>2, <1>3, <1>6, <2>1 DEF DmnHalted
  <2>4. PICK d : d = [dmn EXCEPT !.at = "flush"] OBVIOUS
  <2>5. d \in DaemonType /\ d.at = "flush" /\ d.ep = e /\ d.left = dmn.left
    BY <1>2, <1>4, <2>4 DEF DaemonType
  <2>6. dmn' = d /\ DaemonKnows(d)
    BY <1>2, <1>3, <1>6, <2>4, <2>5 DEF DmnHalted, DaemonKnows
  <2> QED BY <1>1, <1>3, <1>4, <2>2, <2>3, <2>5, <2>6, DaemonWorksSafe
<1> QED BY <1>5, <1>6

\* What the daemon goes on with when it is done with an endpoint
LEMMA NextLeftIs ==
    ASSUME EpSafe
    PROVE  /\ NextLeft \in DaemonType /\ NextLeft.at = "walk" /\ NextLeft.ep = NoEp
           /\ NextLeft.left = dmn.left \ {dmn.ep} /\ NextLeft.why = dmn.why
BY DaemonKnown DEF NextLeft, DaemonType

\* DmnFlush leaves in the pipes what is in them.
LEMMA DmnFlushSafe == ASSUME EpSafe, DmnFlush PROVE EpSafe' /\ SamePipes
<1>1. UNCHANGED <<port, gone, acts, claimed, wrap, pendingEps, sem, inflight, task, env>>
      /\ BooksOK'
  BY BooksUnchanged DEF DmnFlush, fixed
<1>2. PICK e \in Ep : e = dmn.ep /\ e # NoEp /\ e \in dmn.left
  BY DaemonKnown DEF DmnFlush, DaemonKnows
<1>3. PICK p : p = pipe[e] OBVIOUS
<1>4. Good(p) /\ p \in EpPipe /\ Walking /\ dmn \in DaemonType
  BY <1>3, DaemonKnown DEF EpSafe, Good, Sound, DmnFlush, Walking
<1>5. CASE p.state # "halted"
  <2>1. pipe' = pipe /\ dmn' = [dmn EXCEPT !.at = "abort"]
    BY <1>2, <1>3, <1>5 DEF DmnFlush
  <2> QED BY <1>1, <2>1, DaemonAbortsSafe
<1>6. CASE p.state = "halted"
  <2>1. PICK f : f = Flushed(p) OBVIOUS
  <2>2. Good(f) /\ Held(f) = Held(p) /\ f.state = p.state
    BY <1>4, <1>6, <2>1, FlushedKeeps
  <2>3. pipe' = [pipe EXCEPT ![e] = f]
    BY <1>2, <1>3, <1>6, <2>1 DEF DmnFlush
  <2>4. PICK d : d = IF FlushMoves(p) THEN [dmn EXCEPT !.at = "notify"] ELSE NextLeft
    OBVIOUS
  <2>5. dmn' = d BY <1>2, <1>3, <1>6, <2>4 DEF DmnFlush
  <2>6. d \in DaemonType /\ d.left \subseteq dmn.left /\ DaemonKnows(d)
    <3>1. CASE FlushMoves(p)
      BY <1>2, <1>4, <2>4, <3>1 DEF DaemonType, DaemonKnows
    <3>2. CASE ~FlushMoves(p) BY <2>4, <3>2, NextLeftIs DEF DaemonKnows
    <3> QED BY <3>1, <3>2
  <2> QED BY <1>1, <1>3, <1>4, <2>2, <2>3, <2>5, <2>6, DaemonWorksSafe
<1> QED BY <1>5, <1>6

\* DmnNotify leaves in the pipes what is in them.
LEMMA DmnNotifySafe == ASSUME EpSafe, DmnNotify PROVE EpSafe' /\ SamePipes
<1>1. UNCHANGED <<port, gone, acts, claimed, inflight, task, env>> /\ dmn' = NextLeft
  BY DEF DmnNotify, fixed
<1>2. PICK e \in Ep : e = dmn.ep /\ e \in Eps BY DaemonKnown DEF DmnNotify
<1>3. PICK p : p = pipe[e] OBVIOUS
<1>4. Good(p) /\ p \in EpPipe /\ Walking
  BY <1>3, DaemonKnown DEF EpSafe, Good, Sound, DmnNotify, Walking
<1>5. BooksOK' BY <1>1, <1>2, CallbackTyped DEF EpSafe, EpShape, DmnNotify
<1>6. PICK f : f = [p EXCEPT !.cmd = FALSE] OBVIOUS
<1>7. Good(f) /\ Held(f) = Held(p) /\ f.state = p.state
  BY <1>4, <1>6, EndingKeeps
<1>8. pipe' = [pipe EXCEPT ![e] = f] BY <1>2, <1>3, <1>6 DEF DmnNotify
<1>9. NextLeft \in DaemonType /\ NextLeft.left \subseteq dmn.left /\ DaemonKnows(NextLeft)
  BY NextLeftIs DEF DaemonKnows
<1>10. PICK d \in DaemonType : d = NextLeft BY <1>9
<1> QED BY <1>1, <1>3, <1>4, <1>5, <1>7, <1>8, <1>9, <1>10, DaemonWorksSafe

\* DmnClear leaves in the pipes what is in them.
LEMMA DmnClearSafe == ASSUME EpSafe, NEW e \in Eps, DmnClear(e) PROVE EpSafe' /\ SamePipes
<1>1. UNCHANGED <<port, gone, acts, claimed, wrap, pendingEps, sem, inflight, task, env>>
      /\ BooksOK'
  BY BooksUnchanged DEF DmnClear, fixed
<1>2. PICK p : p = pipe[e] OBVIOUS
<1>3. /\ e \in Ep /\ Good(p) /\ p.state # "none" /\ Walking /\ dmn \in DaemonType
  BY <1>2, DaemonKnown, EnvironmentIsTyped DEF EpSafe, DmnClear, Walking, Alive
<1>4. PICK f : f = Cleared(p) OBVIOUS
<1>5. Good(f) /\ Held(f) = Held(p) /\ f.state # "none"
  BY <1>3, <1>4, ClearedKeeps
<1>6. pipe' = [pipe EXCEPT ![e] = f] BY <1>2, <1>4 DEF DmnClear
<1>7. PICK d : d = [dmn EXCEPT !.left = @ \ {e}] OBVIOUS
<1>8. d \in DaemonType /\ d.left \subseteq dmn.left /\ d.at = "walk" /\ dmn' = d
  BY <1>3, <1>7 DEF DaemonType, DmnClear
<1>9. DaemonKnows(d) BY <1>8 DEF DaemonKnows
<1> QED BY <1>1, <1>2, <1>3, <1>5, <1>6, <1>8, <1>9, DaemonWorksSafe

\* Channel leaves in the pipes what is in them.
LEMMA ChannelSafe == ASSUME EpSafe, NEW e \in Eps, Channel(e) PROVE EpSafe' /\ SamePipes
<1>1. UNCHANGED <<port, gone, acts, claimed, inflight, task, dmn, env>>
  BY DEF Channel, ChanDone, ChanError, ChanHalted, fixed
<1>2. PICK p : p = pipe[e] OBVIOUS
<1>3. e \in Ep /\ Good(p) /\ Sound(p)
  BY <1>2, EnvironmentIsTyped DEF EpSafe, Good
<1>4. BooksOK'
  <2>1. EndpointCallback(e, "done") \/ EndpointCallback(e, "error")
    BY DEF Channel, ChanDone, ChanError, ChanHalted
  <2> QED BY <1>1, <1>3, <2>1, CallbackTyped DEF EpSafe, EpShape
<1>5. \E f : /\ pipe' = [pipe EXCEPT ![e] = f] /\ Good(f) /\ Held(f) = Held(p)
             /\ f.state # "none" /\ p.state # "none"
  <2>1. CASE ChanDone(e)
    <3>1. PICK f : f = Fill(Exec(HeadDone(p)), 1) OBVIOUS
    <3>2. p.exec /\ p.state = "active" BY <1>2, <2>1 DEF ChanDone, Running
    <3>3. Good(f) /\ Held(f) = Held(p) /\ f.state = "active"
      BY <1>3, <3>1, <3>2, DoneKeeps
    <3> QED BY <1>2, <2>1, <3>1, <3>2, <3>3 DEF ChanDone
  <2>2. CASE ChanError(e)
    <3>1. PICK f : f = [HeadDone(p) EXCEPT !.state = "halted"] OBVIOUS
    <3>2. p.buf # <<>> BY <1>2, <1>3, <2>2 DEF ChanError, Running, Sound
    <3>3. Good(f) /\ Held(f) = Held(p) /\ f.state = "halted" /\ p.state # "none"
      BY <1>3, <3>1, <3>2, FailingKeeps
    <3>4. pipe' = [pipe EXCEPT ![e] = f] BY <1>2, <2>2, <3>1 DEF ChanError
    <3> QED BY <3>3, <3>4
  <2>3. CASE ChanHalted(e)
    <3>1. PICK f : f = [HeadDone(p) EXCEPT !.state = "halted", !.waiter = "none"]
      OBVIOUS
    <3>2. p.buf # <<>> BY <1>2, <2>3 DEF ChanHalted
    <3>3. Good(f) /\ Held(f) = Held(p) /\ f.state = "halted" /\ p.state # "none"
      BY <1>3, <3>1, <3>2, FailingKeeps
    <3>4. pipe' = [pipe EXCEPT ![e] = f] BY <1>2, <2>3, <3>1 DEF ChanHalted
    <3> QED BY <3>3, <3>4
  <2> QED BY <2>1, <2>2, <2>3 DEF Channel
<1>6. SamePipes /\ SameAlive BY <1>2, <1>3, <1>5, PipeChanges
<1>7. /\ dmn' \in DaemonType /\ DaemonKnows(dmn')
      /\ (Walking' => \A f \in dmn'.left : Alive(f))
  BY <1>1, DaemonKnown DEF Walking
<1> QED BY <1>1, <1>4, <1>6, <1>7, DaemonStepSafe

\* Nothing of the endpoints changes.
LEMMA EpUnchangedSafe == ASSUME EpSafe, UNCHANGED <<epVars, env>> PROVE EpSafe' /\ SamePipes
<1>1. UNCHANGED <<port, gone, acts, claimed, pipe, wrap, pendingEps, sem, inflight, task,
                  dmn, env>>
  BY DEF epVars
<1>2. BooksOK' BY <1>1, BooksUnchanged
<1>3. /\ dmn' \in DaemonType /\ DaemonKnows(dmn')
      /\ (Walking' => \A f \in dmn'.left : Alive(f))
  BY <1>1, DaemonKnown, SMTT(60) DEF Walking
<1> QED BY <1>1, <1>2, <1>3, PipesUnchanged, DaemonStepSafe

\* A pipe with two buffers has nothing to do with the endpoints.
LEMMA DmaNextKeeps == ASSUME DmaNext PROVE UNCHANGED <<epVars, env>>
BY ZenonT(60) DEF DmaNext, ChannelStep, ChanStep, Frame, IntrComplete, IntrError, IntrHalted, ChanFails,
       PipeAlloc, PipeFree, UpdateMps, UrbAbort, UrbEnqueue, UrbDequeue, PipeHalt, PipeFlush,
       PipeClear, PortSuspend, PortLost, Keep

\* Without endpoints there is nothing to go wrong.
LEMMA EpSafeInit == ASSUME Init PROVE EpSafe
<1>1. env \in Environments /\ EpInit BY DEF Init
<1>2. BooksOK
  <2>1. wrap \in [Ep -> [pending : BOOLEAN, count : Int, last : {"done", "error"}]]
    BY <1>1 DEF EpInit, NoWrap
  <2>2. pendingEps \in Seq(Eps) BY <1>1 DEF EpInit
  <2>3. gone \in BOOLEAN BY <1>1 DEF EpInit
  <2> QED BY <1>1, <2>1, <2>2, <2>3 DEF EpInit, BooksOK
<1>3. /\ \A e \in Ep : pipe[e] = NoPipe
      /\ pipe \in [Ep -> EpPipe] /\ \A e \in Ep : Good(pipe[e])
  BY <1>1, NoPipeIsGood DEF EpInit, Good, Sound
<1>4. task \in [Worker -> TaskType] /\ \A t \in Worker : task[t].at = "idle"
  BY <1>1 DEF EpInit, TaskType, Worker
<1>5. dmn \in DaemonType /\ dmn.at = "idle" BY <1>1 DEF EpInit, DaemonType
<1>6. AllKnow BY <1>4, <1>5 DEF AllKnow, TaskKnows, DaemonKnows
<1>7. AllocatedAreClaimed
  BY <1>1, <1>3, <1>5, NoPipeIsGood, EnvironmentIsTyped DEF AllocatedAreClaimed, Alive, Walking
<1>8. UrbsAreOnce
  <2>1. \A e \in Ep : Queue(e) = <<>> BY <1>3, NoPipeIsGood DEF Queue, Held
  <2> QED BY <1>4, <2>1 DEF UrbsAreOnce, Enqueuing, Worker
<1> QED BY <1>1, <1>2, <1>3, <1>4, <1>5, <1>6, <1>7, <1>8 DEF EpSafe, EpShape, EpInit

\* Every step of the system
LEMMA EpSafeNext == ASSUME EpSafe, [Next]_vars PROVE EpSafe'
<1>1. CASE HandlerStep
  BY <1>1, HandleEventsSafe, NextEpSafe, HandledEventsSafe, HandlerFlushSafe, NotifySafe,
     HandlerDequeueSafe, CallbackReturnsSafe, HandlerCountSafe, SubmitGoesOnSafe
     DEF HandlerStep, Worker
<1>2. CASE ApiGoesOn
  BY <1>2, SubmitGoesOnSafe, ApiHaltedSafe, NotifySafe, ReleasedSafe, FreeEpSafe
     DEF ApiGoesOn, Worker
<1>3. CASE DaemonStep
  BY <1>3, WalkSafe, DmnHaltSafe, DmnClearSafe, DmnHaltedSafe, DmnFlushSafe, DmnNotifySafe,
     WalkEndsSafe, SuspendPortSafe DEF DaemonStep
<1>4. CASE Application
  BY <1>4, ClaimSafe, ReleaseSafe, AskSuspendSafe, ApiHaltSafe, ApiFlushSafe, ApiClearSafe,
     SubmitCountSafe DEF Application, Worker
<1>5. CASE Unplug \/ ResumePort BY <1>5, UnplugSafe, ResumePortSafe
<1>6. CASE \E e \in Eps : Channel(e) BY <1>6, ChannelSafe
<1>7. CASE Ended \/ DmaNext \/ UNCHANGED vars
  <2>1. UNCHANGED <<epVars, env>>
    BY <1>7, DmaNextKeeps DEF Ended, fixed, vars
  <2> QED BY <2>1, EpUnchangedSafe
<1> QED BY <1>1, <1>2, <1>3, <1>4, <1>5, <1>6, <1>7 DEF Next, EpNext

\* The pipes never lose, duplicate or reorder a transfer, whatever happens to them.
THEOREM PipesAreSafe == Spec => []EpSafe
BY EpSafeInit, EpSafeNext, PTL DEF Spec

-----------------------------------------------------------------------------
(***************************************************************************)
(* The client's books of its endpoints agree with the pipes, and none of   *)
(* the commands fails that must not: proved for any endpoints, transfers   *)
(* and buffers, in environments without races.  EpInv adds to EpSafe who   *)
(* has which transfer in hand (CountsAreRight), who will see to what is    *)
(* finished (Announced), and who may rely on a pipe's being halted         *)
(* (HaltsHold, ErrorsHalt).                                                *)
(***************************************************************************)

\* Environments in which the application waits for the client's other task, and in
\* which no endpoint is cleared by the daemon, because the port is resumed, after it
\* failed and before the client flushed it.
Gentle ==
    \A e \in Environments :
        e.eps # {} => /\ "races" \notin e.uses
                      /\ "suspend" \in e.uses => /\ "errors" \notin e.uses
                                                 /\ ~({"hub", "unplug"} \subseteq e.uses)

\* Nobody has failed, and who is not at work on an endpoint has none in hand.
HandsEmpty ==
    /\ Handler.at \notin {"wait", "free", "abort"}
    /\ Handler.at \in {"idle", "loop"} => Handler.ep = NoEp /\ Handler.n = 0
    /\ Handler.at \notin Submitting => Handler.to = NoEp
    /\ Api.at \in {"idle", "wait", "notify", "free"} \cup Submitting
    /\ Api.at \notin {"wait", "notify"} => Api.ep = NoEp
    /\ Api.at \notin Submitting => Api.to = NoEp
    /\ dmn.at # "abort" /\ (dmn.at \notin {"wait", "flush", "notify"} => dmn.ep = NoEp)

\* A transfer of an endpoint that is counted is in its pipe or in somebody's hands.
CountsAreRight ==
    /\ \A e \in Ep : wrap[e].count \in Nat
    /\ \A e \in Eps : Alive(e) => wrap[e].count = Len(Queue(e)) + Owed(e)

\* Who will see to what is finished
Announced ==
    /\ \A e \in Eps : pipe[e].done # <<>> =>
          \/ wrap[e].pending
          \/ Handler.ep = e /\ Handler.at \in {"flush", "notify", "dequeue", "callback"} \cup Submitting
          \/ Api.at = "notify" /\ Api.ep = e
          \/ dmn.at = "notify" /\ dmn.ep = e
    /\ pendingEps # <<>> /\ Handler.at = "idle" => sem

\* An endpoint that is on a list or in somebody's hands has not been freed.
LivesOn ==
    /\ \A e \in Eps : wrap[e].pending => Alive(e)
    /\ \A e \in {Handler.ep, Handler.to, Api.ep, Api.to, dmn.ep} \ {NoEp} : Alive(e)

\* The list of pending endpoints and their marks
PendingAgree ==
    /\ \A e \in Eps : wrap[e].pending <=> In(e, pendingEps)
    /\ \A i, j \in DOMAIN pendingEps : pendingEps[i] = pendingEps[j] => i = j

\* While endpoints are freed nobody has anything to do with them.
FreeingIsQuiet ==
    Api.at = "free" => /\ Handler.at \in {"idle", "loop"} /\ dmn.at # "notify"
                       /\ \A e \in Eps : wrap[e].count = 0 /\ ~wrap[e].pending

\* Who was promised a halted pipe has one.
HaltsHold ==
    /\ \A e \in Ep : /\ pipe[e].waiter = "api" => Api.at = "wait" /\ Api.ep = e
                     /\ pipe[e].waiter = "daemon" => dmn.at = "wait" /\ dmn.ep = e
    /\ Api.at = "wait" => pipe[Api.ep].waiter = "api" \/ pipe[Api.ep].state = "halted"
    /\ dmn.at = "wait" => pipe[dmn.ep].waiter = "daemon" \/ pipe[dmn.ep].state = "halted"
    /\ dmn.at = "flush" => pipe[dmn.ep].state = "halted"
    /\ dmn.at = "walk" /\ dmn.why = "resume" /\ Conn => Api.at # "wait"

\* A pipe is halted from an error until the handler has flushed it.
ErrorsHalt ==
    /\ Handler.at = "flush" => pipe[Handler.ep].state = "halted"
    /\ \A e \in Eps : Alive(e) /\ wrap[e].pending /\ wrap[e].last = "error"
                        => pipe[e].state = "halted"

\* What can have happened in this environment
Possible ==
    /\ (acts \cap {"suspend", "resume"} # {} \/ dmn.why # "gone" \/ port = "suspended")
          => "suspend" \in Uses
    /\ dmn.at = "suspend" => dmn.why = "suspend"
    /\ dmn.at \in {"wait", "flush", "notify"} => dmn.why # "resume"
    /\ gone /\ Conn => {"hub", "unplug"} \subseteq Uses
    /\ (\E e \in Eps : wrap[e].last = "error") \/ Handler.at = "flush"
          => gone \/ "errors" \in Uses

BooksInv ==
    /\ HandsEmpty /\ CountsAreRight /\ Announced /\ LivesOn /\ PendingAgree
    /\ FreeingIsQuiet /\ HaltsHold /\ ErrorsHalt /\ Possible

EpInv == Gentle /\ EpSafe /\ BooksInv

-----------------------------------------------------------------------------

\* What the proofs use of EpSafe
LEMMA Known ==
    ASSUME EpInv
    PROVE  /\ Eps \subseteq Ep /\ NoEp \notin Ep /\ NoUrb \notin Urb
           /\ pipe \in [Ep -> EpPipe] /\ (\A e \in Ep : Good(pipe[e]))
           /\ task \in [Worker -> TaskType] /\ Handler \in TaskType /\ Api \in TaskType
           /\ dmn \in DaemonType /\ BooksOK /\ AllKnow /\ AllocatedAreClaimed
BY EnvironmentIsTyped, NamesDiffer DEF EpInv, EpSafe, EpShape, Handler, Api, Worker

\* A pipe's transfers can be counted.
LEMMA QueueIsCounted ==
    ASSUME EpInv
    PROVE  \A e \in Ep : /\ Queue(e) \in Seq(Urb) /\ Len(Queue(e)) \in Nat
                         /\ (Len(Queue(e)) = 0 <=> Queue(e) = <<>>)
<1>1. SUFFICES ASSUME NEW e \in Ep
               PROVE  /\ Queue(e) \in Seq(Urb) /\ Len(Queue(e)) \in Nat
                      /\ (Len(Queue(e)) = 0 <=> Queue(e) = <<>>)
  OBVIOUS
<1>2. pipe[e].done \in Seq(Urb) /\ pipe[e].buf \in Seq(Urb) /\ pipe[e].pend \in Seq(Urb)
  BY Known DEF EpPipe
<1>3. Queue(e) \in Seq(Urb) BY <1>2, ConcatProperties DEF Queue
<1> QED BY <1>3, EmptySeq

\* One of the tasks moves.
LEMMA HandlerMoves ==
    ASSUME EpInv, NEW r, task' = [task EXCEPT !["handler"] = r]
    PROVE  Handler' = r /\ Api' = Api
BY Known DEF Handler, Api, Worker

\* The other task moves.
LEMMA ApiMoves ==
    ASSUME EpInv, NEW r, task' = [task EXCEPT !["api"] = r]
    PROVE  Api' = r /\ Handler' = Handler
BY Known DEF Handler, Api, Worker

\* endpoint_callback() puts an endpoint on the list.
LEMMA CallbackLists ==
    ASSUME EpInv, NEW e \in Eps, NEW event \in {"done", "error"}, EndpointCallback(e, event),
           env' = env
    PROVE  /\ wrap'[e].pending /\ wrap'[e].last = event /\ wrap'[e].count = wrap[e].count
           /\ \A f \in Ep \ {e} : wrap'[f] = wrap[f]
           /\ sem' /\ PendingAgree'
<1>1. /\ e \in Ep /\ pendingEps \in Seq(Eps)
      /\ wrap \in [Ep -> [pending : BOOLEAN, count : Int, last : {"done", "error"}]]
  BY Known DEF BooksOK
<1>2. /\ wrap'[e].pending /\ wrap'[e].last = event /\ wrap'[e].count = wrap[e].count
      /\ \A f \in Ep \ {e} : wrap'[f] = wrap[f]
  BY <1>1 DEF EndpointCallback
<1>3. CASE wrap[e].pending
  BY <1>1, <1>2, <1>3, Known, TypesStay DEF EpInv, BooksInv, PendingAgree, EndpointCallback, In
<1>4. CASE ~wrap[e].pending
  <2>1. PICK s \in Seq(Eps) : s = pendingEps BY <1>1
  <2>2. pendingEps' = Append(s, e) BY <1>4, <2>1 DEF EndpointCallback
  <2>3. /\ Len(s) \in Nat /\ DOMAIN s = 1 .. Len(s) /\ DOMAIN Append(s, e) = 1 .. (Len(s) + 1)
        /\ Append(s, e)[Len(s) + 1] = e /\ \A i \in 1 .. Len(s) : Append(s, e)[i] = s[i]
    BY AppendProperties
  <2>4. \A i \in 1 .. Len(s) : s[i] # e
    BY <1>4, <2>1, <2>3 DEF EpInv, BooksInv, PendingAgree, In
  <2>5. \A i, j \in 1 .. (Len(s) + 1) : Append(s, e)[i] = Append(s, e)[j] => i = j
    <3>1. \A i, j \in 1 .. Len(s) : s[i] = s[j] => i = j
      BY <2>1, <2>3 DEF EpInv, BooksInv, PendingAgree
    <3>2. \A i \in 1 .. (Len(s) + 1) : i \in 1 .. Len(s) \/ i = Len(s) + 1
      BY <2>3
    <3> QED BY <2>3, <2>4, <3>1, <3>2
  <2>6. \A f \in Eps : In(f, Append(s, e)) <=> f = e \/ In(f, s)
    <3>1. \A i \in 1 .. (Len(s) + 1) : i \in 1 .. Len(s) \/ i = Len(s) + 1
      BY <2>3
    <3>2. (\A i \in 1 .. Len(s) : i \in 1 .. (Len(s) + 1)) /\ Len(s) + 1 \in 1 .. (Len(s) + 1)
      BY <2>3
    <3> QED BY <2>3, <3>1, <3>2 DEF In
  <2>7. \A f \in Eps : wrap'[f].pending <=> In(f, Append(s, e))
    BY <1>2, <2>1, <2>6, Known DEF EpInv, BooksInv, PendingAgree
  <2>8. \A f \in Eps : In(f, Append(s, e)) <=> In(f, pendingEps)'
    BY <2>2 DEF In
  <2>9. \A f \in Eps : wrap'[f].pending <=> In(f, pendingEps)'
    BY <2>7, <2>8, Zenon
  <2>10. \A i, j \in DOMAIN pendingEps' : pendingEps'[i] = pendingEps'[j] => i = j
    BY <2>2, <2>3, <2>5
  <2>11. PendingAgree' BY <2>9, <2>10, TypesStay, Zenon DEF PendingAgree
  <2> QED BY <1>2, <2>11 DEF EndpointCallback
<1> QED BY <1>2, <1>3, <1>4 DEF EndpointCallback

\* Who works on an endpoint works on one that there is.
LEMMA Where ==
    ASSUME EpInv
    PROVE  /\ Eps \subseteq Ep /\ NoEp \notin Ep
           /\ Api.at \in {"wait", "notify"} => Api.ep \in Eps
           /\ Api.at \in Submitting => Api.to \in Eps
           /\ Handler.at \in {"flush", "notify", "dequeue", "callback", "count"} \cup Submitting
                => Handler.ep \in Eps
           /\ Handler.at \in Submitting => Handler.to \in Eps
           /\ dmn.at \in {"wait", "flush", "notify"} => dmn.ep \in Eps
BY Known DEF AllKnow, TaskKnows, DaemonKnows, TaskType, DaemonType, Worker, Handler, Api

\* The first endpoint is taken off the list.
LEMMA TailLists ==
    ASSUME NEW s \in Seq(Eps), s # <<>>, \A i, j \in DOMAIN s : s[i] = s[j] => i = j
    PROVE  /\ Head(s) \in Eps /\ In(Head(s), s)
           /\ \A i, j \in DOMAIN Tail(s) : Tail(s)[i] = Tail(s)[j] => i = j
           /\ \A f \in Eps : In(f, Tail(s)) <=> In(f, s) /\ f # Head(s)
<1>1. /\ Len(s) \in Nat \ {0} /\ DOMAIN s = 1 .. Len(s) /\ DOMAIN Tail(s) = 1 .. (Len(s) - 1)
      /\ \A i \in 1 .. (Len(s) - 1) : Tail(s)[i] = s[i + 1]
  BY HeadTailProperties, EmptySeq
<1>2. Head(s) = s[1] /\ s[1] \in Eps /\ 1 \in DOMAIN s
  BY <1>1, HeadTailProperties
<1>3. \A i \in 1 .. (Len(s) - 1) : i + 1 \in DOMAIN s /\ i + 1 # 1 BY <1>1
<1>4. \A i, j \in DOMAIN Tail(s) : Tail(s)[i] = Tail(s)[j] => i = j
  <2>1. \A i, j \in 1 .. (Len(s) - 1) : s[i + 1] = s[j + 1] => i + 1 = j + 1
    BY <1>3
  <2>2. \A i, j \in 1 .. (Len(s) - 1) : i + 1 = j + 1 => i = j BY <1>1
  <2> QED BY <1>1, <2>1, <2>2
<1>5. ASSUME NEW f \in Eps PROVE In(f, Tail(s)) <=> In(f, s) /\ f # Head(s)
  <2>1. In(f, Tail(s)) => In(f, s) /\ f # Head(s) BY <1>1, <1>2, <1>3 DEF In
  <2>2. ASSUME NEW i \in DOMAIN s, s[i] = f, f # Head(s) PROVE In(f, Tail(s))
    <3>1. i - 1 \in 1 .. (Len(s) - 1) /\ (i - 1) + 1 = i BY <1>1, <1>2, <2>2
    <3> QED BY <1>1, <2>2, <3>1 DEF In
  <2> QED BY <2>1, <2>2 DEF In
<1> QED BY <1>1, <1>2, <1>4, <1>5 DEF In

\* The counts are right after a step that moves no transfer.
LEMMA CountsSame ==
    ASSUME EpInv, Eps' = Eps, \A f \in Ep : wrap'[f].count = wrap[f].count,
           \A f \in Eps : Alive(f)' => Alive(f) /\ Queue(f)' = Queue(f) /\ Owed(f)' = Owed(f)
    PROVE  CountsAreRight'
<1>1. \A f \in Ep : wrap'[f].count \in Nat
  BY DEF EpInv, BooksInv, CountsAreRight
<1>2. ASSUME NEW f \in Eps, Alive(f)' PROVE wrap'[f].count = Len(Queue(f))' + Owed(f)'
  <2>1. f \in Ep /\ Alive(f) /\ Queue(f)' = Queue(f) /\ Owed(f)' = Owed(f)
    BY <1>2, Known
  <2>2. wrap[f].count = Len(Queue(f)) + Owed(f) /\ wrap'[f].count = wrap[f].count
    BY <2>1 DEF EpInv, BooksInv, CountsAreRight
  <2> QED BY <2>1, <2>2
<1> QED BY <1>1, <1>2, Zenon DEF CountsAreRight

\* The counts are right after a step that moves a transfer of one endpoint.
LEMMA CountsMove ==
    ASSUME EpInv, Eps' = Eps, NEW e \in Eps, Alive(e),
           \A f \in Ep \ {e} : wrap'[f].count = wrap[f].count,
           \A f \in Eps \ {e} : Alive(f)' => Alive(f) /\ Queue(f)' = Queue(f) /\ Owed(f)' = Owed(f),
           wrap'[e].count \in Nat, wrap'[e].count = Len(Queue(e))' + Owed(e)'
    PROVE  CountsAreRight'
<1>1. \A f \in Ep : wrap'[f].count \in Nat
  BY DEF EpInv, BooksInv, CountsAreRight
<1>2. ASSUME NEW f \in Eps, Alive(f)' PROVE wrap'[f].count = Len(Queue(f))' + Owed(f)'
  <2>1. CASE f = e BY <2>1
  <2>2. CASE f # e
    <3>1. f \in Ep /\ Alive(f) /\ Queue(f)' = Queue(f) /\ Owed(f)' = Owed(f)
      BY <1>2, <2>2, Known
    <3>2. wrap[f].count = Len(Queue(f)) + Owed(f) /\ wrap'[f].count = wrap[f].count
      BY <2>2, <3>1 DEF EpInv, BooksInv, CountsAreRight
    <3> QED BY <3>1, <3>2
  <2> QED BY <2>1, <2>2
<1> QED BY <1>1, <1>2, Zenon DEF CountsAreRight

\* What is counted and not in the pipe, as numbers
LEMMA OwedIs ==
    ASSUME EpInv, NEW e \in Eps
    PROVE  /\ One(Handler.to, e) \in Nat /\ One(Api.to, e) \in Nat /\ Handler.n \in Nat
           /\ Owed(e) \in Nat /\ Len(Queue(e)) \in Nat
           /\ Alive(e) => wrap[e].count = Len(Queue(e)) + Owed(e) /\ wrap[e].count \in Nat
<1>1. One(Handler.to, e) \in Nat /\ One(Api.to, e) \in Nat /\ Handler.n \in Nat
  BY Known DEF One, TaskType
<1>2. Owed(e) \in Nat BY <1>1 DEF Owed
<1> QED BY <1>1, <1>2, QueueIsCounted, Known DEF EpInv, BooksInv, CountsAreRight

\* States of pipes and what is done stay when a transfer is enqueued.
SameStates == \A f \in Ep : /\ pipe'[f].state = pipe[f].state /\ pipe'[f].waiter = pipe[f].waiter
                           /\ pipe'[f].done = pipe[f].done

\* hcd_urb_enqueue() leaves the pipes' states, waiters and finished transfers alone.
LEMMA EnqueueKeepsStates == ASSUME EpInv, NEW t \in Worker, SubmitCloses(t) PROVE SameStates
<1>1. PICK e \in Ep, u \in Urb : e = task[t].to /\ u = task[t].urb
  BY EnqueueIs DEF EpInv
<1>2. PICK p : p = pipe[e] /\ Good(p) BY Known
<1>3. CASE SubmitEnqueue(t) /\ (Submits(p) \/ Defers(p))
  <2>1. PICK s \in BOOLEAN : s = Submits(p) BY DEF Submits
  <2>2. p.state = IF s THEN "active" ELSE "halted"
    BY <1>3, <2>1 DEF Submits, Defers
  <2>3. PICK f : f = Accepted(p, u, s) OBVIOUS
  <2>4. f.state = p.state /\ f.waiter = p.waiter /\ f.done = p.done
    BY <1>2, <2>2, <2>3, AcceptedAppends
  <2>5. pipe' = [pipe EXCEPT ![e] = f]
    BY <1>1, <1>2, <1>3, <2>1, <2>3 DEF SubmitEnqueue
  <2> QED BY <1>2, <2>4, <2>5, Known DEF SameStates
<1>4. CASE SubmitFails(t) \/ ~(Submits(p) \/ Defers(p))
  BY <1>1, <1>2, <1>4 DEF SubmitCloses, SubmitEnqueue, SubmitFails, SameStates
<1> QED BY <1>3, <1>4 DEF SubmitCloses

\* The marks and the list agree after a step that changes neither.
LEMMA PendingSame ==
    ASSUME EpInv, Eps' = Eps, pendingEps' = pendingEps,
           \A f \in Ep : wrap'[f].pending = wrap[f].pending
    PROVE  PendingAgree'
<1>1. \A f \in Eps : wrap[f].pending <=> In(f, pendingEps)
  BY DEF EpInv, BooksInv, PendingAgree
<1>2. \A f \in Eps : In(f, pendingEps) <=> In(f, pendingEps)' BY DEF In
<1>3. \A f \in Eps : wrap'[f].pending <=> In(f, pendingEps)'
  BY <1>1, <1>2, Known
<1>4. \A i, j \in DOMAIN pendingEps' : pendingEps'[i] = pendingEps'[j] => i = j
  BY DEF EpInv, BooksInv, PendingAgree
<1> QED BY <1>3, <1>4, Zenon DEF PendingAgree

\* A pipe changes that holds what it held.
OnePipeIs(e, p) ==
    /\ \A f \in Ep : Queue(f)' = Queue(f)
    /\ \A f \in Ep : Alive(f)' <=> Alive(f)
    /\ \A f \in Ep : f # e => /\ pipe'[f].state = pipe[f].state /\ pipe'[f].done = pipe[f].done
                              /\ pipe'[f].waiter = pipe[f].waiter
    /\ pipe'[e].state = p.state /\ pipe'[e].done = p.done /\ pipe'[e].waiter = p.waiter

\* The other pipes, and what is allocated, stay as they were.
LEMMA OnePipe ==
    ASSUME EpInv, NEW e \in Eps, NEW p, Good(p), Held(p) = Held(pipe[e]),
           p.state = "none" <=> pipe[e].state = "none", pipe' = [pipe EXCEPT ![e] = p]
    PROVE  OnePipeIs(e, p)
<1>1. e \in Ep /\ EpSafe BY Known DEF EpInv
<1>2. SamePipes /\ SameAlive /\ pipe'[e] = p /\ \A f \in Ep \ {e} : pipe'[f] = pipe[f]
  BY <1>1, PipeChanges
<1> QED BY <1>2 DEF OnePipeIs, SamePipes, SameAlive

\* A pipe for which the client's task waits
LEMMA ApiWaiting ==
    ASSUME NEW p, Good(p), p.state # "none"
    PROVE  LET f == [p EXCEPT !.waiter = "api", !.cmd = TRUE]
           IN  /\ Good(f) /\ Held(f) = Held(p) /\ f.state = p.state /\ f.done = p.done
               /\ f.waiter = "api"
<1> DEFINE f == [p EXCEPT !.waiter = "api", !.cmd = TRUE]
<1>1. /\ f \in EpPipe /\ f.state = p.state /\ f.buf = p.buf /\ f.pend = p.pend /\ f.done = p.done
      /\ f.exec = p.exec /\ f.waiter = "api" /\ f.cmd = TRUE /\ f.hasUrb = p.hasUrb
  BY DEF EpPipe, Good, Sound
<1> HIDE DEF f
<1>2. Good(f) /\ Held(f) = Held(p) BY <1>1 DEF Good, Sound, Held, Full
<1> QED BY <1>1, <1>2 DEF f

\* A pipe for which the daemon waits
LEMMA DaemonWaiting ==
    ASSUME NEW p, Good(p), p.state # "none"
    PROVE  LET f == [p EXCEPT !.waiter = "daemon", !.cmd = TRUE]
           IN  /\ Good(f) /\ Held(f) = Held(p) /\ f.state = p.state /\ f.done = p.done
               /\ f.waiter = "daemon"
<1> DEFINE f == [p EXCEPT !.waiter = "daemon", !.cmd = TRUE]
<1>1. /\ f \in EpPipe /\ f.state = p.state /\ f.buf = p.buf /\ f.pend = p.pend /\ f.done = p.done
      /\ f.exec = p.exec /\ f.waiter = "daemon" /\ f.cmd = TRUE /\ f.hasUrb = p.hasUrb
  BY DEF EpPipe, Good, Sound
<1> HIDE DEF f
<1>2. Good(f) /\ Held(f) = Held(p) BY <1>1 DEF Good, Sound, Held, Full
<1> QED BY <1>1, <1>2 DEF f

\* The counts are right after a step in which nobody takes or gives a transfer.
LEMMA CountsStay ==
    ASSUME EpInv, Eps' = Eps, \A f \in Ep : wrap'[f].count = wrap[f].count,
           \A f \in Ep : Queue(f)' = Queue(f), \A f \in Ep : Alive(f)' <=> Alive(f),
           Handler'.to = Handler.to, Api'.to = Api.to, Handler'.ep = Handler.ep,
           Handler'.n = Handler.n
    PROVE  CountsAreRight'
<1>1. \A f \in Eps : Owed(f)' = Owed(f) BY DEF Owed
<1>2. \A f \in Eps : Alive(f)' => Alive(f) /\ Queue(f)' = Queue(f) /\ Owed(f)' = Owed(f)
  BY <1>1, Known
<1> QED BY <1>2, CountsSame

\* The handler begins with empty hands.
LEMMA HandleEventsKeeps == ASSUME EpInv, HandleEvents PROVE BooksInv'
<1>1. Eps' = Eps /\ Uses' = Uses /\ (\A f \in Ep : Queue(f)' = Queue(f)) /\ pipe' = pipe
      /\ UNCHANGED <<port, gone, acts, wrap, pendingEps, dmn>>
  BY TypesStay, PipesUnchanged DEF EpInv, SamePipes, HandleEvents, fixed
<1>2. Handler.at = "idle" /\ Handler' = [Handler EXCEPT !.at = "loop"] /\ Api' = Api
  BY HandlerMoves DEF HandleEvents, Handler, At
<1>3. Handler'.at = "loop" /\ Handler'.ep = Handler.ep
      /\ Handler'.to = Handler.to /\ Handler'.n = Handler.n
  BY <1>2, Known DEF TaskType
<1>4. HandsEmpty' BY <1>1, <1>2, <1>3 DEF EpInv, BooksInv, HandsEmpty
<1>5. CountsAreRight'
  BY <1>1, <1>2, <1>3, Known, QueueIsCounted DEF EpInv, BooksInv, CountsAreRight, Owed, One, Alive
<1>6. Announced' BY <1>1, <1>2, <1>3, Known DEF EpInv, BooksInv, Announced
<1>7. LivesOn'
  BY <1>1, <1>2, <1>3, Known DEF EpInv, BooksInv, LivesOn, Alive
<1>8. PendingAgree'
  BY <1>1, <1>2, <1>3 DEF EpInv, BooksInv, PendingAgree, In
<1>9. FreeingIsQuiet'
  BY <1>1, <1>2, <1>3, Known DEF EpInv, BooksInv, FreeingIsQuiet
<1>10. HaltsHold'
  BY <1>1, <1>2, <1>3, Where DEF EpInv, BooksInv, HaltsHold, Conn
<1>11. ErrorsHalt'
  BY <1>1, <1>2, <1>3, Where DEF EpInv, BooksInv, ErrorsHalt, Alive
<1>12. Possible'
  BY <1>1, <1>2, <1>3, Known DEF EpInv, BooksInv, Possible, Conn
<1> QED BY <1>4, <1>5, <1>6, <1>7, <1>8, <1>9, <1>10, <1>11, <1>12 DEF BooksInv

\* The handler ends when the list is empty: it need not be woken.
LEMMA HandledEventsKeeps == ASSUME EpInv, HandledEvents PROVE BooksInv'
<1>1. Eps' = Eps /\ Uses' = Uses /\ (\A f \in Ep : Queue(f)' = Queue(f)) /\ pipe' = pipe
      /\ UNCHANGED <<port, gone, acts, wrap, pendingEps, dmn, sem>>
  BY TypesStay, PipesUnchanged DEF EpInv, SamePipes, HandledEvents, fixed
<1>2. Handler.at = "loop" /\ pendingEps = <<>> /\ Handler' = [Handler EXCEPT !.at = "idle"] /\ Api' = Api
  BY HandlerMoves DEF HandledEvents, Handler
<1>3. Handler'.at = "idle" /\ Handler'.ep = Handler.ep
      /\ Handler'.to = Handler.to /\ Handler'.n = Handler.n
  BY <1>2, Known DEF TaskType
<1>4. HandsEmpty' BY <1>1, <1>2, <1>3 DEF EpInv, BooksInv, HandsEmpty
<1>5. CountsAreRight'
  BY <1>1, <1>2, <1>3, Known, QueueIsCounted DEF EpInv, BooksInv, CountsAreRight, Owed, One, Alive
<1>6. Announced' BY <1>1, <1>2, <1>3, Known DEF EpInv, BooksInv, Announced
<1>7. LivesOn'
  BY <1>1, <1>2, <1>3, Known DEF EpInv, BooksInv, LivesOn, Alive
<1>8. PendingAgree'
  BY <1>1, <1>2, <1>3 DEF EpInv, BooksInv, PendingAgree, In
<1>9. FreeingIsQuiet'
  BY <1>1, <1>2, <1>3, Known DEF EpInv, BooksInv, FreeingIsQuiet
<1>10. HaltsHold'
  BY <1>1, <1>2, <1>3, Where DEF EpInv, BooksInv, HaltsHold, Conn
<1>11. ErrorsHalt'
  BY <1>1, <1>2, <1>3, Where DEF EpInv, BooksInv, ErrorsHalt, Alive
<1>12. Possible'
  BY <1>1, <1>2, <1>3, Known DEF EpInv, BooksInv, Possible, Conn
<1> QED BY <1>4, <1>5, <1>6, <1>7, <1>8, <1>9, <1>10, <1>11, <1>12 DEF BooksInv

\* A callback that submitted nothing changes nothing.
LEMMA CallbackReturnsKeeps == ASSUME EpInv, CallbackReturns PROVE BooksInv'
<1>1. Eps' = Eps /\ Uses' = Uses /\ (\A f \in Ep : Queue(f)' = Queue(f)) /\ pipe' = pipe
      /\ UNCHANGED <<port, gone, acts, wrap, pendingEps, dmn, sem>>
  BY TypesStay, PipesUnchanged DEF EpInv, SamePipes, CallbackReturns, fixed
<1>2. Handler.at = "callback" /\ Handler' = [Handler EXCEPT !.at = "dequeue"] /\ Api' = Api
  BY HandlerMoves DEF CallbackReturns, Handler, At
<1>3. Handler'.at = "dequeue" /\ Handler'.ep = Handler.ep
      /\ Handler'.to = Handler.to /\ Handler'.n = Handler.n
  BY <1>2, Known DEF TaskType
<1>4. HandsEmpty' BY <1>1, <1>2, <1>3 DEF EpInv, BooksInv, HandsEmpty
<1>5. CountsAreRight'
  BY <1>1, <1>2, <1>3, Known, QueueIsCounted DEF EpInv, BooksInv, CountsAreRight, Owed, One, Alive
<1>6. Announced' BY <1>1, <1>2, <1>3, Known DEF EpInv, BooksInv, Announced
<1>7. LivesOn'
  BY <1>1, <1>2, <1>3, Known DEF EpInv, BooksInv, LivesOn, Alive
<1>8. PendingAgree'
  BY <1>1, <1>2, <1>3 DEF EpInv, BooksInv, PendingAgree, In
<1>9. FreeingIsQuiet'
  BY <1>1, <1>2, <1>3, Known DEF EpInv, BooksInv, FreeingIsQuiet
<1>10. HaltsHold'
  BY <1>1, <1>2, <1>3, Where DEF EpInv, BooksInv, HaltsHold, Conn
<1>11. ErrorsHalt'
  BY <1>1, <1>2, <1>3, Where DEF EpInv, BooksInv, ErrorsHalt, Alive
<1>12. Possible'
  BY <1>1, <1>2, <1>3, Known DEF EpInv, BooksInv, Possible, Conn
<1> QED BY <1>4, <1>5, <1>6, <1>7, <1>8, <1>9, <1>10, <1>11, <1>12 DEF BooksInv

\* The release ends, and the handler may find endpoints again.
LEMMA ReleasedKeeps == ASSUME EpInv, Released PROVE BooksInv'
<1>1. Eps' = Eps /\ Uses' = Uses /\ (\A f \in Ep : Queue(f)' = Queue(f)) /\ pipe' = pipe
      /\ UNCHANGED <<port, gone, acts, wrap, pendingEps, dmn, sem>>
  BY TypesStay, PipesUnchanged DEF EpInv, SamePipes, Released, fixed
<1>2. Api.at = "free" /\ Api' = [Api EXCEPT !.at = "idle", !.ep = NoEp, !.left = {}] /\ Handler' = Handler
  BY ApiMoves DEF Released, Api, Rest
<1>3. Api'.at = "idle" /\ Api'.ep = NoEp /\ Api'.to = Api.to
  BY <1>2, Known DEF TaskType
<1>4. HandsEmpty' BY <1>1, <1>2, <1>3 DEF EpInv, BooksInv, HandsEmpty
<1>5. CountsAreRight'
  BY <1>1, <1>2, <1>3, Known, QueueIsCounted DEF EpInv, BooksInv, CountsAreRight, Owed, One, Alive
<1>6. Announced' BY <1>1, <1>2, <1>3, Known DEF EpInv, BooksInv, Announced
<1>7. LivesOn'
  BY <1>1, <1>2, <1>3, Known DEF EpInv, BooksInv, LivesOn, Alive
<1>8. PendingAgree'
  BY <1>1, <1>2, <1>3 DEF EpInv, BooksInv, PendingAgree, In
<1>9. FreeingIsQuiet'
  BY <1>1, <1>2, <1>3, Known DEF EpInv, BooksInv, FreeingIsQuiet
<1>10. HaltsHold'
  BY <1>1, <1>2, <1>3, Where DEF EpInv, BooksInv, HaltsHold, Conn
<1>11. ErrorsHalt'
  BY <1>1, <1>2, <1>3, Where DEF EpInv, BooksInv, ErrorsHalt, Alive
<1>12. Possible'
  BY <1>1, <1>2, <1>3, Known DEF EpInv, BooksInv, Possible, Conn
<1> QED BY <1>4, <1>5, <1>6, <1>7, <1>8, <1>9, <1>10, <1>11, <1>12 DEF BooksInv

\* A release begins when nobody works on the endpoints.
LEMMA ReleaseKeeps == ASSUME EpInv, Release PROVE BooksInv'
<1>1. Eps' = Eps /\ Uses' = Uses /\ (\A f \in Ep : Queue(f)' = Queue(f)) /\ pipe' = pipe
      /\ UNCHANGED <<port, gone, acts, wrap, pendingEps, dmn, sem>>
  BY TypesStay, PipesUnchanged DEF EpInv, SamePipes, Release, fixed
<1>2. Api.at = "idle" /\ Api' = [Api EXCEPT !.at = "free", !.left = Eps] /\ Handler' = Handler
  BY ApiMoves, ZenonT(60) DEF Release, Api
<1>3. Api'.at = "free" /\ Api'.ep = Api.ep /\ Api'.to = Api.to
  BY <1>2, Known DEF TaskType
<1>4. Handler.at \in {"idle", "loop"} /\ dmn.at # "notify"
      /\ \A e \in Eps : wrap[e].count = 0 /\ ~wrap[e].pending
  <2>1. Eps # {} => Calm BY DEF EpInv, EpSafe, Gentle, Calm, Uses, Eps
  <2>2. Eps = {} => Handler.at \in {"idle", "loop"} /\ dmn.at # "notify"
    BY Known DEF AllKnow, TaskKnows, DaemonKnows, TaskType, DaemonType, Worker, Handler,
             EpInv, BooksInv, HandsEmpty
  <2> QED BY <2>1, <2>2 DEF Release, Releasable
<1>5. HandsEmpty' BY <1>1, <1>2, <1>3, <1>4 DEF EpInv, BooksInv, HandsEmpty
<1>6. CountsAreRight'
  BY <1>1, <1>2, <1>3, <1>4, Known, QueueIsCounted DEF EpInv, BooksInv, CountsAreRight, Owed, One, Alive
<1>7. Announced'
  BY <1>1, <1>2, <1>3, <1>4, Known DEF EpInv, BooksInv, Announced
<1>8. LivesOn'
  BY <1>1, <1>2, <1>3, <1>4, Known DEF EpInv, BooksInv, LivesOn, Alive
<1>9. PendingAgree'
  BY <1>1, <1>2, <1>3, <1>4 DEF EpInv, BooksInv, PendingAgree, In
<1>10. FreeingIsQuiet'
  BY <1>1, <1>2, <1>3, <1>4, Known DEF EpInv, BooksInv, FreeingIsQuiet
<1>11. HaltsHold'
  BY <1>1, <1>2, <1>3, <1>4, Where DEF EpInv, BooksInv, HaltsHold, Conn
<1>12. ErrorsHalt'
  BY <1>1, <1>2, <1>3, <1>4, Where DEF EpInv, BooksInv, ErrorsHalt, Alive
<1>13. Possible'
  BY <1>1, <1>2, <1>3, <1>4, Known DEF EpInv, BooksInv, Possible, Conn
<1> QED BY <1>5, <1>6, <1>7, <1>8, <1>9, <1>10, <1>11, <1>12, <1>13 DEF BooksInv

\* The device goes, and with it what it was asked to do; its transfers stay.
LEMMA UnplugKeeps == ASSUME EpInv, Unplug PROVE BooksInv'
<1>1. Eps' = Eps /\ Uses' = Uses /\ (\A f \in Ep : Queue(f)' = Queue(f)) /\ pipe' = pipe
      /\ UNCHANGED <<wrap, pendingEps, dmn, sem>>
  BY TypesStay, PipesUnchanged DEF EpInv, SamePipes, Unplug, fixed
<1>2. Handler' = Handler /\ Api' = Api BY DEF Handler, Api, Unplug
<1>3. gone' /\ acts' = acts \cup {"gone"} /\ "unplug" \in Uses
      /\ port' = IF "hub" \in Uses THEN port ELSE "lost"
  BY DEF Unplug
<1>4. HandsEmpty' BY <1>1, <1>2, <1>3 DEF EpInv, BooksInv, HandsEmpty
<1>5. CountsAreRight'
  BY <1>1, <1>2, <1>3, Known, QueueIsCounted DEF EpInv, BooksInv, CountsAreRight, Owed, One, Alive
<1>6. Announced' BY <1>1, <1>2, <1>3, Known DEF EpInv, BooksInv, Announced
<1>7. LivesOn'
  BY <1>1, <1>2, <1>3, Known DEF EpInv, BooksInv, LivesOn, Alive
<1>8. PendingAgree'
  BY <1>1, <1>2, <1>3 DEF EpInv, BooksInv, PendingAgree, In
<1>9. FreeingIsQuiet'
  BY <1>1, <1>2, <1>3, Known DEF EpInv, BooksInv, FreeingIsQuiet
<1>10. HaltsHold'
  BY <1>1, <1>2, <1>3, Where DEF EpInv, BooksInv, HaltsHold, Conn
<1>11. ErrorsHalt'
  BY <1>1, <1>2, <1>3, Where DEF EpInv, BooksInv, ErrorsHalt, Alive
<1>12. Possible'
  BY <1>1, <1>2, <1>3, Known DEF EpInv, BooksInv, Possible, Conn
<1> QED BY <1>4, <1>5, <1>6, <1>7, <1>8, <1>9, <1>10, <1>11, <1>12 DEF BooksInv

\* A suspension is asked for where it can be.
LEMMA AskSuspendKeeps == ASSUME EpInv, AskSuspend PROVE BooksInv'
<1>1. Eps' = Eps /\ Uses' = Uses /\ (\A f \in Ep : Queue(f)' = Queue(f)) /\ pipe' = pipe
      /\ UNCHANGED <<wrap, pendingEps, dmn, sem, gone, port>>
  BY TypesStay, PipesUnchanged DEF EpInv, SamePipes, AskSuspend, fixed
<1>2. Handler' = Handler /\ Api' = Api BY DEF Handler, Api, AskSuspend
<1>3. acts' = {"suspend"} /\ "suspend" \in Uses BY DEF AskSuspend
<1>4. HandsEmpty' BY <1>1, <1>2, <1>3 DEF EpInv, BooksInv, HandsEmpty
<1>5. CountsAreRight'
  BY <1>1, <1>2, <1>3, Known, QueueIsCounted DEF EpInv, BooksInv, CountsAreRight, Owed, One, Alive
<1>6. Announced' BY <1>1, <1>2, <1>3, Known DEF EpInv, BooksInv, Announced
<1>7. LivesOn'
  BY <1>1, <1>2, <1>3, Known DEF EpInv, BooksInv, LivesOn, Alive
<1>8. PendingAgree'
  BY <1>1, <1>2, <1>3 DEF EpInv, BooksInv, PendingAgree, In
<1>9. FreeingIsQuiet'
  BY <1>1, <1>2, <1>3, Known DEF EpInv, BooksInv, FreeingIsQuiet
<1>10. HaltsHold'
  BY <1>1, <1>2, <1>3, Where DEF EpInv, BooksInv, HaltsHold, Conn
<1>11. ErrorsHalt'
  BY <1>1, <1>2, <1>3, Where DEF EpInv, BooksInv, ErrorsHalt, Alive
<1>12. Possible'
  BY <1>1, <1>2, <1>3, Known DEF EpInv, BooksInv, Possible, Conn
<1> QED BY <1>4, <1>5, <1>6, <1>7, <1>8, <1>9, <1>10, <1>11, <1>12 DEF BooksInv

\* The port is resumed, the pipes are still to be cleared.
LEMMA ResumePortKeeps == ASSUME EpInv, ResumePort PROVE BooksInv'
<1>1. Eps' = Eps /\ Uses' = Uses /\ (\A f \in Ep : Queue(f)' = Queue(f)) /\ pipe' = pipe
      /\ UNCHANGED <<wrap, pendingEps, dmn, sem, gone>>
  BY TypesStay, PipesUnchanged DEF EpInv, SamePipes, ResumePort, fixed
<1>2. Handler' = Handler /\ Api' = Api BY DEF Handler, Api, ResumePort
<1>3. port = "suspended" /\ port' = "enabled" /\ acts' = (acts \ {"resume_port"}) \cup {"resume"}
  BY DEF ResumePort
<1>4. HandsEmpty' BY <1>1, <1>2, <1>3 DEF EpInv, BooksInv, HandsEmpty
<1>5. CountsAreRight'
  BY <1>1, <1>2, <1>3, Known, QueueIsCounted DEF EpInv, BooksInv, CountsAreRight, Owed, One, Alive
<1>6. Announced' BY <1>1, <1>2, <1>3, Known DEF EpInv, BooksInv, Announced
<1>7. LivesOn'
  BY <1>1, <1>2, <1>3, Known DEF EpInv, BooksInv, LivesOn, Alive
<1>8. PendingAgree'
  BY <1>1, <1>2, <1>3 DEF EpInv, BooksInv, PendingAgree, In
<1>9. FreeingIsQuiet'
  BY <1>1, <1>2, <1>3, Known DEF EpInv, BooksInv, FreeingIsQuiet
<1>10. HaltsHold'
  BY <1>1, <1>2, <1>3, Where DEF EpInv, BooksInv, HaltsHold, Conn
<1>11. ErrorsHalt'
  BY <1>1, <1>2, <1>3, Where DEF EpInv, BooksInv, ErrorsHalt, Alive
<1>12. Possible'
  BY <1>1, <1>2, <1>3, Known DEF EpInv, BooksInv, Possible, Conn
<1> QED BY <1>4, <1>5, <1>6, <1>7, <1>8, <1>9, <1>10, <1>11, <1>12 DEF BooksInv

\* The daemon sets out for the endpoints; if it is to clear them, no task waits for one.
LEMMA WalkKeeps ==
    ASSUME EpInv, NEW why \in {"gone", "suspend", "resume"}, Walk(why)
    PROVE BooksInv'
<1>1. Eps' = Eps /\ Uses' = Uses /\ (\A f \in Ep : Queue(f)' = Queue(f)) /\ pipe' = pipe
      /\ UNCHANGED <<wrap, pendingEps, sem, gone, port>>
  BY TypesStay, PipesUnchanged DEF EpInv, SamePipes, Walk, fixed
<1>2. Handler' = Handler /\ Api' = Api BY DEF Handler, Api, Walk
<1>3. dmn.at = "idle" /\ why \in acts /\ acts' = acts \ {why} /\ dmn'.at = "walk" /\ dmn'.ep = NoEp /\ dmn'.why = why
  BY Known DEF DaemonType, Walk
<1>4. why = "resume" /\ Eps # {} => Api.at # "wait"
  <2>1. Eps # {} => Calm BY DEF EpInv, EpSafe, Gentle, Calm, Uses, Eps
  <2>2. \A x \in Eps : Calm => (why = "gone" \/ Api.at # "wait") BY DEF Walk
  <2> QED BY <2>1, <2>2
<1>5. Api.at = "wait" => Eps # {}
  BY Known DEF AllKnow, TaskKnows, TaskType, Worker, Api
<1>6. HandsEmpty'
  BY <1>1, <1>2, <1>3, <1>4, <1>5 DEF EpInv, BooksInv, HandsEmpty
<1>7. CountsAreRight'
  BY <1>1, <1>2, <1>3, <1>4, <1>5, Known, QueueIsCounted DEF EpInv, BooksInv, CountsAreRight, Owed, One, Alive
<1>8. Announced'
  BY <1>1, <1>2, <1>3, <1>4, <1>5, Known DEF EpInv, BooksInv, Announced
<1>9. LivesOn'
  BY <1>1, <1>2, <1>3, <1>4, <1>5, Known DEF EpInv, BooksInv, LivesOn, Alive
<1>10. PendingAgree'
  BY <1>1, <1>2, <1>3, <1>4, <1>5 DEF EpInv, BooksInv, PendingAgree, In
<1>11. FreeingIsQuiet'
  BY <1>1, <1>2, <1>3, <1>4, <1>5, Known DEF EpInv, BooksInv, FreeingIsQuiet
<1>12. HaltsHold'
  BY <1>1, <1>2, <1>3, <1>4, <1>5, Where DEF EpInv, BooksInv, HaltsHold, Conn
<1>13. ErrorsHalt'
  BY <1>1, <1>2, <1>3, <1>4, <1>5, Where DEF EpInv, BooksInv, ErrorsHalt, Alive
<1>14. Possible'
  BY <1>1, <1>2, <1>3, <1>4, <1>5, Known DEF EpInv, BooksInv, Possible, Conn
<1> QED BY <1>6, <1>7, <1>8, <1>9, <1>10, <1>11, <1>12, <1>13, <1>14 DEF BooksInv

\* The daemon has seen to every endpoint.
LEMMA WalkEndsKeeps == ASSUME EpInv, WalkEnds PROVE BooksInv'
<1>1. Eps' = Eps /\ Uses' = Uses /\ (\A f \in Ep : Queue(f)' = Queue(f)) /\ pipe' = pipe
      /\ UNCHANGED <<wrap, pendingEps, sem, gone, port, acts>>
  BY TypesStay, PipesUnchanged DEF EpInv, SamePipes, WalkEnds, fixed
<1>2. Handler' = Handler /\ Api' = Api BY DEF Handler, Api, WalkEnds
<1>3. dmn.at = "walk" /\ dmn'.at = (IF dmn.why = "suspend" THEN "suspend" ELSE "idle") /\ dmn'.ep = dmn.ep /\ dmn'.why = dmn.why
  BY Known DEF DaemonType, WalkEnds
<1>4. HandsEmpty' BY <1>1, <1>2, <1>3 DEF EpInv, BooksInv, HandsEmpty
<1>5. CountsAreRight'
  BY <1>1, <1>2, <1>3, Known, QueueIsCounted DEF EpInv, BooksInv, CountsAreRight, Owed, One, Alive
<1>6. Announced' BY <1>1, <1>2, <1>3, Known DEF EpInv, BooksInv, Announced
<1>7. LivesOn'
  BY <1>1, <1>2, <1>3, Known DEF EpInv, BooksInv, LivesOn, Alive
<1>8. PendingAgree'
  BY <1>1, <1>2, <1>3 DEF EpInv, BooksInv, PendingAgree, In
<1>9. FreeingIsQuiet'
  BY <1>1, <1>2, <1>3, Known DEF EpInv, BooksInv, FreeingIsQuiet
<1>10. HaltsHold'
  BY <1>1, <1>2, <1>3, Where DEF EpInv, BooksInv, HaltsHold, Conn
<1>11. ErrorsHalt'
  BY <1>1, <1>2, <1>3, Where DEF EpInv, BooksInv, ErrorsHalt, Alive
<1>12. Possible'
  BY <1>1, <1>2, <1>3, Known DEF EpInv, BooksInv, Possible, Conn
<1> QED BY <1>4, <1>5, <1>6, <1>7, <1>8, <1>9, <1>10, <1>11, <1>12 DEF BooksInv

\* The port is suspended, where it can be.
LEMMA SuspendPortKeeps == ASSUME EpInv, SuspendPort PROVE BooksInv'
<1>1. Eps' = Eps /\ Uses' = Uses /\ (\A f \in Ep : Queue(f)' = Queue(f)) /\ pipe' = pipe
      /\ UNCHANGED <<wrap, pendingEps, sem, gone, acts>>
  BY TypesStay, PipesUnchanged DEF EpInv, SamePipes, SuspendPort, fixed
<1>2. Handler' = Handler /\ Api' = Api BY DEF Handler, Api, SuspendPort
<1>3. dmn.at = "suspend" /\ dmn'.at = "idle" /\ dmn'.ep = dmn.ep /\ dmn'.why = dmn.why
  BY Known DEF DaemonType, SuspendPort
<1>4. port' = IF port = "enabled" THEN "suspended" ELSE port
  BY DEF SuspendPort
<1>5. HandsEmpty' BY <1>1, <1>2, <1>3, <1>4 DEF EpInv, BooksInv, HandsEmpty
<1>6. CountsAreRight'
  BY <1>1, <1>2, <1>3, <1>4, Known, QueueIsCounted DEF EpInv, BooksInv, CountsAreRight, Owed, One, Alive
<1>7. Announced'
  BY <1>1, <1>2, <1>3, <1>4, Known DEF EpInv, BooksInv, Announced
<1>8. LivesOn'
  BY <1>1, <1>2, <1>3, <1>4, Known DEF EpInv, BooksInv, LivesOn, Alive
<1>9. PendingAgree'
  BY <1>1, <1>2, <1>3, <1>4 DEF EpInv, BooksInv, PendingAgree, In
<1>10. FreeingIsQuiet'
  BY <1>1, <1>2, <1>3, <1>4, Known DEF EpInv, BooksInv, FreeingIsQuiet
<1>11. HaltsHold'
  BY <1>1, <1>2, <1>3, <1>4, Where DEF EpInv, BooksInv, HaltsHold, Conn
<1>12. ErrorsHalt'
  BY <1>1, <1>2, <1>3, <1>4, Where DEF EpInv, BooksInv, ErrorsHalt, Alive
<1>13. Possible'
  BY <1>1, <1>2, <1>3, <1>4, Known DEF EpInv, BooksInv, Possible, Conn
<1> QED BY <1>5, <1>6, <1>7, <1>8, <1>9, <1>10, <1>11, <1>12, <1>13 DEF BooksInv

\* The handler takes an endpoint off the list, and knows its event: an endpoint whose last event was an error is halted.
LEMMA NextEpKeeps == ASSUME EpInv, NextEp PROVE BooksInv'
<1>1. Eps' = Eps /\ Uses' = Uses /\ (\A f \in Ep : Queue(f)' = Queue(f)) /\ pipe' = pipe
      /\ UNCHANGED <<port, gone, acts, dmn, sem>>
  BY TypesStay, PipesUnchanged DEF EpInv, SamePipes, NextEp, fixed
<1>2. PICK e \in Eps : e = Head(pendingEps) /\ wrap[e].pending /\ Handler.at = "loop"
      /\ pendingEps \in Seq(Eps) /\ pendingEps # <<>>
  BY TailLists, Known DEF NextEp, BooksOK, EpInv, BooksInv, PendingAgree
<1>3. wrap' = [wrap EXCEPT ![e].pending = FALSE] /\ pendingEps' = Tail(pendingEps)
  BY <1>2 DEF NextEp
<1>4. /\ wrap'[e].pending = FALSE /\ wrap'[e].last = wrap[e].last /\ wrap'[e].count = wrap[e].count
      /\ \A f \in Ep \ {e} : wrap'[f] = wrap[f]
  BY <1>3, Known DEF BooksOK
<1>5. PICK s \in {"flush", "dequeue"} : /\ s = IF wrap[e].last = "error" THEN "flush" ELSE "dequeue"
      /\ task' = [task EXCEPT !["handler"] = [Handler EXCEPT !.at = s, !.ep = e, !.n = 0]]
  BY <1>2 DEF NextEp, Handler
<1>6. Handler' = [Handler EXCEPT !.at = s, !.ep = e, !.n = 0] /\ Api' = Api
  BY <1>5, HandlerMoves
<1>7. Handler'.at = s /\ Handler'.ep = e
      /\ Handler'.to = Handler.to /\ Handler'.n = 0
  BY <1>6, Known DEF TaskType
<1>8. HandsEmpty'
  BY <1>1, <1>2, <1>3, <1>4, <1>5, <1>6, <1>7 DEF EpInv, BooksInv, HandsEmpty
<1>9. CountsAreRight'
  <2>1. \A f \in Ep : wrap'[f].count = wrap[f].count /\ (Alive(f)' <=> Alive(f))
    BY <1>1, <1>4 DEF Alive
  <2>2. Handler.ep = NoEp /\ Handler.n = 0
    BY <1>2 DEF EpInv, BooksInv, HandsEmpty
  <2>3. \A f \in Eps : Owed(f)' = Owed(f)
    BY <1>6, <1>7, <2>2, Known DEF Owed, One
  <2> QED BY <1>1, <2>1, <2>3, CountsSame, Known
<1>10. Announced'
  BY <1>1, <1>2, <1>3, <1>4, <1>5, <1>6, <1>7, Known DEF EpInv, BooksInv, Announced
<1>11. LivesOn'
  BY <1>1, <1>2, <1>3, <1>4, <1>5, <1>6, <1>7, Known DEF EpInv, BooksInv, LivesOn, Alive
<1>12. PendingAgree'
  <2>1. PICK l \in Seq(Eps) : l = pendingEps BY <1>2
  <2>2. /\ \A i, j \in DOMAIN Tail(l) : Tail(l)[i] = Tail(l)[j] => i = j
        /\ \A f \in Eps : In(f, Tail(l)) <=> In(f, l) /\ f # e
    BY <1>2, <2>1, TailLists DEF EpInv, BooksInv, PendingAgree
  <2>3. \A f \in Eps : wrap'[f].pending <=> In(f, Tail(l))
    BY <1>4, <2>1, <2>2, Known DEF EpInv, BooksInv, PendingAgree
  <2>4. \A f \in Eps : In(f, Tail(l)) <=> In(f, pendingEps)'
    BY <1>3, <2>1 DEF In
  <2>5. \A f \in Eps : wrap'[f].pending <=> In(f, pendingEps)'
    BY <2>3, <2>4, Zenon
  <2>6. \A i, j \in DOMAIN pendingEps' : pendingEps'[i] = pendingEps'[j] => i = j
    BY <1>3, <2>1, <2>2
  <2> QED BY <1>1, <2>5, <2>6, Zenon DEF PendingAgree
<1>13. FreeingIsQuiet'
  BY <1>1, <1>2, <1>3, <1>4, <1>5, <1>6, <1>7, Known DEF EpInv, BooksInv, FreeingIsQuiet
<1>14. HaltsHold'
  BY <1>1, <1>2, <1>3, <1>4, <1>5, <1>6, <1>7, Where DEF EpInv, BooksInv, HaltsHold, Conn
<1>15. ErrorsHalt'
  <2>1. \A f \in Eps : wrap'[f].pending => wrap[f].pending /\ wrap'[f].last = wrap[f].last
    BY <1>2, <1>4, Known
  <2>2. s = "flush" => pipe[e].state = "halted"
    BY <1>2, <1>5 DEF EpInv, BooksInv, ErrorsHalt, LivesOn
  <2> QED BY <1>1, <1>7, <2>1, <2>2 DEF EpInv, BooksInv, ErrorsHalt, Alive
<1>16. Possible'
  BY <1>1, <1>2, <1>3, <1>4, <1>5, <1>6, <1>7, Known DEF EpInv, BooksInv, Possible, Conn
<1> QED BY <1>8, <1>9, <1>10, <1>11, <1>12, <1>13, <1>14, <1>15, <1>16 DEF BooksInv

\* The handler deducts what it dequeued: nothing more is deducted than was counted.
LEMMA HandlerCountKeeps == ASSUME EpInv, HandlerCount PROVE BooksInv'
<1>1. Eps' = Eps /\ Uses' = Uses /\ (\A f \in Ep : Queue(f)' = Queue(f)) /\ pipe' = pipe
      /\ UNCHANGED <<port, gone, acts, dmn, sem, pendingEps>>
  BY TypesStay, PipesUnchanged DEF EpInv, SamePipes, HandlerCount, fixed
<1>2. PICK e \in Eps : e = Handler.ep /\ Handler.at = "count" /\ Alive(e)
  BY Known DEF HandlerCount, AllKnow, TaskKnows, TaskType, Worker, Handler, EpInv, BooksInv, LivesOn
<1>3. wrap[e].count \in Int /\ Handler.n \in Nat /\ Handler.to = NoEp
      /\ wrap[e].count = Len(Queue(e)) + One(Api.to, e) + Handler.n /\ Handler.n <= wrap[e].count
  <2>1. /\ wrap[e].count = Len(Queue(e)) + Owed(e) /\ wrap[e].count \in Nat
        /\ Len(Queue(e)) \in Nat /\ Handler.n \in Nat /\ Handler.to = NoEp /\ NoEp # e
    BY <1>2, Known, QueueIsCounted DEF EpInv, BooksInv, CountsAreRight, HandsEmpty, TaskType
  <2> QED BY <1>2, <2>1 DEF Owed, One
<1>4. /\ wrap' = [wrap EXCEPT ![e].count = @ - Handler.n]
      /\ task' = [task EXCEPT !["handler"] = [Handler EXCEPT !.at = "loop", !.ep = NoEp, !.urb = NoUrb, !.n = 0]]
  BY <1>2, <1>3 DEF HandlerCount, Handler
<1>5. /\ wrap'[e].pending = wrap[e].pending /\ wrap'[e].last = wrap[e].last
      /\ wrap'[e].count = wrap[e].count - Handler.n /\ \A f \in Ep \ {e} : wrap'[f] = wrap[f]
  BY <1>4, Known DEF BooksOK
<1>6. Handler' = [Handler EXCEPT !.at = "loop", !.ep = NoEp, !.urb = NoUrb, !.n = 0] /\ Api' = Api
  BY <1>4, HandlerMoves
<1>7. Handler'.at = "loop" /\ Handler'.ep = NoEp
      /\ Handler'.to = Handler.to /\ Handler'.n = 0
  BY <1>6, Known DEF TaskType
<1>8. HandsEmpty'
  BY <1>1, <1>2, <1>3, <1>4, <1>5, <1>6, <1>7 DEF EpInv, BooksInv, HandsEmpty
<1>9. CountsAreRight'
  <2>1. \A f \in Ep : wrap'[f].count \in Nat
    <3>1. wrap[e].count - Handler.n \in Nat BY <1>3
    <3> QED BY <1>5, <3>1 DEF EpInv, BooksInv, CountsAreRight
  <2>2. ASSUME NEW f \in Eps, f # e
        PROVE  wrap'[f].count = wrap[f].count /\ Owed(f)' = Owed(f)
    BY <1>2, <1>5, <1>6, <1>7, <2>2, Known DEF Owed, One
  <2>3. Owed(e)' = One(Api.to, e) + 0 /\ One(Api.to, e) \in Nat
    BY <1>2, <1>3, <1>6, <1>7, Known DEF Owed, One
  <2>4. wrap'[e].count = Len(Queue(e))' + Owed(e)'
    BY <1>1, <1>2, <1>3, <1>5, <2>3, QueueIsCounted, Known
  <2>5. ASSUME NEW f \in Eps, Alive(f)' PROVE wrap'[f].count = Len(Queue(f))' + Owed(f)'
    BY <1>1, <2>2, <2>4, <2>5, Known DEF EpInv, BooksInv, CountsAreRight, Alive
  <2> QED BY <1>1, <2>1, <2>5, Zenon DEF CountsAreRight
<1>10. Announced'
  BY <1>1, <1>2, <1>3, <1>4, <1>5, <1>6, <1>7, Known DEF EpInv, BooksInv, Announced
<1>11. LivesOn'
  BY <1>1, <1>2, <1>3, <1>4, <1>5, <1>6, <1>7, Known DEF EpInv, BooksInv, LivesOn, Alive
<1>12. PendingAgree'
  BY <1>1, <1>2, <1>3, <1>4, <1>5, <1>6, <1>7 DEF EpInv, BooksInv, PendingAgree, In
<1>13. FreeingIsQuiet'
  BY <1>1, <1>2, <1>3, <1>4, <1>5, <1>6, <1>7, Known DEF EpInv, BooksInv, FreeingIsQuiet
<1>14. HaltsHold'
  BY <1>1, <1>2, <1>3, <1>4, <1>5, <1>6, <1>7, Where DEF EpInv, BooksInv, HaltsHold, Conn
<1>15. ErrorsHalt'
  BY <1>1, <1>2, <1>3, <1>4, <1>5, <1>6, <1>7, Where DEF EpInv, BooksInv, ErrorsHalt, Alive
<1>16. Possible'
  BY <1>1, <1>2, <1>3, <1>4, <1>5, <1>6, <1>7, Known DEF EpInv, BooksInv, Possible, Conn
<1> QED BY <1>8, <1>9, <1>10, <1>11, <1>12, <1>13, <1>14, <1>15, <1>16 DEF BooksInv

\* A transfer that is submitted by its callback is counted.
LEMMA HandlerSubmitsKeeps ==
    ASSUME EpInv, NEW u \in Urbs, NEW e \in Eps, SubmitCount("handler", u, e)
    PROVE BooksInv'
<1>1. Eps' = Eps /\ Uses' = Uses /\ (\A f \in Ep : Queue(f)' = Queue(f)) /\ pipe' = pipe
      /\ UNCHANGED <<port, gone, acts, dmn, sem, pendingEps>>
  BY TypesStay, PipesUnchanged DEF EpInv, SamePipes, SubmitCount, fixed
<1>2. Handler.at = "callback" /\ Alive(e) BY DEF SubmitCount
<1>3. /\ wrap' = [wrap EXCEPT ![e].count = @ + 1]
      /\ task' = [task EXCEPT !["handler"] = [Handler EXCEPT !.at = "check", !.urb = u, !.to = e]]
  BY Known DEF SubmitCount, Handler, Worker
<1>4. wrap'[e].pending = wrap[e].pending /\ wrap'[e].last = wrap[e].last
      /\ wrap'[e].count = wrap[e].count + 1 /\ \A f \in Ep \ {e} : wrap'[f] = wrap[f]
  BY <1>3, Known DEF BooksOK
<1>5. Handler' = [Handler EXCEPT !.at = "check", !.urb = u, !.to = e] /\ Api' = Api
  BY <1>3, HandlerMoves
<1>6. Handler'.at = "check" /\ Handler'.ep = Handler.ep
      /\ Handler'.to = e /\ Handler'.n = Handler.n
  BY <1>5, Known DEF TaskType
<1>7. HandsEmpty'
  BY <1>1, <1>2, <1>3, <1>4, <1>5, <1>6 DEF EpInv, BooksInv, HandsEmpty
<1>8. CountsAreRight'
  <2>1. \A f \in Eps \ {e} : Owed(f)' = Owed(f) /\ (Alive(f)' <=> Alive(f))
    BY <1>1, <1>2, <1>4, <1>5, <1>6, Known DEF Owed, One, Alive, EpInv, BooksInv, HandsEmpty
  <2>2. Owed(e)' = Owed(e) + 1
    <3>1. One(Handler.to, e) \in Nat /\ One(Api.to, e) \in Nat /\ Handler.n \in Nat /\ NoEp # e
      BY OwedIs, Known
    <3> QED BY <1>1, <1>2, <1>4, <1>5, <1>6, <3>1 DEF Owed, One, EpInv, BooksInv, HandsEmpty
  <2>3. wrap'[e].count = Len(Queue(e))' + Owed(e)' /\ wrap'[e].count \in Nat
    BY <1>1, <1>2, <1>4, <2>2, OwedIs, Known
  <2>4. \A f \in Ep \ {e} : wrap'[f].count = wrap[f].count BY <1>4
  <2> QED BY <1>1, <1>2, <2>1, <2>3, <2>4, CountsMove, Known
<1>9. Announced'
  BY <1>1, <1>2, <1>3, <1>4, <1>5, <1>6, Known DEF EpInv, BooksInv, Announced
<1>10. LivesOn'
  BY <1>1, <1>2, <1>3, <1>4, <1>5, <1>6, Known DEF EpInv, BooksInv, LivesOn, Alive
<1>11. PendingAgree'
  BY <1>1, <1>2, <1>3, <1>4, <1>5, <1>6 DEF EpInv, BooksInv, PendingAgree, In
<1>12. FreeingIsQuiet'
  BY <1>1, <1>2, <1>3, <1>4, <1>5, <1>6, Known DEF EpInv, BooksInv, FreeingIsQuiet
<1>13. HaltsHold'
  BY <1>1, <1>2, <1>3, <1>4, <1>5, <1>6, Where DEF EpInv, BooksInv, HaltsHold, Conn
<1>14. ErrorsHalt'
  BY <1>1, <1>2, <1>3, <1>4, <1>5, <1>6, Where DEF EpInv, BooksInv, ErrorsHalt, Alive
<1>15. Possible'
  BY <1>1, <1>2, <1>3, <1>4, <1>5, <1>6, Known DEF EpInv, BooksInv, Possible, Conn
<1> QED BY <1>7, <1>8, <1>9, <1>10, <1>11, <1>12, <1>13, <1>14, <1>15 DEF BooksInv

\* A transfer that is submitted by the client's other task is counted.
LEMMA ApiSubmitsKeeps ==
    ASSUME EpInv, NEW u \in Urbs, NEW e \in Eps, SubmitCount("api", u, e)
    PROVE BooksInv'
<1>1. Eps' = Eps /\ Uses' = Uses /\ (\A f \in Ep : Queue(f)' = Queue(f)) /\ pipe' = pipe
      /\ UNCHANGED <<port, gone, acts, dmn, sem, pendingEps>>
  BY TypesStay, PipesUnchanged DEF EpInv, SamePipes, SubmitCount, fixed
<1>2. Api.at = "idle" /\ Alive(e) BY DEF SubmitCount
<1>3. /\ wrap' = [wrap EXCEPT ![e].count = @ + 1]
      /\ task' = [task EXCEPT !["api"] = [Api EXCEPT !.at = "check", !.urb = u, !.to = e]]
  BY Known DEF SubmitCount, Api, Worker
<1>4. wrap'[e].pending = wrap[e].pending /\ wrap'[e].last = wrap[e].last
      /\ wrap'[e].count = wrap[e].count + 1 /\ \A f \in Ep \ {e} : wrap'[f] = wrap[f]
  BY <1>3, Known DEF BooksOK
<1>5. Api' = [Api EXCEPT !.at = "check", !.urb = u, !.to = e] /\ Handler' = Handler
  BY <1>3, ApiMoves
<1>6. Api'.at = "check" /\ Api'.ep = Api.ep /\ Api'.to = e
  BY <1>5, Known DEF TaskType
<1>7. HandsEmpty'
  BY <1>1, <1>2, <1>3, <1>4, <1>5, <1>6 DEF EpInv, BooksInv, HandsEmpty
<1>8. CountsAreRight'
  <2>1. \A f \in Eps \ {e} : Owed(f)' = Owed(f) /\ (Alive(f)' <=> Alive(f))
    BY <1>1, <1>2, <1>4, <1>5, <1>6, Known DEF Owed, One, Alive, EpInv, BooksInv, HandsEmpty
  <2>2. Owed(e)' = Owed(e) + 1
    <3>1. One(Handler.to, e) \in Nat /\ One(Api.to, e) \in Nat /\ Handler.n \in Nat /\ NoEp # e
      BY OwedIs, Known
    <3> QED BY <1>1, <1>2, <1>4, <1>5, <1>6, <3>1 DEF Owed, One, EpInv, BooksInv, HandsEmpty
  <2>3. wrap'[e].count = Len(Queue(e))' + Owed(e)' /\ wrap'[e].count \in Nat
    BY <1>1, <1>2, <1>4, <2>2, OwedIs, Known, SMTT(60)
  <2>4. \A f \in Ep \ {e} : wrap'[f].count = wrap[f].count BY <1>4
  <2> QED BY <1>1, <1>2, <2>1, <2>3, <2>4, CountsMove, Known
<1>9. Announced'
  BY <1>1, <1>2, <1>3, <1>4, <1>5, <1>6, Known DEF EpInv, BooksInv, Announced
<1>10. LivesOn'
  BY <1>1, <1>2, <1>3, <1>4, <1>5, <1>6, Known DEF EpInv, BooksInv, LivesOn, Alive
<1>11. PendingAgree'
  BY <1>1, <1>2, <1>3, <1>4, <1>5, <1>6 DEF EpInv, BooksInv, PendingAgree, In
<1>12. FreeingIsQuiet'
  BY <1>1, <1>2, <1>3, <1>4, <1>5, <1>6, Known DEF EpInv, BooksInv, FreeingIsQuiet
<1>13. HaltsHold'
  BY <1>1, <1>2, <1>3, <1>4, <1>5, <1>6, Where DEF EpInv, BooksInv, HaltsHold, Conn
<1>14. ErrorsHalt'
  BY <1>1, <1>2, <1>3, <1>4, <1>5, <1>6, Where DEF EpInv, BooksInv, ErrorsHalt, Alive
<1>15. Possible'
  BY <1>1, <1>2, <1>3, <1>4, <1>5, <1>6, Known DEF EpInv, BooksInv, Possible, Conn
<1> QED BY <1>7, <1>8, <1>9, <1>10, <1>11, <1>12, <1>13, <1>14, <1>15 DEF BooksInv

\* A transfer that is enqueued, or refused, is no longer on its way.
LEMMA HandlerEnqueuesKeeps == ASSUME EpInv, SubmitCloses("handler") PROVE BooksInv'
<1>1. Eps' = Eps /\ Uses' = Uses /\ UNCHANGED <<port, gone, dmn, sem, pendingEps>>
  BY TypesStay DEF SubmitCloses, SubmitEnqueue, SubmitFails, fixed
<1>2. Handler.at \in Submitting
      /\ (\A f \in Ep : pipe'[f].state = pipe[f].state /\ pipe'[f].waiter = pipe[f].waiter
                  /\ pipe'[f].done = pipe[f].done)
  BY EnqueueKeepsStates, EnqueueIs DEF Worker, SameStates, EpInv, Enqueuing, Handler
<1>3. PICK e \in Eps : /\ e = Handler.to /\ Alive(e) /\ Handler.at \in Submitting
                        /\ (\A f \in Ep \ {e} : Queue(f)' = Queue(f) /\ wrap'[f] = wrap[f])
                        /\ wrap'[e].pending = wrap[e].pending /\ wrap'[e].last = wrap[e].last
                        /\ wrap'[e].count = Len(Queue(e))' + (wrap[e].count - Len(Queue(e)) - 1)
                        /\ Len(Queue(e))' \in Nat
  <2>1. PICK e \in Ep, u \in Urb :
           /\ e = task["handler"].to /\ task["handler"].at \in Submitting
           /\ \/ /\ Queue(e) \in Seq(Urb) /\ Queue(e)' = Append(Queue(e), u)
                 /\ \A f \in Ep \ {e} : Queue(f)' = Queue(f)
                 /\ wrap' = wrap
              \/ /\ \A f \in Ep : Queue(f)' = Queue(f)
                 /\ wrap' = [wrap EXCEPT ![e].count = @ - 1]
    BY EnqueueIs DEF Worker, EpInv, Enqueuing
  <2>2. e = Handler.to /\ Handler.at \in Submitting /\ e \in Eps /\ Alive(e)
    BY <2>1, Known DEF Handler, TaskType, EpInv, BooksInv, LivesOn
  <2>3. Len(Queue(e)) \in Nat /\ wrap[e].count \in Int
    BY QueueIsCounted, Known DEF BooksOK
  <2>4. CASE /\ Queue(e) \in Seq(Urb) /\ Queue(e)' = Append(Queue(e), u)
             /\ \A f \in Ep \ {e} : Queue(f)' = Queue(f)
             /\ wrap' = wrap
    <3>1. Len(Queue(e))' = Len(Queue(e)) + 1 BY <2>4, AppendProperties
    <3> QED BY <2>2, <2>3, <2>4, <3>1
  <2>5. CASE /\ \A f \in Ep : Queue(f)' = Queue(f)
             /\ wrap' = [wrap EXCEPT ![e].count = @ - 1]
    <3>1. Len(Queue(e))' = Len(Queue(e)) BY <2>5
    <3>2. /\ \A f \in Ep \ {e} : wrap'[f] = wrap[f]
          /\ wrap'[e].pending = wrap[e].pending /\ wrap'[e].last = wrap[e].last
          /\ wrap'[e].count = wrap[e].count - 1
      BY <2>5, Known DEF BooksOK
    <3> QED BY <2>2, <2>3, <2>5, <3>1, <3>2
  <2> QED BY <2>1, <2>4, <2>5
<1>4. \A f \in Ep : wrap'[f].pending = wrap[f].pending /\ wrap'[f].last = wrap[f].last
  BY <1>3
<1>5. acts' = acts \/ acts' = acts \cup {"resume_port"}
  BY DEF SubmitCloses, SubmitEnqueue, SubmitFails
<1>6. Handler' = [Handler EXCEPT !.at = "dequeue", !.to = NoEp] /\ Api' = Api
  <2>1. task' = [task EXCEPT !["handler"] = [Handler EXCEPT !.at = "dequeue", !.to = NoEp]]
    BY Known, ZenonT(60) DEF SubmitCloses, SubmitEnqueue, SubmitFails, SubmitErr,
                             SubmitEnds, After, Handler, Worker, TaskType
  <2> QED BY <2>1, HandlerMoves
<1>7. Handler'.at = "dequeue" /\ Handler'.ep = Handler.ep
      /\ Handler'.to = NoEp /\ Handler'.n = Handler.n
  BY <1>6, Known DEF TaskType
<1>8. HandsEmpty'
  <2>1. Handler.at \in Submitting BY <1>2
  <2> QED BY <1>1, <1>6, <1>7, <2>1 DEF EpInv, BooksInv, HandsEmpty
<1>9. CountsAreRight'
  <2>1. \A f \in Eps \ {e} : Owed(f)' = Owed(f) /\ (Alive(f)' <=> Alive(f)) /\ Queue(f)' = Queue(f)
    BY <1>1, <1>2, <1>3, <1>6, <1>7, Known DEF Owed, One, Alive
  <2>2. Owed(e) = Owed(e)' + 1 /\ Owed(e)' \in Nat
    <3>1. One(Handler.to, e) \in Nat /\ One(Api.to, e) \in Nat /\ Handler.n \in Nat /\ NoEp # e
      BY OwedIs, Known
    <3> QED BY <1>3, <1>6, <1>7, <3>1 DEF Owed, One
  <2>3. wrap'[e].count = Len(Queue(e))' + Owed(e)' /\ wrap'[e].count \in Nat
    <3>1. wrap[e].count = Len(Queue(e)) + Owed(e) /\ Len(Queue(e)) \in Nat
      BY <1>3, OwedIs
    <3>2. PICK i, j \in Nat : i = Len(Queue(e)) /\ j = Owed(e)'
      BY <2>2, <3>1
    <3>3. wrap[e].count - Len(Queue(e)) - 1 = j BY <2>2, <3>1, <3>2
    <3> QED BY <1>3, <3>2, <3>3
  <2>4. \A f \in Ep \ {e} : wrap'[f].count = wrap[f].count BY <1>3
  <2> QED BY <1>1, <1>3, <2>1, <2>3, <2>4, CountsMove, Known
<1>10. Announced'
  BY <1>1, <1>2, <1>4, <1>5, <1>6, <1>7, Known DEF EpInv, BooksInv, Announced
<1>11. LivesOn'
  <2>1. \A f \in Ep : Alive(f)' <=> Alive(f) BY <1>2 DEF Alive
  <2>2. \A f \in {Handler'.ep, Handler'.to, Api'.ep, Api'.to, dmn'.ep} \ {NoEp} :
           f \in {Handler.ep, Handler.to, Api.ep, Api.to, dmn.ep} \ {NoEp} /\ f \in Ep
    BY <1>1, <1>6, <1>7, Known DEF TaskType, DaemonType
  <2>3. \A f \in {Handler'.ep, Handler'.to, Api'.ep, Api'.to, dmn'.ep} \ {NoEp} : Alive(f)'
    BY <2>1, <2>2 DEF EpInv, BooksInv, LivesOn
  <2>4. \A f \in Eps : wrap'[f].pending => Alive(f)'
    BY <1>4, <2>1, Known DEF EpInv, BooksInv, LivesOn
  <2> QED BY <1>1, <2>3, <2>4, Zenon DEF LivesOn
<1>12. PendingAgree' BY <1>1, <1>4, PendingSame
<1>13. FreeingIsQuiet'
  BY <1>1, <1>2, <1>4, <1>5, <1>6, <1>7, Known DEF EpInv, BooksInv, FreeingIsQuiet
<1>14. HaltsHold'
  BY <1>1, <1>2, <1>4, <1>5, <1>6, <1>7, Where DEF EpInv, BooksInv, HaltsHold, Conn
<1>15. ErrorsHalt'
  BY <1>1, <1>2, <1>4, <1>5, <1>6, <1>7, Where DEF EpInv, BooksInv, ErrorsHalt, Alive
<1>16. Possible'
  BY <1>1, <1>2, <1>4, <1>5, <1>6, <1>7, Known DEF EpInv, BooksInv, Possible, Conn
<1> QED BY <1>8, <1>9, <1>10, <1>11, <1>12, <1>13, <1>14, <1>15, <1>16 DEF BooksInv

\* A transfer that is enqueued, or refused, is no longer on its way.
LEMMA ApiEnqueuesKeeps == ASSUME EpInv, SubmitCloses("api") PROVE BooksInv'
<1>1. Eps' = Eps /\ Uses' = Uses /\ UNCHANGED <<port, gone, dmn, sem, pendingEps>>
  BY TypesStay DEF SubmitCloses, SubmitEnqueue, SubmitFails, fixed
<1>2. Api.at \in Submitting
      /\ (\A f \in Ep : pipe'[f].state = pipe[f].state /\ pipe'[f].waiter = pipe[f].waiter
                  /\ pipe'[f].done = pipe[f].done)
  BY EnqueueKeepsStates, EnqueueIs DEF Worker, SameStates, EpInv, Enqueuing, Api
<1>3. PICK e \in Eps : /\ e = Api.to /\ Alive(e) /\ Api.at \in Submitting
                        /\ (\A f \in Ep \ {e} : Queue(f)' = Queue(f) /\ wrap'[f] = wrap[f])
                        /\ wrap'[e].pending = wrap[e].pending /\ wrap'[e].last = wrap[e].last
                        /\ wrap'[e].count = Len(Queue(e))' + (wrap[e].count - Len(Queue(e)) - 1)
                        /\ Len(Queue(e))' \in Nat
  <2>1. PICK e \in Ep, u \in Urb :
           /\ e = task["api"].to /\ task["api"].at \in Submitting
           /\ \/ /\ Queue(e) \in Seq(Urb) /\ Queue(e)' = Append(Queue(e), u)
                 /\ \A f \in Ep \ {e} : Queue(f)' = Queue(f)
                 /\ wrap' = wrap
              \/ /\ \A f \in Ep : Queue(f)' = Queue(f)
                 /\ wrap' = [wrap EXCEPT ![e].count = @ - 1]
    BY EnqueueIs DEF Worker, EpInv, Enqueuing
  <2>2. e = Api.to /\ Api.at \in Submitting /\ e \in Eps /\ Alive(e)
    BY <2>1, Known DEF Api, TaskType, EpInv, BooksInv, LivesOn
  <2>3. Len(Queue(e)) \in Nat /\ wrap[e].count \in Int
    BY QueueIsCounted, Known DEF BooksOK
  <2>4. CASE /\ Queue(e) \in Seq(Urb) /\ Queue(e)' = Append(Queue(e), u)
             /\ \A f \in Ep \ {e} : Queue(f)' = Queue(f)
             /\ wrap' = wrap
    <3>1. Len(Queue(e))' = Len(Queue(e)) + 1 BY <2>4, AppendProperties
    <3> QED BY <2>2, <2>3, <2>4, <3>1
  <2>5. CASE /\ \A f \in Ep : Queue(f)' = Queue(f)
             /\ wrap' = [wrap EXCEPT ![e].count = @ - 1]
    <3>1. Len(Queue(e))' = Len(Queue(e)) BY <2>5
    <3>2. /\ \A f \in Ep \ {e} : wrap'[f] = wrap[f]
          /\ wrap'[e].pending = wrap[e].pending /\ wrap'[e].last = wrap[e].last
          /\ wrap'[e].count = wrap[e].count - 1
      BY <2>5, Known DEF BooksOK
    <3> QED BY <2>2, <2>3, <2>5, <3>1, <3>2
  <2> QED BY <2>1, <2>4, <2>5
<1>4. \A f \in Ep : wrap'[f].pending = wrap[f].pending /\ wrap'[f].last = wrap[f].last
  BY <1>3
<1>5. acts' = acts \/ acts' = acts \cup {"resume_port"}
  BY DEF SubmitCloses, SubmitEnqueue, SubmitFails
<1>6. Api' = [Api EXCEPT !.at = "idle", !.to = NoEp, !.urb = NoUrb] /\ Handler' = Handler
  <2>1. task' = [task EXCEPT !["api"] = [Api EXCEPT !.at = "idle", !.to = NoEp, !.urb = NoUrb]]
    BY Known DEF SubmitCloses, SubmitEnqueue, SubmitFails, SubmitErr, SubmitEnds,
                 After, Api, Worker, TaskType
  <2> QED BY <2>1, ApiMoves
<1>7. Api'.at = "idle" /\ Api'.ep = Api.ep /\ Api'.to = NoEp
  BY <1>6, Known DEF TaskType
<1>8. HandsEmpty'
  <2>1. Api.at \in Submitting BY <1>2
  <2> QED BY <1>1, <1>6, <1>7, <2>1 DEF EpInv, BooksInv, HandsEmpty
<1>9. CountsAreRight'
  <2>1. \A f \in Eps \ {e} : Owed(f)' = Owed(f) /\ (Alive(f)' <=> Alive(f)) /\ Queue(f)' = Queue(f)
    BY <1>1, <1>2, <1>3, <1>6, <1>7, Known DEF Owed, One, Alive
  <2>2. Owed(e) = Owed(e)' + 1 /\ Owed(e)' \in Nat
    <3>1. One(Handler.to, e) \in Nat /\ One(Api.to, e) \in Nat /\ Handler.n \in Nat /\ NoEp # e
      BY OwedIs, Known
    <3> QED BY <1>3, <1>6, <1>7, <3>1 DEF Owed, One
  <2>3. wrap'[e].count = Len(Queue(e))' + Owed(e)' /\ wrap'[e].count \in Nat
    <3>1. wrap[e].count = Len(Queue(e)) + Owed(e) /\ Len(Queue(e)) \in Nat
      BY <1>3, OwedIs
    <3>2. PICK i, j \in Nat : i = Len(Queue(e)) /\ j = Owed(e)'
      BY <2>2, <3>1
    <3>3. wrap[e].count - Len(Queue(e)) - 1 = j BY <2>2, <3>1, <3>2
    <3> QED BY <1>3, <3>2, <3>3
  <2>4. \A f \in Ep \ {e} : wrap'[f].count = wrap[f].count BY <1>3
  <2> QED BY <1>1, <1>3, <2>1, <2>3, <2>4, CountsMove, Known
<1>10. Announced'
  BY <1>1, <1>2, <1>4, <1>5, <1>6, <1>7, Known DEF EpInv, BooksInv, Announced
<1>11. LivesOn'
  <2>1. \A f \in Ep : Alive(f)' <=> Alive(f) BY <1>2 DEF Alive
  <2>2. \A f \in {Handler'.ep, Handler'.to, Api'.ep, Api'.to, dmn'.ep} \ {NoEp} :
           f \in {Handler.ep, Handler.to, Api.ep, Api.to, dmn.ep} \ {NoEp} /\ f \in Ep
    BY <1>1, <1>6, <1>7, Known DEF TaskType, DaemonType
  <2>3. \A f \in {Handler'.ep, Handler'.to, Api'.ep, Api'.to, dmn'.ep} \ {NoEp} : Alive(f)'
    BY <2>1, <2>2 DEF EpInv, BooksInv, LivesOn
  <2>4. \A f \in Eps : wrap'[f].pending => Alive(f)'
    BY <1>4, <2>1, Known DEF EpInv, BooksInv, LivesOn
  <2> QED BY <1>1, <2>3, <2>4, Zenon DEF LivesOn
<1>12. PendingAgree' BY <1>1, <1>4, PendingSame
<1>13. FreeingIsQuiet'
  BY <1>1, <1>2, <1>4, <1>5, <1>6, <1>7, Known DEF EpInv, BooksInv, FreeingIsQuiet
<1>14. HaltsHold'
  BY <1>1, <1>2, <1>4, <1>5, <1>6, <1>7, Where DEF EpInv, BooksInv, HaltsHold, Conn
<1>15. ErrorsHalt'
  BY <1>1, <1>2, <1>4, <1>5, <1>6, <1>7, Where DEF EpInv, BooksInv, ErrorsHalt, Alive
<1>16. Possible'
  BY <1>1, <1>2, <1>4, <1>5, <1>6, <1>7, Known DEF EpInv, BooksInv, Possible, Conn
<1> QED BY <1>8, <1>9, <1>10, <1>11, <1>12, <1>13, <1>14, <1>15, <1>16 DEF BooksInv

\* A submission that goes on is counted as before.
LEMMA SubmitMovesKeeps == ASSUME EpInv, NEW t \in Worker, SubmitMoves(t) PROVE BooksInv'
<1>1. /\ Eps' = Eps /\ Uses' = Uses /\ (acts' = acts \/ acts' = acts \cup {"resume_port"})
      /\ UNCHANGED <<port, gone, pipe, wrap, pendingEps, sem, dmn>>
  BY TypesStay DEF SubmitMoves, fixed
<1>2. PICK a \in {"resume", "enqueue"} : task' = [task EXCEPT ![t].at = a]
  BY DEF SubmitMoves
<1>3. \A w \in Worker :
         /\ task'[w].ep = task[w].ep /\ task'[w].to = task[w].to /\ task'[w].n = task[w].n
         /\ \/ task'[w].at = task[w].at
            \/ task[w].at \in Submitting /\ task'[w].at \in Submitting
  BY <1>2, Known DEF SubmitMoves, Enqueuing, TaskType
<1>4. /\ Handler'.ep = Handler.ep /\ Handler'.to = Handler.to /\ Handler'.n = Handler.n
      /\ \/ Handler'.at = Handler.at
         \/ Handler.at \in Submitting /\ Handler'.at \in Submitting
  BY <1>3 DEF Worker, Handler
<1>5. /\ Api'.ep = Api.ep /\ Api'.to = Api.to
      /\ Api'.at = Api.at \/ (Api.at \in Submitting /\ Api'.at \in Submitting)
  BY <1>3 DEF Worker, Api
<1>6. \A f \in Ep : Queue(f)' = Queue(f) /\ (Alive(f)' <=> Alive(f))
  BY <1>1 DEF Queue, Alive
<1>7. BooksInv BY DEF EpInv
<1>8. HandsEmpty' BY <1>1, <1>4, <1>5, <1>7 DEF BooksInv, HandsEmpty
<1>9. CountsAreRight'
  <2>1. \A f \in Eps : Owed(f)' = Owed(f) BY <1>1, <1>4, <1>5 DEF Owed, One
  <2> QED BY <1>1, <1>6, <2>1, CountsSame, Known
<1>10. Announced' BY <1>1, <1>4, <1>5, <1>7 DEF BooksInv, Announced
<1>11. LivesOn' BY <1>1, <1>4, <1>5, <1>7 DEF BooksInv, LivesOn, Alive
<1>12. PendingAgree' BY <1>1, PendingSame
<1>13. FreeingIsQuiet'
  BY <1>1, <1>4, <1>5, <1>7 DEF BooksInv, FreeingIsQuiet
<1>14. HaltsHold' BY <1>1, <1>4, <1>5, <1>7 DEF BooksInv, HaltsHold, Conn
<1>15. ErrorsHalt' BY <1>1, <1>4, <1>5, <1>7 DEF BooksInv, ErrorsHalt, Alive
<1>16. Possible' BY <1>1, <1>4, <1>5, <1>7 DEF BooksInv, Possible, Conn
<1> QED BY <1>8, <1>9, <1>10, <1>11, <1>12, <1>13, <1>14, <1>15, <1>16 DEF BooksInv

\* Every step of a submission that was begun
LEMMA SubmitGoesOnKeeps == ASSUME EpInv, NEW t \in Worker, SubmitGoesOn(t) PROVE BooksInv'
BY SubmitSteps, SubmitMovesKeeps, HandlerEnqueuesKeeps, ApiEnqueuesKeeps DEF Worker

\* One less in the queue is one more in the handler's hands.
LEMMA OneMore == ASSUME NEW i \in Nat, NEW j \in Nat, NEW k \in Nat, NEW l \in Nat
  PROVE l + (i + j + k) = (l - 1) + (i + j + (k + 1))
OBVIOUS

\* The handler has taken all that is done.
LEMMA HandlerIsDone ==
    ASSUME EpInv, HandlerDequeue, pipe[Handler.ep].done = <<>>
    PROVE BooksInv'
<1>1. Eps' = Eps /\ Uses' = Uses /\ (\A f \in Ep : Queue(f)' = Queue(f)) /\ pipe' = pipe
      /\ UNCHANGED <<port, gone, acts, wrap, pendingEps, sem, dmn>>
  BY TypesStay, PipesUnchanged DEF EpInv, SamePipes, HandlerDequeue, fixed
<1>2. Handler.at = "dequeue" /\ Handler' = [Handler EXCEPT !.at = "count"] /\ Api' = Api
  BY HandlerMoves DEF HandlerDequeue, Handler, At
<1>3. Handler.ep \in Eps /\ pipe[Handler.ep].done = <<>> BY <1>2, Where
<1>4. Handler'.at = "count" /\ Handler'.ep = Handler.ep
      /\ Handler'.to = Handler.to /\ Handler'.n = Handler.n
  BY <1>2, Known DEF TaskType
<1>5. HandsEmpty' BY <1>1, <1>2, <1>3, <1>4 DEF EpInv, BooksInv, HandsEmpty
<1>6. CountsAreRight'
  BY <1>1, <1>2, <1>3, <1>4, Known, QueueIsCounted DEF EpInv, BooksInv, CountsAreRight, Owed, One, Alive
<1>7. Announced'
  BY <1>1, <1>2, <1>3, <1>4, Known DEF EpInv, BooksInv, Announced
<1>8. LivesOn'
  BY <1>1, <1>2, <1>3, <1>4, Known DEF EpInv, BooksInv, LivesOn, Alive
<1>9. PendingAgree'
  BY <1>1, <1>2, <1>3, <1>4 DEF EpInv, BooksInv, PendingAgree, In
<1>10. FreeingIsQuiet'
  BY <1>1, <1>2, <1>3, <1>4, Known DEF EpInv, BooksInv, FreeingIsQuiet
<1>11. HaltsHold'
  BY <1>1, <1>2, <1>3, <1>4, Where DEF EpInv, BooksInv, HaltsHold, Conn
<1>12. ErrorsHalt'
  BY <1>1, <1>2, <1>3, <1>4, Where DEF EpInv, BooksInv, ErrorsHalt, Alive
<1>13. Possible'
  BY <1>1, <1>2, <1>3, <1>4, Known DEF EpInv, BooksInv, Possible, Conn
<1> QED BY <1>5, <1>6, <1>7, <1>8, <1>9, <1>10, <1>11, <1>12, <1>13 DEF BooksInv

\* A transfer that the handler takes is in its hands.
LEMMA HandlerTakes ==
    ASSUME EpInv, HandlerDequeue, pipe[Handler.ep].done # <<>>
    PROVE BooksInv'
<1>1. Eps' = Eps /\ Uses' = Uses
      /\ UNCHANGED <<port, gone, acts, wrap, pendingEps, sem, dmn>>
  BY TypesStay DEF HandlerDequeue, fixed
<1>2. PICK e \in Eps : e = Handler.ep /\ Handler.at = "dequeue"
  BY Where DEF HandlerDequeue
<1>3. PICK u \in Urb : /\ Queue(e) \in Seq(Urb) /\ Queue(e) # <<>>
                        /\ Queue(e)' = Tail(Queue(e)) /\ (\A f \in Ep \ {e} : Queue(f)' = Queue(f))
                        /\ task' = [task EXCEPT !["handler"] =
                                      [Handler EXCEPT !.at = "callback", !.n = @ + 1, !.urb = u]]
                        /\ pipe' = [pipe EXCEPT ![e] = Dequeued(pipe[e])]
  BY <1>2, DequeueIs DEF EpInv
<1>4. Handler' = [Handler EXCEPT !.at = "callback", !.n = @ + 1, !.urb = u] /\ Api' = Api
  BY <1>3, HandlerMoves
<1>5. Handler'.at = "callback" /\ Handler'.ep = Handler.ep
      /\ Handler'.to = Handler.to /\ Handler'.n = Handler.n + 1
  BY <1>4, Known DEF TaskType
<1>6. \A f \in Ep : /\ pipe'[f].state = pipe[f].state /\ pipe'[f].waiter = pipe[f].waiter
                    /\ pipe'[f].done = (IF f = e THEN Tail(pipe[f].done) ELSE pipe[f].done)
  <2>1. PICK p : p = pipe[e] /\ Good(p) /\ p.done # <<>> BY <1>2, Known
  <2>2. PICK d : d = Dequeued(p) /\ d.state = p.state /\ d.waiter = p.waiter /\ d.done = Tail(p.done)
    BY <2>1, DequeuedTakes
  <2>3. pipe'[e] = d /\ \A f \in Ep \ {e} : pipe'[f] = pipe[f]
    BY <1>2, <1>3, <2>1, <2>2, Known
  <2> QED BY <2>1, <2>2, <2>3
<1>7. Api' = Api
      /\ (\A f \in Ep : pipe'[f].state = pipe[f].state /\ pipe'[f].waiter = pipe[f].waiter)
      /\ \A f \in Eps : f # e => pipe'[f].done = pipe[f].done
  BY <1>4, <1>6, Known
<1>8. HandsEmpty' BY <1>1, <1>2, <1>5, <1>7 DEF EpInv, BooksInv, HandsEmpty
<1>9. CountsAreRight'
  <2>1. \A f \in Eps \ {e} : Owed(f)' = Owed(f) /\ (Alive(f)' <=> Alive(f)) /\ Queue(f)' = Queue(f)
    <3>1. \A f \in Eps \ {e} : f # Handler.ep /\ f # Handler'.ep
      BY <1>2, <1>5
    <3>2. \A f \in Eps \ {e} : Owed(f)' = Owed(f)
      BY <1>4, <1>5, <3>1 DEF Owed
    <3> QED BY <1>3, <1>6, <3>2, Known DEF Alive
  <2>2. PICK i, j, k, l \in Nat : /\ i = One(Handler.to, e) /\ j = One(Api.to, e)
                                /\ k = Handler.n /\ l = Len(Queue(e))
    BY OwedIs
  <2>3. Owed(e) = i + j + k /\ Owed(e)' = i + j + (k + 1)
    <3>1. One(Handler'.to, e) = i /\ One(Api'.to, e) = j /\ Handler'.n = k + 1 /\ Handler'.ep = e
      BY <1>2, <1>4, <1>5, <2>2
    <3> QED BY <1>2, <2>2, <3>1 DEF Owed
  <2>4. Len(Queue(e))' = l - 1
    <3>1. Len(Tail(Queue(e))) = l - 1 BY <1>3, <2>2, HeadTailProperties
    <3> QED BY <1>3, <3>1
  <2>5. Alive(e) BY <1>2, Known DEF EpInv, BooksInv, LivesOn
  <2>6. PICK c \in Nat : c = wrap[e].count /\ c = l + (i + j + k)
    BY <2>2, <2>3, <2>5, OwedIs
  <2>7. wrap'[e].count = Len(Queue(e))' + Owed(e)' /\ wrap'[e].count \in Nat
    <3>1. wrap'[e].count = c BY <1>1, <2>6
    <3>2. c = (l - 1) + (i + j + (k + 1)) BY <2>6, OneMore
    <3> QED BY <2>3, <2>4, <2>6, <3>1, <3>2
  <2> QED BY <1>1, <2>1, <2>5, <2>7, CountsMove, Known
<1>10. Announced'
  BY <1>1, <1>2, <1>5, <1>7, Known DEF EpInv, BooksInv, Announced
<1>11. LivesOn'
  <2>1. \A f \in Ep : Alive(f)' <=> Alive(f) BY <1>7 DEF Alive
  <2>2. \A f \in {Handler'.ep, Handler'.to, Api'.ep, Api'.to, dmn'.ep} \ {NoEp} :
           f \in {Handler.ep, Handler.to, Api.ep, Api.to, dmn.ep} \ {NoEp} /\ f \in Ep
    BY <1>1, <1>5, <1>7, Known DEF TaskType, DaemonType
  <2>3. \A f \in {Handler'.ep, Handler'.to, Api'.ep, Api'.to, dmn'.ep} \ {NoEp} : Alive(f)'
    BY <2>1, <2>2 DEF EpInv, BooksInv, LivesOn
  <2>4. \A f \in Eps : wrap'[f].pending => Alive(f)'
    BY <1>1, <2>1, Known DEF EpInv, BooksInv, LivesOn
  <2> QED BY <1>1, <2>3, <2>4, Zenon DEF LivesOn
<1>12. PendingAgree'
  BY <1>1, <1>2, <1>5, <1>7 DEF EpInv, BooksInv, PendingAgree, In
<1>13. FreeingIsQuiet'
  BY <1>1, <1>2, <1>5, <1>7, Known DEF EpInv, BooksInv, FreeingIsQuiet
<1>14. HaltsHold'
  BY <1>1, <1>2, <1>5, <1>7, Where DEF EpInv, BooksInv, HaltsHold, Conn
<1>15. ErrorsHalt'
  BY <1>1, <1>2, <1>5, <1>7, Where DEF EpInv, BooksInv, ErrorsHalt, Alive
<1>16. Possible'
  BY <1>1, <1>2, <1>5, <1>7, Known DEF EpInv, BooksInv, Possible, Conn
<1> QED BY <1>8, <1>9, <1>10, <1>11, <1>12, <1>13, <1>14, <1>15, <1>16 DEF BooksInv

\* Endpoints are allocated with nothing to count: there was nobody left on the list.
LEMMA ClaimKeeps == ASSUME EpInv, Claim PROVE BooksInv'
<1>1. Eps' = Eps /\ Uses' = Uses /\ UNCHANGED <<port, gone, acts, pendingEps, sem, dmn>>
      /\ Handler' = Handler /\ Api' = Api
  BY TypesStay DEF Claim, fixed, Handler, Api
<1>2. /\ \A e \in Eps : ~Alive(e) /\ ~wrap[e].pending
      /\ pendingEps = <<>> /\ Api.at = "idle"
  <2>1. \A e \in Eps : ~Alive(e) BY Known DEF Claim, AllocatedAreClaimed
  <2>2. \A e \in Eps : ~wrap[e].pending BY <2>1 DEF EpInv, BooksInv, LivesOn
  <2>3. \A e \in Eps : ~In(e, pendingEps)
    BY <2>2 DEF EpInv, BooksInv, PendingAgree
  <2>4. pendingEps \in Seq(Eps) BY Known DEF BooksOK
  <2>5. pendingEps = <<>>
    <3>1. PICK s \in Seq(Eps) : s = pendingEps BY <2>4
    <3>2. SUFFICES ASSUME s # <<>> PROVE FALSE BY <3>1
    <3>3. s[1] \in Eps /\ 1 \in DOMAIN s
      BY <3>2, HeadTailProperties, EmptySeq
    <3> QED BY <2>3, <3>1, <3>3 DEF In
  <2> QED BY <2>1, <2>2, <2>5 DEF Claim
<1>3. /\ Handler.ep = NoEp /\ Handler.to = NoEp /\ Api.ep = NoEp /\ Api.to = NoEp /\ dmn.ep = NoEp
      /\ Handler.at \in {"idle", "loop"} /\ dmn.at \notin {"wait", "flush", "notify"}
  BY <1>2, Where, Known DEF EpInv, BooksInv, LivesOn, HandsEmpty, TaskType, DaemonType
<1>4. PICK p : /\ Held(p) = <<>> /\ p.state = "active" /\ p.waiter = "none" /\ p.done = <<>>
               /\ pipe' = [f \in Ep |-> IF f \in Eps THEN p ELSE pipe[f]]
  <2>1. PICK p : p = [NoPipe EXCEPT !.state = "active"] OBVIOUS
  <2> QED BY <2>1, NewPipeIsGood DEF Claim
<1>5. \A f \in Ep : /\ f \in Eps => pipe'[f] = p
                    /\ f \notin Eps => pipe'[f] = pipe[f]
  BY <1>4
<1>6. (\A f \in Eps : pipe'[f].state = "active" /\ pipe'[f].waiter = "none" /\ pipe'[f].done = <<>>)
      /\ \A f \in Ep : f \notin Eps => pipe'[f].waiter = pipe[f].waiter
  BY <1>4, <1>5, Known
<1>7. \A f \in Ep : ~wrap'[f].pending /\ wrap'[f].count = 0 /\ wrap'[f].last = "done"
  BY DEF Claim, NoWrap
<1>8. HandsEmpty'
  BY <1>1, <1>2, <1>3, <1>6, <1>7 DEF EpInv, BooksInv, HandsEmpty
<1>9. CountsAreRight'
  <2>1. \A f \in Eps : Owed(f)' = 0 BY <1>1, <1>3, Known DEF Owed, One
  <2>2. ASSUME NEW f \in Eps PROVE Len(Queue(f))' = 0
    <3>1. pipe'[f] = p BY <1>5, Known
    <3>2. Queue(f)' = Held(p) BY <3>1, Zenon DEF Queue, Held
    <3>3. Len(<<>>) = 0 BY EmptySeq
    <3> QED BY <1>4, <3>2, <3>3
  <2>3. \A f \in Eps : wrap'[f].count = Len(Queue(f))' + Owed(f)'
    BY <1>7, <2>1, <2>2, Known
  <2>4. \A f \in Ep : wrap'[f].count \in Nat BY <1>7
  <2> QED BY <1>1, <2>3, <2>4, Zenon DEF CountsAreRight
<1>10. Announced'
  BY <1>1, <1>2, <1>3, <1>6, <1>7, Known DEF EpInv, BooksInv, Announced
<1>11. LivesOn'
  BY <1>1, <1>2, <1>3, <1>6, <1>7, Known DEF EpInv, BooksInv, LivesOn, Alive
<1>12. PendingAgree'
  <2>1. \A f \in Eps : ~wrap'[f].pending /\ ~In(f, pendingEps)'
    BY <1>1, <1>2, <1>7, Known DEF In
  <2> QED BY <1>1, <1>2, <2>1 DEF PendingAgree
<1>13. FreeingIsQuiet'
  BY <1>1, <1>2, <1>3, <1>6, <1>7, Known DEF EpInv, BooksInv, FreeingIsQuiet
<1>14. HaltsHold'
  BY <1>1, <1>2, <1>3, <1>6, <1>7, Where DEF EpInv, BooksInv, HaltsHold, Conn
<1>15. ErrorsHalt'
  BY <1>1, <1>2, <1>3, <1>6, <1>7, Where DEF EpInv, BooksInv, ErrorsHalt, Alive
<1>16. Possible'
  BY <1>1, <1>2, <1>3, <1>6, <1>7, Known DEF EpInv, BooksInv, Possible, Conn
<1> QED BY <1>8, <1>9, <1>10, <1>11, <1>12, <1>13, <1>14, <1>15, <1>16 DEF BooksInv

\* After an error the handler flushes a pipe that is halted.
LEMMA HandlerFlushKeeps == ASSUME EpInv, HandlerFlush PROVE BooksInv'
<1>1. Eps' = Eps /\ Uses' = Uses /\ env' = env
      /\ UNCHANGED <<port, gone, acts, wrap, pendingEps, sem, dmn>>
  BY TypesStay DEF HandlerFlush, fixed
<1>2. PICK e \in Eps : e = Handler.ep /\ Handler.at = "flush"
  BY Where DEF HandlerFlush
<1>3. PICK q : /\ q = pipe[e] /\ Good(q) /\ q.state = "halted"
  BY <1>2, Known DEF EpInv, BooksInv, ErrorsHalt
<1>4. PICK m \in BOOLEAN : m = FlushMoves(q) BY DEF FlushMoves
<1>5. PICK p : /\ Good(p) /\ Held(p) = Held(q) /\ p.state = "halted" /\ p.waiter = q.waiter
               /\ pipe' = [pipe EXCEPT ![e] = p]
  <2>1. PICK p : p = Flushed(q) OBVIOUS
  <2> QED BY <1>2, <1>3, <2>1, FlushedKeeps DEF HandlerFlush
<1>6. OnePipeIs(e, p) BY <1>3, <1>5, OnePipe
<1>7. (\A f \in Ep : Queue(f)' = Queue(f)) /\ (\A f \in Ep : Alive(f)' <=> Alive(f))
      /\ (\A f \in Ep : pipe'[f].state = pipe[f].state /\ pipe'[f].waiter = pipe[f].waiter)
      /\ \A f \in Ep : f # e => pipe'[f].done = pipe[f].done
  BY <1>3, <1>5, <1>6 DEF OnePipeIs
<1>8. Handler' = [Handler EXCEPT !.at = IF m THEN "notify" ELSE "dequeue"] /\ Api' = Api
  <2>1. task' = [task EXCEPT !["handler"] = [Handler EXCEPT !.at = IF m THEN "notify" ELSE "dequeue"]]
    BY <1>2, <1>3, <1>4 DEF HandlerFlush, At, Handler
  <2> QED BY <2>1, HandlerMoves
<1>9. Handler'.at \in {"notify", "dequeue"} /\ Handler'.ep = e
      /\ Handler'.to = Handler.to /\ Handler'.n = Handler.n /\ Api' = Api
  BY <1>2, <1>8, Known DEF TaskType
<1>10. HandsEmpty' BY <1>1, <1>2, <1>7, <1>9 DEF EpInv, BooksInv, HandsEmpty
<1>11. CountsAreRight' BY <1>1, <1>2, <1>7, <1>9, CountsStay
<1>12. Announced'
  BY <1>1, <1>2, <1>7, <1>9, Known DEF EpInv, BooksInv, Announced
<1>13. LivesOn'
  <2>1. \A f \in {Handler'.ep, Handler'.to, Api'.ep, Api'.to, dmn'.ep} \ {NoEp} :
           f \in {Handler.ep, Handler.to, Api.ep, Api.to, dmn.ep} \ {NoEp} /\ f \in Ep
    BY <1>1, <1>2, <1>9, Known DEF TaskType, DaemonType
  <2>2. \A f \in {Handler'.ep, Handler'.to, Api'.ep, Api'.to, dmn'.ep} \ {NoEp} : Alive(f)'
    BY <1>7, <2>1 DEF EpInv, BooksInv, LivesOn
  <2>3. \A f \in Eps : wrap'[f].pending => Alive(f)'
    BY <1>1, <1>7, Known DEF EpInv, BooksInv, LivesOn
  <2> QED BY <1>1, <2>2, <2>3, Zenon DEF LivesOn
<1>14. PendingAgree'
  BY <1>1, <1>2, <1>7, <1>9 DEF EpInv, BooksInv, PendingAgree, In
<1>15. FreeingIsQuiet'
  BY <1>1, <1>2, <1>7, <1>9, Known DEF EpInv, BooksInv, FreeingIsQuiet
<1>16. HaltsHold'
  BY <1>1, <1>2, <1>7, <1>9, Where DEF EpInv, BooksInv, HaltsHold, Conn
<1>17. ErrorsHalt'
  BY <1>1, <1>2, <1>7, <1>9, Where DEF EpInv, BooksInv, ErrorsHalt, Alive
<1>18. Possible'
  BY <1>1, <1>2, <1>7, <1>9, Known DEF EpInv, BooksInv, Possible, Conn
<1> QED BY <1>10, <1>11, <1>12, <1>13, <1>14, <1>15, <1>16, <1>17, <1>18 DEF BooksInv

\* The handler lists the endpoint that it flushed.
LEMMA HandlerNotifyKeeps == ASSUME EpInv, Notify("handler") PROVE BooksInv'
<1>1. Eps' = Eps /\ Uses' = Uses /\ env' = env
      /\ UNCHANGED <<port, gone, acts, dmn>>
  BY TypesStay DEF Notify, fixed
<1>2. PICK e \in Eps : e = Handler.ep /\ Handler.at = "notify"
  BY Where DEF Notify, Handler
<1>3. PICK q : q = pipe[e] /\ Good(q) BY <1>2, Known
<1>4. PICK p : /\ Good(p) /\ Held(p) = Held(q) /\ p.state = q.state /\ p.waiter = q.waiter
               /\ p.done = q.done /\ pipe' = [pipe EXCEPT ![e] = p]
  <2>1. PICK p : p = [q EXCEPT !.cmd = FALSE] OBVIOUS
  <2>2. pipe' = [pipe EXCEPT ![e] = p]
    BY <1>2, <1>3, <2>1 DEF Notify, Handler
  <2> QED BY <1>3, <2>1, <2>2, EndingKeeps
<1>5. OnePipeIs(e, p) BY <1>3, <1>4, OnePipe
<1>6. (\A f \in Ep : Queue(f)' = Queue(f)) /\ (\A f \in Ep : Alive(f)' <=> Alive(f))
      /\ (\A f \in Ep : pipe'[f].state = pipe[f].state /\ pipe'[f].waiter = pipe[f].waiter)
      /\ \A f \in Ep : pipe'[f].done = pipe[f].done
  BY <1>3, <1>4, <1>5 DEF OnePipeIs
<1>7. (\A f \in Ep : wrap'[f].count = wrap[f].count)
      /\ (\A f \in Ep : f # e => wrap'[f].pending = wrap[f].pending /\ wrap'[f].last = wrap[f].last)
      /\ wrap'[e].pending /\ wrap'[e].last = "done" /\ sem' /\ PendingAgree'
  <2>1. EndpointCallback(e, "done") BY <1>2 DEF Notify, Handler
  <2> QED BY <1>1, <2>1, CallbackLists, Known DEF BooksOK
<1>8. Handler' = [Handler EXCEPT !.at = "dequeue"] /\ Api' = Api
  <2>1. task' = [task EXCEPT !["handler"] = [Handler EXCEPT !.at = "dequeue"]]
    BY DEF Notify, At, Handler
  <2> QED BY <2>1, HandlerMoves
<1>9. Handler'.at = "dequeue" /\ Handler'.ep = e /\ Handler'.ep = Handler.ep
      /\ Handler'.to = Handler.to /\ Handler'.n = Handler.n /\ Api' = Api
  BY <1>2, <1>8, Known DEF TaskType
<1>10. HandsEmpty'
  BY <1>1, <1>2, <1>6, <1>7, <1>9 DEF EpInv, BooksInv, HandsEmpty
<1>11. CountsAreRight' BY <1>1, <1>2, <1>6, <1>7, <1>8, <1>9, CountsStay
<1>12. Announced'
  BY <1>1, <1>2, <1>6, <1>7, <1>9, Known DEF EpInv, BooksInv, Announced
<1>13. LivesOn'
  <2>1. \A f \in {Handler'.ep, Handler'.to, Api'.ep, Api'.to, dmn'.ep} \ {NoEp} :
           f \in {Handler.ep, Handler.to, Api.ep, Api.to, dmn.ep} \ {NoEp} /\ f \in Ep
    BY <1>1, <1>2, <1>8, <1>9, Known DEF TaskType, DaemonType
  <2>2. \A f \in {Handler'.ep, Handler'.to, Api'.ep, Api'.to, dmn'.ep} \ {NoEp} : Alive(f)'
    BY <1>6, <2>1 DEF EpInv, BooksInv, LivesOn
  <2>3. \A f \in Eps : wrap'[f].pending => Alive(f)'
    BY <1>1, <1>2, <1>6, <1>7, Known DEF EpInv, BooksInv, LivesOn
  <2> QED BY <1>1, <2>2, <2>3, Zenon DEF LivesOn
<1>14. PendingAgree' BY <1>7
<1>15. FreeingIsQuiet'
  BY <1>1, <1>2, <1>6, <1>7, <1>9, Known DEF EpInv, BooksInv, FreeingIsQuiet
<1>16. HaltsHold'
  BY <1>1, <1>2, <1>6, <1>7, <1>9, Where DEF EpInv, BooksInv, HaltsHold, Conn
<1>17. ErrorsHalt'
  BY <1>1, <1>2, <1>6, <1>7, <1>9, Where DEF EpInv, BooksInv, ErrorsHalt, Alive
<1>18. Possible'
  BY <1>1, <1>2, <1>6, <1>7, <1>9, Known DEF EpInv, BooksInv, Possible, Conn
<1> QED BY <1>10, <1>11, <1>12, <1>13, <1>14, <1>15, <1>16, <1>17, <1>18 DEF BooksInv

\* The client's other task lists the endpoint that it flushed.
LEMMA ApiNotifyKeeps == ASSUME EpInv, Notify("api") PROVE BooksInv'
<1>1. Eps' = Eps /\ Uses' = Uses /\ env' = env
      /\ UNCHANGED <<port, gone, acts, dmn>>
  BY TypesStay DEF Notify, fixed
<1>2. PICK e \in Eps : e = Api.ep /\ Api.at = "notify"
  BY Where DEF Notify, Api
<1>3. PICK q : q = pipe[e] /\ Good(q) BY <1>2, Known
<1>4. PICK p : /\ Good(p) /\ Held(p) = Held(q) /\ p.state = q.state /\ p.waiter = q.waiter
               /\ p.done = q.done /\ pipe' = [pipe EXCEPT ![e] = p]
  <2>1. PICK p : p = [q EXCEPT !.cmd = FALSE] OBVIOUS
  <2>2. pipe' = [pipe EXCEPT ![e] = p] BY <1>2, <1>3, <2>1 DEF Notify, Api
  <2> QED BY <1>3, <2>1, <2>2, EndingKeeps
<1>5. OnePipeIs(e, p) BY <1>3, <1>4, OnePipe
<1>6. (\A f \in Ep : Queue(f)' = Queue(f)) /\ (\A f \in Ep : Alive(f)' <=> Alive(f))
      /\ (\A f \in Ep : pipe'[f].state = pipe[f].state /\ pipe'[f].waiter = pipe[f].waiter)
      /\ \A f \in Ep : pipe'[f].done = pipe[f].done
  BY <1>3, <1>4, <1>5 DEF OnePipeIs
<1>7. (\A f \in Ep : wrap'[f].count = wrap[f].count)
      /\ (\A f \in Ep : f # e => wrap'[f].pending = wrap[f].pending /\ wrap'[f].last = wrap[f].last)
      /\ wrap'[e].pending /\ wrap'[e].last = "done" /\ sem' /\ PendingAgree'
  <2>1. EndpointCallback(e, "done") BY <1>2 DEF Notify, Api
  <2> QED BY <1>1, <2>1, CallbackLists, Known DEF BooksOK
<1>8. Api' = [Api EXCEPT !.at = "idle", !.ep = NoEp, !.left = {}] /\ Handler' = Handler
  <2>1. task' = [task EXCEPT !["api"] = [Api EXCEPT !.at = "idle", !.ep = NoEp, !.left = {}]]
    BY DEF Notify, Rest, Api
  <2> QED BY <2>1, ApiMoves
<1>9. Api'.at = "idle" /\ Api'.ep = NoEp /\ Api'.to = Api.to /\ Handler' = Handler
  BY <1>2, <1>8, Known DEF TaskType
<1>10. HandsEmpty'
  BY <1>1, <1>2, <1>6, <1>7, <1>9 DEF EpInv, BooksInv, HandsEmpty
<1>11. CountsAreRight' BY <1>1, <1>2, <1>6, <1>7, <1>8, <1>9, CountsStay
<1>12. Announced'
  BY <1>1, <1>2, <1>6, <1>7, <1>9, Known DEF EpInv, BooksInv, Announced
<1>13. LivesOn'
  <2>1. \A f \in {Handler'.ep, Handler'.to, Api'.ep, Api'.to, dmn'.ep} \ {NoEp} :
           f \in {Handler.ep, Handler.to, Api.ep, Api.to, dmn.ep} \ {NoEp} /\ f \in Ep
    BY <1>1, <1>2, <1>8, <1>9, Known DEF TaskType, DaemonType
  <2>2. \A f \in {Handler'.ep, Handler'.to, Api'.ep, Api'.to, dmn'.ep} \ {NoEp} : Alive(f)'
    BY <1>6, <2>1 DEF EpInv, BooksInv, LivesOn
  <2>3. \A f \in Eps : wrap'[f].pending => Alive(f)'
    BY <1>1, <1>2, <1>6, <1>7, Known DEF EpInv, BooksInv, LivesOn
  <2> QED BY <1>1, <2>2, <2>3, Zenon DEF LivesOn
<1>14. PendingAgree' BY <1>7
<1>15. FreeingIsQuiet'
  BY <1>1, <1>2, <1>6, <1>7, <1>9, Known DEF EpInv, BooksInv, FreeingIsQuiet
<1>16. HaltsHold'
  BY <1>1, <1>2, <1>6, <1>7, <1>9, Where DEF EpInv, BooksInv, HaltsHold, Conn
<1>17. ErrorsHalt'
  BY <1>1, <1>2, <1>6, <1>7, <1>9, Where DEF EpInv, BooksInv, ErrorsHalt, Alive
<1>18. Possible'
  BY <1>1, <1>2, <1>6, <1>7, <1>9, Known DEF EpInv, BooksInv, Possible, Conn
<1> QED BY <1>10, <1>11, <1>12, <1>13, <1>14, <1>15, <1>16, <1>17, <1>18 DEF BooksInv

\* A task that waited for a pipe finds it halted.
LEMMA ApiHaltedKeeps == ASSUME EpInv, ApiHalted PROVE BooksInv'
<1>1. Eps' = Eps /\ Uses' = Uses /\ env' = env
      /\ UNCHANGED <<port, gone, acts, wrap, pendingEps, sem, dmn>>
  BY TypesStay DEF ApiHalted, fixed
<1>2. PICK e \in Eps : e = Api.ep /\ Api.at = "wait" BY Where DEF ApiHalted
<1>3. PICK q : /\ q = pipe[e] /\ Good(q) /\ q.state = "halted" /\ q.waiter # "api"
  BY <1>2, Known DEF EpInv, BooksInv, HaltsHold, ApiHalted
<1>4. PICK p : /\ Good(p) /\ Held(p) = Held(q) /\ p.state = q.state /\ p.waiter = q.waiter /\ p.done = q.done
               /\ pipe' = [pipe EXCEPT ![e] = p]
  <2>1. PICK p : p = [q EXCEPT !.cmd = FALSE] OBVIOUS
  <2>2. pipe' = [pipe EXCEPT ![e] = p] BY <1>2, <1>3, <2>1 DEF ApiHalted
  <2> QED BY <1>3, <2>1, <2>2, EndingKeeps
<1>5. OnePipeIs(e, p) BY <1>3, <1>4, OnePipe
<1>6. (\A f \in Ep : Queue(f)' = Queue(f)) /\ (\A f \in Ep : Alive(f)' <=> Alive(f))
      /\ (\A f \in Ep : pipe'[f].state = pipe[f].state /\ pipe'[f].waiter = pipe[f].waiter)
      /\ \A f \in Ep : pipe'[f].done = pipe[f].done
  BY <1>3, <1>4, <1>5 DEF OnePipeIs
<1>7. Api' = [Api EXCEPT !.at = "idle", !.ep = NoEp, !.left = {}] /\ Handler' = Handler
  <2>1. task' = [task EXCEPT !["api"] = [Api EXCEPT !.at = "idle", !.ep = NoEp, !.left = {}]]
    BY <1>2, <1>3 DEF ApiHalted, Rest, At, Api
  <2> QED BY <2>1, ApiMoves
<1>8. Api'.at = "idle" /\ Api'.ep = NoEp /\ Api'.to = Api.to /\ Handler' = Handler
  BY <1>2, <1>7, Known DEF TaskType
<1>9. \A f \in Ep : pipe[f].waiter # "api"
  BY <1>2, <1>3, Known DEF EpInv, BooksInv, HaltsHold
<1>10. HandsEmpty' BY <1>1, <1>2, <1>6, <1>8 DEF EpInv, BooksInv, HandsEmpty
<1>11. CountsAreRight' BY <1>1, <1>6, <1>8, CountsStay
<1>12. Announced'
  BY <1>1, <1>2, <1>6, <1>8, Known DEF EpInv, BooksInv, Announced
<1>13. LivesOn'
  <2>1. \A f \in {Handler'.ep, Handler'.to, Api'.ep, Api'.to, dmn'.ep} \ {NoEp} :
           f \in {Handler.ep, Handler.to, Api.ep, Api.to, dmn.ep} \ {NoEp} /\ f \in Ep
    BY <1>1, <1>2, <1>8, Known DEF TaskType, DaemonType
  <2>2. \A f \in {Handler'.ep, Handler'.to, Api'.ep, Api'.to, dmn'.ep} \ {NoEp} : Alive(f)'
    BY <1>6, <2>1 DEF EpInv, BooksInv, LivesOn
  <2>3. \A f \in Eps : wrap'[f].pending => Alive(f)'
    BY <1>1, <1>6, Known DEF EpInv, BooksInv, LivesOn
  <2> QED BY <1>1, <2>2, <2>3, Zenon DEF LivesOn
<1>14. PendingAgree'
  BY <1>1, <1>2, <1>6, <1>8 DEF EpInv, BooksInv, PendingAgree, In
<1>15. FreeingIsQuiet'
  BY <1>1, <1>2, <1>6, <1>8, Known DEF EpInv, BooksInv, FreeingIsQuiet
<1>16. HaltsHold'
  BY <1>1, <1>6, <1>8, <1>9, Where DEF EpInv, BooksInv, HaltsHold, Conn
<1>17. ErrorsHalt'
  BY <1>1, <1>2, <1>6, <1>8, Where DEF EpInv, BooksInv, ErrorsHalt, Alive
<1>18. Possible'
  BY <1>1, <1>2, <1>6, <1>8, Known DEF EpInv, BooksInv, Possible, Conn
<1> QED BY <1>10, <1>11, <1>12, <1>13, <1>14, <1>15, <1>16, <1>17, <1>18 DEF BooksInv

\* A task that flushes a pipe will list its endpoint.
LEMMA ApiFlushKeeps == ASSUME EpInv, NEW e \in Eps, ApiFlush(e) PROVE BooksInv'
<1>1. Eps' = Eps /\ Uses' = Uses /\ env' = env
      /\ UNCHANGED <<port, gone, acts, wrap, pendingEps, sem, dmn>>
  BY TypesStay DEF ApiFlush, fixed
<1>2. Api.at = "idle" /\ Alive(e) BY DEF ApiFlush, Commanding
<1>3. PICK q : /\ q = pipe[e] /\ Good(q) /\ q.state = "halted"
  BY Known DEF ApiFlush
<1>4. PICK p : /\ Good(p) /\ Held(p) = Held(q) /\ p.state = "halted" /\ p.waiter = q.waiter
               /\ (~FlushMoves(q) => p.done = q.done)
               /\ pipe' = [pipe EXCEPT ![e] = p]
  <2>1. PICK p : p = Flushed(q) OBVIOUS
  <2>2. pipe' = [pipe EXCEPT ![e] = p] BY <1>2, <1>3, <2>1 DEF ApiFlush
  <2> QED BY <1>3, <2>1, <2>2, FlushedKeeps
<1>5. OnePipeIs(e, p) BY <1>3, <1>4, OnePipe
<1>6. PICK m \in BOOLEAN : m = FlushMoves(q) BY DEF FlushMoves
<1>7. (\A f \in Ep : Queue(f)' = Queue(f)) /\ (\A f \in Ep : Alive(f)' <=> Alive(f))
      /\ (\A f \in Ep : pipe'[f].state = pipe[f].state /\ pipe'[f].waiter = pipe[f].waiter)
      /\ (\A f \in Ep : f # e => pipe'[f].done = pipe[f].done)
      /\ (~m => pipe'[e].done = pipe[e].done)
  BY <1>3, <1>4, <1>5, <1>6 DEF OnePipeIs
<1>8. Api' = (IF m THEN [Api EXCEPT !.at = "notify", !.ep = e] ELSE Api) /\ Handler' = Handler
  <2>1. CASE m
    <3>1. task' = [task EXCEPT !["api"] = [Api EXCEPT !.at = "notify", !.ep = e]]
      BY <1>3, <1>6, <2>1 DEF ApiFlush, Api
    <3> QED BY <2>1, <3>1, ApiMoves
  <2>2. CASE ~m BY <1>3, <1>6, <2>2 DEF ApiFlush, Api, Handler
  <2> QED BY <2>1, <2>2
<1>9. Api'.at = (IF m THEN "notify" ELSE "idle") /\ Api'.ep = (IF m THEN e ELSE NoEp)
      /\ Api'.to = Api.to /\ Handler' = Handler
  BY <1>2, <1>8, Known DEF TaskType, EpInv, BooksInv, HandsEmpty
<1>10. HandsEmpty' BY <1>1, <1>2, <1>7, <1>9 DEF EpInv, BooksInv, HandsEmpty
<1>11. CountsAreRight' BY <1>1, <1>7, <1>9, CountsStay
<1>12. Announced'
  <2>1. CASE m
    <3>1. Api'.at = "notify" /\ Api'.ep = e BY <1>9, <2>1
    <3> QED BY <1>1, <1>2, <1>7, <1>9, <3>1, Known DEF EpInv, BooksInv, Announced
  <2>2. CASE ~m
    <3>1. \A f \in Ep : pipe'[f].done = pipe[f].done BY <1>7, <2>2
    <3> QED BY <1>1, <1>2, <1>9, <3>1, Known DEF EpInv, BooksInv, Announced
  <2> QED BY <2>1, <2>2
<1>13. LivesOn'
  <2>1. \A f \in {Handler'.ep, Handler'.to, Api'.ep, Api'.to, dmn'.ep} \ {NoEp} :
           (f \in {Handler.ep, Handler.to, Api.ep, Api.to, dmn.ep} \ {NoEp} /\ f \in Ep) \/ f = e
    BY <1>1, <1>2, <1>9, Known DEF TaskType, DaemonType
  <2>2. \A f \in {Handler'.ep, Handler'.to, Api'.ep, Api'.to, dmn'.ep} \ {NoEp} : Alive(f)'
    BY <1>2, <1>7, <2>1, Known DEF EpInv, BooksInv, LivesOn
  <2>3. \A f \in Eps : wrap'[f].pending => Alive(f)'
    BY <1>1, <1>7, Known DEF EpInv, BooksInv, LivesOn
  <2> QED BY <1>1, <2>2, <2>3, Zenon DEF LivesOn
<1>14. PendingAgree'
  BY <1>1, <1>2, <1>7, <1>9 DEF EpInv, BooksInv, PendingAgree, In
<1>15. FreeingIsQuiet'
  BY <1>1, <1>2, <1>7, <1>9, Known DEF EpInv, BooksInv, FreeingIsQuiet
<1>16. HaltsHold'
  BY <1>1, <1>2, <1>7, <1>9, Where DEF EpInv, BooksInv, HaltsHold, Conn
<1>17. ErrorsHalt'
  BY <1>1, <1>2, <1>7, <1>9, Where DEF EpInv, BooksInv, ErrorsHalt, Alive
<1>18. Possible'
  BY <1>1, <1>2, <1>7, <1>9, Known DEF EpInv, BooksInv, Possible, Conn
<1> QED BY <1>10, <1>11, <1>12, <1>13, <1>14, <1>15, <1>16, <1>17, <1>18 DEF BooksInv

\* A task clears a pipe of which nobody was promised that it is halted.
LEMMA ApiClearKeeps == ASSUME EpInv, NEW e \in Eps, ApiClear(e) PROVE BooksInv'
<1>1. Eps' = Eps /\ Uses' = Uses /\ env' = env
      /\ UNCHANGED <<port, gone, acts, wrap, pendingEps, sem, dmn>>
  BY TypesStay DEF ApiClear, fixed
<1>2. Api.at = "idle" /\ Alive(e) BY DEF ApiClear, Commanding
<1>3. PICK q : /\ q = pipe[e] /\ Good(q) /\ q.state = "halted"
  BY Known DEF ApiClear
<1>4. PICK p : /\ Good(p) /\ Held(p) = Held(q) /\ p.waiter = q.waiter /\ p.done = q.done
               /\ p.state = IF Conn THEN "active" ELSE "halted"
               /\ pipe' = [pipe EXCEPT ![e] = p]
  <2>1. PICK p : p = Cleared(q) OBVIOUS
  <2>2. pipe' = [pipe EXCEPT ![e] = p] BY <1>2, <1>3, <2>1 DEF ApiClear
  <2> QED BY <1>3, <2>1, <2>2, ClearedKeeps
<1>5. OnePipeIs(e, p) BY <1>3, <1>4, OnePipe
<1>6. (\A f \in Ep : Queue(f)' = Queue(f)) /\ (\A f \in Ep : Alive(f)' <=> Alive(f))
      /\ (\A f \in Ep : pipe'[f].waiter = pipe[f].waiter /\ pipe'[f].done = pipe[f].done)
      /\ (\A f \in Ep : f # e => pipe'[f].state = pipe[f].state)
      /\ (~Conn => pipe'[e].state = pipe[e].state)
  BY <1>3, <1>4, <1>5 DEF OnePipeIs
<1>7. Handler' = Handler /\ Api' = Api BY DEF ApiClear, Handler, Api
<1>8. Calm BY DEF EpInv, EpSafe, Gentle, Calm, Uses, Eps
<1>9. ~(Conn /\ dmn.at \in {"walk", "wait", "flush", "notify"})
      /\ ~(Handler.at = "flush" /\ Handler.ep = e) /\ ~(wrap[e].pending /\ wrap[e].last = "error")
  BY <1>8 DEF ApiClear, Walking, ErrorPending
<1>10. HandsEmpty'
  BY <1>1, <1>2, <1>6, <1>7, <1>9 DEF EpInv, BooksInv, HandsEmpty
<1>11. CountsAreRight' BY <1>1, <1>6, <1>7, CountsStay
<1>12. Announced'
  BY <1>1, <1>2, <1>6, <1>7, <1>9, Known DEF EpInv, BooksInv, Announced
<1>13. LivesOn'
  <2>1. \A f \in {Handler'.ep, Handler'.to, Api'.ep, Api'.to, dmn'.ep} \ {NoEp} :
           f \in {Handler.ep, Handler.to, Api.ep, Api.to, dmn.ep} \ {NoEp} /\ f \in Ep
    BY <1>1, <1>2, <1>7, Known DEF TaskType, DaemonType
  <2>2. \A f \in {Handler'.ep, Handler'.to, Api'.ep, Api'.to, dmn'.ep} \ {NoEp} : Alive(f)'
    BY <1>6, <2>1 DEF EpInv, BooksInv, LivesOn
  <2>3. \A f \in Eps : wrap'[f].pending => Alive(f)'
    BY <1>1, <1>6, Known DEF EpInv, BooksInv, LivesOn
  <2> QED BY <1>1, <2>2, <2>3, Zenon DEF LivesOn
<1>14. PendingAgree'
  BY <1>1, <1>2, <1>6, <1>7, <1>9 DEF EpInv, BooksInv, PendingAgree, In
<1>15. FreeingIsQuiet'
  BY <1>1, <1>2, <1>6, <1>7, <1>9, Known DEF EpInv, BooksInv, FreeingIsQuiet
<1>16. HaltsHold'
  BY <1>1, <1>2, <1>6, <1>7, <1>9, Where DEF EpInv, BooksInv, HaltsHold, Conn
<1>17. ErrorsHalt'
  BY <1>1, <1>2, <1>6, <1>7, <1>9, Where DEF EpInv, BooksInv, ErrorsHalt, Alive
<1>18. Possible'
  BY <1>1, <1>2, <1>6, <1>7, <1>9, Known DEF EpInv, BooksInv, Possible, Conn
<1> QED BY <1>10, <1>11, <1>12, <1>13, <1>14, <1>15, <1>16, <1>17, <1>18 DEF BooksInv

\* A task halts a pipe that executes nothing.
LEMMA ApiHaltsKeeps ==
    ASSUME EpInv, NEW e \in Eps, ApiHalt(e), ~HaltWaits(pipe[e])
    PROVE BooksInv'
<1>1. Eps' = Eps /\ Uses' = Uses /\ env' = env
      /\ UNCHANGED <<port, gone, acts, wrap, pendingEps, sem, dmn>>
  BY TypesStay DEF ApiHalt, fixed
<1>2. Api.at = "idle" /\ Alive(e) BY DEF ApiHalt, Commanding
<1>3. PICK q : /\ q = pipe[e] /\ Good(q) /\ q.state # "none" /\ ~HaltWaits(q)
  BY <1>2, Known DEF Alive
<1>4. PICK p : /\ Good(p) /\ Held(p) = Held(q) /\ p.state = "halted" /\ p.waiter = q.waiter /\ p.done = q.done
               /\ pipe' = [pipe EXCEPT ![e] = p]
  <2>1. PICK p : p = [q EXCEPT !.state = "halted", !.cmd = FALSE] OBVIOUS
  <2>2. pipe' = [pipe EXCEPT ![e] = p] BY <1>2, <1>3, <2>1 DEF ApiHalt
  <2> QED BY <1>3, <2>1, <2>2, HaltingKeeps
<1>5. OnePipeIs(e, p) BY <1>3, <1>4, OnePipe
<1>6. (\A f \in Ep : Queue(f)' = Queue(f)) /\ (\A f \in Ep : Alive(f)' <=> Alive(f))
      /\ (\A f \in Ep : pipe'[f].waiter = pipe[f].waiter /\ pipe'[f].done = pipe[f].done)
      /\ (\A f \in Ep : f # e => pipe'[f].state = pipe[f].state)
      /\ pipe'[e].state = "halted"
  BY <1>3, <1>4, <1>5 DEF OnePipeIs
<1>7. Handler' = Handler /\ Api' = Api BY DEF ApiHalt, Handler, Api
<1>8. HandsEmpty' BY <1>1, <1>2, <1>6, <1>7 DEF EpInv, BooksInv, HandsEmpty
<1>9. CountsAreRight' BY <1>1, <1>6, <1>7, CountsStay
<1>10. Announced'
  BY <1>1, <1>2, <1>6, <1>7, Known DEF EpInv, BooksInv, Announced
<1>11. LivesOn'
  <2>1. \A f \in {Handler'.ep, Handler'.to, Api'.ep, Api'.to, dmn'.ep} \ {NoEp} :
           f \in {Handler.ep, Handler.to, Api.ep, Api.to, dmn.ep} \ {NoEp} /\ f \in Ep
    BY <1>1, <1>2, <1>7, Known DEF TaskType, DaemonType
  <2>2. \A f \in {Handler'.ep, Handler'.to, Api'.ep, Api'.to, dmn'.ep} \ {NoEp} : Alive(f)'
    BY <1>6, <2>1 DEF EpInv, BooksInv, LivesOn
  <2>3. \A f \in Eps : wrap'[f].pending => Alive(f)'
    BY <1>1, <1>6, Known DEF EpInv, BooksInv, LivesOn
  <2> QED BY <1>1, <2>2, <2>3, Zenon DEF LivesOn
<1>12. PendingAgree'
  BY <1>1, <1>2, <1>6, <1>7 DEF EpInv, BooksInv, PendingAgree, In
<1>13. FreeingIsQuiet'
  BY <1>1, <1>2, <1>6, <1>7, Known DEF EpInv, BooksInv, FreeingIsQuiet
<1>14. HaltsHold'
  BY <1>1, <1>2, <1>6, <1>7, Where DEF EpInv, BooksInv, HaltsHold, Conn
<1>15. ErrorsHalt'
  BY <1>1, <1>2, <1>6, <1>7, Where DEF EpInv, BooksInv, ErrorsHalt, Alive
<1>16. Possible'
  BY <1>1, <1>2, <1>6, <1>7, Known DEF EpInv, BooksInv, Possible, Conn
<1> QED BY <1>8, <1>9, <1>10, <1>11, <1>12, <1>13, <1>14, <1>15, <1>16 DEF BooksInv

\* A task waits for a pipe that is executing; nobody else does.
LEMMA ApiWaitsKeeps ==
    ASSUME EpInv, NEW e \in Eps, ApiHalt(e), HaltWaits(pipe[e])
    PROVE BooksInv'
<1>1. Eps' = Eps /\ Uses' = Uses /\ env' = env
      /\ UNCHANGED <<port, gone, acts, wrap, pendingEps, sem, dmn>>
  BY TypesStay DEF ApiHalt, fixed
<1>2. Api.at = "idle" /\ Alive(e) /\ ~(Walking /\ Conn) /\ Conn
  BY DEF ApiHalt, Commanding, HaltWaits, EpInv, EpSafe, Gentle, Calm, Uses, Eps
<1>3. PICK q : /\ q = pipe[e] /\ Good(q) /\ q.state = "active" /\ HaltWaits(q) /\ q.waiter = "none"
  <2>1. pipe[e].waiter \in {"none", "api", "daemon"} BY Known DEF EpPipe
  <2>2. pipe[e].waiter # "api" /\ pipe[e].waiter # "daemon"
    BY <1>2, Known DEF EpInv, BooksInv, HaltsHold, Walking
  <2> QED BY <2>1, <2>2, Known DEF HaltWaits
<1>4. PICK p : /\ Good(p) /\ Held(p) = Held(q) /\ p.state = q.state /\ p.waiter = "api" /\ p.done = q.done
               /\ pipe' = [pipe EXCEPT ![e] = p]
  <2>1. PICK p : p = [q EXCEPT !.waiter = "api", !.cmd = TRUE] OBVIOUS
  <2>2. pipe' = [pipe EXCEPT ![e] = p] BY <1>2, <1>3, <2>1 DEF ApiHalt
  <2> QED BY <1>3, <2>1, <2>2, ApiWaiting
<1>5. OnePipeIs(e, p) BY <1>3, <1>4, OnePipe
<1>6. (\A f \in Ep : Queue(f)' = Queue(f)) /\ (\A f \in Ep : Alive(f)' <=> Alive(f))
      /\ (\A f \in Ep : pipe'[f].state = pipe[f].state /\ pipe'[f].done = pipe[f].done)
      /\ (\A f \in Ep : f # e => pipe'[f].waiter = pipe[f].waiter)
      /\ pipe'[e].waiter = "api"
  BY <1>3, <1>4, <1>5 DEF OnePipeIs
<1>7. Api' = [Api EXCEPT !.at = "wait", !.ep = e] /\ Handler' = Handler
  <2>1. task' = [task EXCEPT !["api"] = [Api EXCEPT !.at = "wait", !.ep = e]]
    BY <1>3 DEF ApiHalt, At, Api
  <2> QED BY <2>1, ApiMoves
<1>8. Api'.at = "wait" /\ Api'.ep = e /\ Api'.to = Api.to /\ Handler' = Handler
  BY <1>7, Known DEF TaskType
<1>9. Conn /\ dmn.at \notin {"walk", "wait", "flush", "notify"}
      /\ \A f \in Ep : pipe[f].waiter = "none"
  <2>1. \A f \in Ep : pipe[f].waiter \in {"none", "api", "daemon"}
    BY Known DEF EpPipe
  <2> QED BY <1>2, <2>1 DEF EpInv, BooksInv, HaltsHold, Walking
<1>10. HandsEmpty'
  BY <1>1, <1>2, <1>6, <1>8, <1>9 DEF EpInv, BooksInv, HandsEmpty
<1>11. CountsAreRight' BY <1>1, <1>6, <1>8, CountsStay
<1>12. Announced'
  BY <1>1, <1>2, <1>6, <1>8, <1>9, Known DEF EpInv, BooksInv, Announced
<1>13. LivesOn'
  <2>1. \A f \in {Handler'.ep, Handler'.to, Api'.ep, Api'.to, dmn'.ep} \ {NoEp} :
           (f \in {Handler.ep, Handler.to, Api.ep, Api.to, dmn.ep} \ {NoEp} /\ f \in Ep) \/ f = e
    BY <1>1, <1>2, <1>8, Known DEF TaskType, DaemonType
  <2>2. \A f \in {Handler'.ep, Handler'.to, Api'.ep, Api'.to, dmn'.ep} \ {NoEp} : Alive(f)'
    BY <1>2, <1>6, <2>1, Known DEF EpInv, BooksInv, LivesOn
  <2>3. \A f \in Eps : wrap'[f].pending => Alive(f)'
    BY <1>1, <1>6, Known DEF EpInv, BooksInv, LivesOn
  <2> QED BY <1>1, <2>2, <2>3, Zenon DEF LivesOn
<1>14. PendingAgree'
  BY <1>1, <1>2, <1>6, <1>8, <1>9 DEF EpInv, BooksInv, PendingAgree, In
<1>15. FreeingIsQuiet'
  BY <1>1, <1>2, <1>6, <1>8, <1>9, Known DEF EpInv, BooksInv, FreeingIsQuiet
<1>16. HaltsHold'
  BY <1>1, <1>2, <1>6, <1>8, <1>9, Where DEF EpInv, BooksInv, HaltsHold, Conn
<1>17. ErrorsHalt'
  BY <1>1, <1>2, <1>6, <1>8, <1>9, Where DEF EpInv, BooksInv, ErrorsHalt, Alive
<1>18. Possible'
  BY <1>1, <1>2, <1>6, <1>8, <1>9, Known DEF EpInv, BooksInv, Possible, Conn
<1> QED BY <1>10, <1>11, <1>12, <1>13, <1>14, <1>15, <1>16, <1>17, <1>18 DEF BooksInv

\* An endpoint is freed that nobody has anything to do with.
LEMMA FreeEpKeeps == ASSUME EpInv, NEW e \in Eps, FreeEp(e) PROVE BooksInv'
<1>1. Eps' = Eps /\ Uses' = Uses /\ env' = env
      /\ UNCHANGED <<port, gone, acts, wrap, pendingEps, sem, dmn>>
  BY TypesStay DEF FreeEp, fixed
<1>2. Api.at = "free" /\ e \in Api.left /\ dmn.at \notin {"walk", "wait", "flush", "notify"}
      /\ Handler.at \in {"idle", "loop"} /\ ~wrap[e].pending
  BY DEF FreeEp, Walking, EpInv, BooksInv, FreeingIsQuiet
<1>3. Queue(e) = <<>>
  <2>1. CASE Alive(e)
    <3>1. PICK i, j \in Nat : i = Len(Queue(e)) /\ j = Owed(e) BY OwedIs
    <3>2. i + j = 0
      BY <1>2, <2>1, <3>1, OwedIs DEF EpInv, BooksInv, FreeingIsQuiet
    <3>3. i = 0 BY <3>2
    <3> QED BY <3>1, <3>3, QueueIsCounted, Known
  <2>2. CASE ~Alive(e)
    <3>1. Held(pipe[e]) = <<>> BY <2>2, Known DEF Alive, Good, Sound
    <3> QED BY <3>1 DEF Held, Queue
  <2> QED BY <2>1, <2>2
<1>4. pipe' = [pipe EXCEPT ![e] = NoPipe] /\ task' = [task EXCEPT !["api"] = [Api EXCEPT !.left = @ \ {e}]]
  <2>1. Good(pipe[e]) /\ Held(pipe[e]) = <<>> BY <1>3, Known DEF Held, Queue
  <2>2. pipe[e].buf = <<>> /\ ~pipe[e].hasUrb
    BY <2>1, HoldsNothing DEF Good, Sound, EpPipe
  <2>3. ~pipe[e].exec /\ ~pipe[e].hasUrb BY <2>1, <2>2 DEF Good, Sound
  <2> QED BY <1>3, <2>3 DEF FreeEp, Api
<1>5. (\A f \in Ep : Queue(f)' = Queue(f)) /\ (\A f \in Ep : f # e => (Alive(f)' <=> Alive(f)))
      /\ (\A f \in Ep : f # e => /\ pipe'[f].state = pipe[f].state /\ pipe'[f].done = pipe[f].done
                                   /\ pipe'[f].waiter = pipe[f].waiter)
      /\ ~Alive(e)' /\ pipe'[e].done = <<>> /\ pipe'[e].waiter = "none"
  <2>1. e \in Ep /\ EpSafe /\ Held(pipe[e]) = <<>>
    BY <1>3, Known DEF EpInv, Held, Queue
  <2>2. PICK p : p = NoPipe /\ Good(p) /\ p.state = "none" /\ Held(p) = <<>> /\ p.done = <<>> /\ p.waiter = "none"
    BY NoPipeIsGood
  <2>3. SamePipes /\ pipe'[e] = p /\ \A f \in Ep \ {e} : pipe'[f] = pipe[f]
    BY <1>4, <2>1, <2>2, PipeChanges
  <2> QED BY <2>2, <2>3 DEF SamePipes, Alive
<1>6. Api' = [Api EXCEPT !.left = @ \ {e}] /\ Handler' = Handler
  BY <1>4, ApiMoves
<1>7. Api'.at = "free" /\ Api'.ep = Api.ep /\ Api'.to = Api.to /\ Handler' = Handler
  BY <1>2, <1>6, Known DEF TaskType
<1>8. /\ Handler.ep = NoEp /\ Handler.to = NoEp /\ Api.ep = NoEp /\ Api.to = NoEp /\ dmn.ep = NoEp
  BY <1>2 DEF EpInv, BooksInv, HandsEmpty
<1>9. HandsEmpty'
  BY <1>1, <1>2, <1>5, <1>7, <1>8 DEF EpInv, BooksInv, HandsEmpty
<1>10. CountsAreRight'
  <2>1. \A f \in Eps : Owed(f)' = Owed(f) BY <1>7 DEF Owed
  <2>2. \A f \in Eps : Alive(f)' => Alive(f) /\ Queue(f)' = Queue(f) /\ Owed(f)' = Owed(f)
    BY <1>5, <2>1, Known
  <2> QED BY <1>1, <2>2, CountsSame
<1>11. Announced'
  BY <1>1, <1>2, <1>5, <1>7, <1>8, Known DEF EpInv, BooksInv, Announced
<1>12. LivesOn'
  <2>1. \A f \in Eps : wrap'[f].pending => Alive(f)'
    BY <1>1, <1>2, <1>5, Known DEF EpInv, BooksInv, LivesOn
  <2>2. {Handler'.ep, Handler'.to, Api'.ep, Api'.to, dmn'.ep} \ {NoEp} = {}
    BY <1>1, <1>7, <1>8
  <2> QED BY <1>1, <2>1, <2>2, Zenon DEF LivesOn
<1>13. PendingAgree'
  BY <1>1, <1>2, <1>5, <1>7, <1>8 DEF EpInv, BooksInv, PendingAgree, In
<1>14. FreeingIsQuiet'
  BY <1>1, <1>2, <1>5, <1>7, <1>8, Known DEF EpInv, BooksInv, FreeingIsQuiet
<1>15. HaltsHold'
  BY <1>1, <1>2, <1>5, <1>7, <1>8, Where DEF EpInv, BooksInv, HaltsHold, Conn
<1>16. ErrorsHalt'
  <2>1. \A f \in Eps : Alive(f)' => f # e /\ Alive(f) /\ pipe'[f].state = pipe[f].state
    BY <1>5, Known
  <2>2. \A f \in Eps : Alive(f)' /\ wrap'[f].pending /\ wrap'[f].last = "error" => pipe'[f].state = "halted"
    BY <1>1, <2>1 DEF EpInv, BooksInv, ErrorsHalt
  <2>3. Handler'.at # "flush" BY <1>2, <1>7
  <2> QED BY <1>1, <2>2, <2>3, Zenon DEF ErrorsHalt
<1>17. Possible'
  BY <1>1, <1>2, <1>5, <1>7, <1>8, Known DEF EpInv, BooksInv, Possible, Conn
<1> QED BY <1>9, <1>10, <1>11, <1>12, <1>13, <1>14, <1>15, <1>16, <1>17 DEF BooksInv

\* The daemon halts a pipe that executes nothing.
LEMMA DmnHaltsKeeps ==
    ASSUME EpInv, NEW e \in Eps, DmnHalt(e), ~HaltWaits(pipe[e])
    PROVE BooksInv'
<1>1. Eps' = Eps /\ Uses' = Uses /\ env' = env
      /\ UNCHANGED <<port, gone, acts, wrap, pendingEps, sem>>
  BY TypesStay DEF DmnHalt, fixed
<1>2. dmn.at = "walk" /\ dmn.why # "resume" /\ e \in dmn.left /\ Alive(e) /\ pipe[e].waiter = "none"
  <2>1. Calm BY DEF EpInv, EpSafe, Gentle, Calm, Uses, Eps
  <2>2. dmn.at = "walk" /\ dmn.why # "resume" /\ e \in dmn.left /\ pipe[e].waiter = "none"
    BY <2>1 DEF DmnHalt
  <2> QED BY <2>2, Known DEF AllocatedAreClaimed, Walking
<1>3. PICK q : /\ q = pipe[e] /\ Good(q) /\ q.state # "none" /\ ~HaltWaits(q)
  BY <1>2, Known DEF Alive
<1>4. PICK p : /\ Good(p) /\ Held(p) = Held(q) /\ p.state = "halted" /\ p.waiter = q.waiter /\ p.done = q.done
               /\ pipe' = [pipe EXCEPT ![e] = p]
  <2>1. PICK p : p = [q EXCEPT !.state = "halted", !.cmd = FALSE] OBVIOUS
  <2>2. pipe' = [pipe EXCEPT ![e] = p] BY <1>2, <1>3, <2>1 DEF DmnHalt
  <2> QED BY <1>3, <2>1, <2>2, HaltingKeeps
<1>5. OnePipeIs(e, p) BY <1>3, <1>4, OnePipe
<1>6. (\A f \in Ep : Queue(f)' = Queue(f)) /\ (\A f \in Ep : Alive(f)' <=> Alive(f))
      /\ (\A f \in Ep : pipe'[f].waiter = pipe[f].waiter /\ pipe'[f].done = pipe[f].done)
      /\ (\A f \in Ep : f # e => pipe'[f].state = pipe[f].state)
      /\ pipe'[e].state = "halted"
  BY <1>3, <1>4, <1>5 DEF OnePipeIs
<1>7. dmn' = [dmn EXCEPT !.at = "flush", !.ep = e] BY <1>3 DEF DmnHalt
<1>8. dmn'.at = "flush" /\ dmn'.ep = e /\ dmn'.why = dmn.why
  BY <1>2, <1>7, Known DEF DaemonType
<1>9. Handler' = Handler /\ Api' = Api BY DEF DmnHalt, Handler, Api
<1>10. HandsEmpty'
  BY <1>1, <1>2, <1>6, <1>8, <1>9 DEF EpInv, BooksInv, HandsEmpty
<1>11. CountsAreRight' BY <1>1, <1>6, <1>9, CountsStay
<1>12. Announced'
  BY <1>1, <1>2, <1>6, <1>8, <1>9, Known DEF EpInv, BooksInv, Announced
<1>13. LivesOn'
  <2>1. \A f \in {Handler'.ep, Handler'.to, Api'.ep, Api'.to, dmn'.ep} \ {NoEp} :
           (f \in {Handler.ep, Handler.to, Api.ep, Api.to, dmn.ep} \ {NoEp} /\ f \in Ep) \/ f = e
    BY <1>1, <1>2, <1>8, <1>9, Known DEF TaskType, DaemonType
  <2>2. \A f \in {Handler'.ep, Handler'.to, Api'.ep, Api'.to, dmn'.ep} \ {NoEp} : Alive(f)'
    BY <1>2, <1>6, <2>1, Known DEF EpInv, BooksInv, LivesOn
  <2>3. \A f \in Eps : wrap'[f].pending => Alive(f)'
    BY <1>1, <1>6, Known DEF EpInv, BooksInv, LivesOn
  <2> QED BY <1>1, <2>2, <2>3, Zenon DEF LivesOn
<1>14. PendingAgree'
  BY <1>1, <1>2, <1>6, <1>8, <1>9 DEF EpInv, BooksInv, PendingAgree, In
<1>15. FreeingIsQuiet'
  BY <1>1, <1>2, <1>6, <1>8, <1>9, Known DEF EpInv, BooksInv, FreeingIsQuiet
<1>16. HaltsHold'
  BY <1>1, <1>2, <1>6, <1>8, <1>9, Where DEF EpInv, BooksInv, HaltsHold, Conn
<1>17. ErrorsHalt'
  BY <1>1, <1>2, <1>6, <1>8, <1>9, Where DEF EpInv, BooksInv, ErrorsHalt, Alive
<1>18. Possible'
  BY <1>1, <1>2, <1>6, <1>8, <1>9, Known DEF EpInv, BooksInv, Possible, Conn
<1> QED BY <1>10, <1>11, <1>12, <1>13, <1>14, <1>15, <1>16, <1>17, <1>18 DEF BooksInv

\* The daemon waits for a pipe that is executing; nobody else does.
LEMMA DmnWaitsKeeps ==
    ASSUME EpInv, NEW e \in Eps, DmnHalt(e), HaltWaits(pipe[e])
    PROVE BooksInv'
<1>1. Eps' = Eps /\ Uses' = Uses /\ env' = env
      /\ UNCHANGED <<port, gone, acts, wrap, pendingEps, sem>>
  BY TypesStay DEF DmnHalt, fixed
<1>2. dmn.at = "walk" /\ dmn.why # "resume" /\ e \in dmn.left /\ Alive(e) /\ pipe[e].waiter = "none"
  <2>1. Calm BY DEF EpInv, EpSafe, Gentle, Calm, Uses, Eps
  <2>2. dmn.at = "walk" /\ dmn.why # "resume" /\ e \in dmn.left /\ pipe[e].waiter = "none"
    BY <2>1 DEF DmnHalt
  <2> QED BY <2>2, Known DEF AllocatedAreClaimed, Walking
<1>3. PICK q : /\ q = pipe[e] /\ Good(q) /\ q.state = "active" /\ HaltWaits(q) /\ q.waiter = "none"
  BY <1>2, Known DEF HaltWaits
<1>4. PICK p : /\ Good(p) /\ Held(p) = Held(q) /\ p.state = q.state /\ p.waiter = "daemon" /\ p.done = q.done
               /\ pipe' = [pipe EXCEPT ![e] = p]
  <2>1. PICK p : p = [q EXCEPT !.waiter = "daemon", !.cmd = TRUE] OBVIOUS
  <2>2. pipe' = [pipe EXCEPT ![e] = p] BY <1>2, <1>3, <2>1 DEF DmnHalt
  <2> QED BY <1>3, <2>1, <2>2, DaemonWaiting
<1>5. OnePipeIs(e, p) BY <1>3, <1>4, OnePipe
<1>6. (\A f \in Ep : Queue(f)' = Queue(f)) /\ (\A f \in Ep : Alive(f)' <=> Alive(f))
      /\ (\A f \in Ep : pipe'[f].state = pipe[f].state /\ pipe'[f].done = pipe[f].done)
      /\ (\A f \in Ep : f # e => pipe'[f].waiter = pipe[f].waiter)
      /\ pipe'[e].waiter = "daemon" /\ pipe[e].state = "active"
  BY <1>3, <1>4, <1>5 DEF OnePipeIs
<1>7. dmn' = [dmn EXCEPT !.at = "wait", !.ep = e] BY <1>3 DEF DmnHalt
<1>8. dmn'.at = "wait" /\ dmn'.ep = e /\ dmn'.why = dmn.why
  BY <1>2, <1>7, Known DEF DaemonType
<1>9. Handler' = Handler /\ Api' = Api BY DEF DmnHalt, Handler, Api
<1>10. HandsEmpty'
  BY <1>1, <1>2, <1>6, <1>8, <1>9 DEF EpInv, BooksInv, HandsEmpty
<1>11. CountsAreRight' BY <1>1, <1>6, <1>9, CountsStay
<1>12. Announced'
  BY <1>1, <1>2, <1>6, <1>8, <1>9, Known DEF EpInv, BooksInv, Announced
<1>13. LivesOn'
  <2>1. \A f \in {Handler'.ep, Handler'.to, Api'.ep, Api'.to, dmn'.ep} \ {NoEp} :
           (f \in {Handler.ep, Handler.to, Api.ep, Api.to, dmn.ep} \ {NoEp} /\ f \in Ep) \/ f = e
    BY <1>1, <1>2, <1>8, <1>9, Known DEF TaskType, DaemonType
  <2>2. \A f \in {Handler'.ep, Handler'.to, Api'.ep, Api'.to, dmn'.ep} \ {NoEp} : Alive(f)'
    BY <1>2, <1>6, <2>1, Known DEF EpInv, BooksInv, LivesOn
  <2>3. \A f \in Eps : wrap'[f].pending => Alive(f)'
    BY <1>1, <1>6, Known DEF EpInv, BooksInv, LivesOn
  <2> QED BY <1>1, <2>2, <2>3, Zenon DEF LivesOn
<1>14. PendingAgree'
  BY <1>1, <1>2, <1>6, <1>8, <1>9 DEF EpInv, BooksInv, PendingAgree, In
<1>15. FreeingIsQuiet'
  BY <1>1, <1>2, <1>6, <1>8, <1>9, Known DEF EpInv, BooksInv, FreeingIsQuiet
<1>16. HaltsHold'
  BY <1>1, <1>2, <1>6, <1>8, <1>9, Where DEF EpInv, BooksInv, HaltsHold, Conn
<1>17. ErrorsHalt'
  BY <1>1, <1>2, <1>6, <1>8, <1>9, Where DEF EpInv, BooksInv, ErrorsHalt, Alive
<1>18. Possible'
  BY <1>1, <1>2, <1>6, <1>8, <1>9, Known DEF EpInv, BooksInv, Possible, Conn
<1> QED BY <1>10, <1>11, <1>12, <1>13, <1>14, <1>15, <1>16, <1>17, <1>18 DEF BooksInv

\* The daemon that waited for a pipe finds it halted.
LEMMA DmnHaltedKeeps == ASSUME EpInv, DmnHalted PROVE BooksInv'
<1>1. Eps' = Eps /\ Uses' = Uses /\ env' = env
      /\ UNCHANGED <<port, gone, acts, wrap, pendingEps, sem>>
  BY TypesStay DEF DmnHalted, fixed
<1>2. PICK e \in Eps : e = dmn.ep /\ dmn.at = "wait" BY Where DEF DmnHalted
<1>3. PICK q : /\ q = pipe[e] /\ Good(q) /\ q.state = "halted" /\ q.waiter # "daemon"
  BY <1>2, Known DEF EpInv, BooksInv, HaltsHold, DmnHalted
<1>4. PICK p : /\ Good(p) /\ Held(p) = Held(q) /\ p.state = q.state /\ p.waiter = q.waiter /\ p.done = q.done
               /\ pipe' = [pipe EXCEPT ![e] = p]
  <2>1. PICK p : p = [q EXCEPT !.cmd = FALSE] OBVIOUS
  <2>2. pipe' = [pipe EXCEPT ![e] = p] BY <1>2, <1>3, <2>1 DEF DmnHalted
  <2> QED BY <1>3, <2>1, <2>2, EndingKeeps
<1>5. OnePipeIs(e, p) BY <1>3, <1>4, OnePipe
<1>6. (\A f \in Ep : Queue(f)' = Queue(f)) /\ (\A f \in Ep : Alive(f)' <=> Alive(f))
      /\ (\A f \in Ep : pipe'[f].state = pipe[f].state /\ pipe'[f].waiter = pipe[f].waiter)
      /\ (\A f \in Ep : pipe'[f].done = pipe[f].done)
      /\ pipe[e].state = "halted" /\ pipe[e].waiter # "daemon"
  BY <1>3, <1>4, <1>5 DEF OnePipeIs
<1>7. dmn' = [dmn EXCEPT !.at = "flush"] BY <1>2, <1>3 DEF DmnHalted
<1>8. dmn'.at = "flush" /\ dmn'.ep = e /\ dmn'.ep = dmn.ep /\ dmn'.why = dmn.why
  BY <1>2, <1>7, Known DEF DaemonType
<1>9. Handler' = Handler /\ Api' = Api BY DEF DmnHalted, Handler, Api
<1>10. HandsEmpty'
  BY <1>1, <1>2, <1>6, <1>8, <1>9 DEF EpInv, BooksInv, HandsEmpty
<1>11. CountsAreRight' BY <1>1, <1>6, <1>9, CountsStay
<1>12. Announced'
  BY <1>1, <1>2, <1>6, <1>8, <1>9, Known DEF EpInv, BooksInv, Announced
<1>13. LivesOn'
  <2>1. \A f \in {Handler'.ep, Handler'.to, Api'.ep, Api'.to, dmn'.ep} \ {NoEp} :
           f \in {Handler.ep, Handler.to, Api.ep, Api.to, dmn.ep} \ {NoEp} /\ f \in Ep
    BY <1>1, <1>2, <1>8, <1>9, Known DEF TaskType, DaemonType
  <2>2. \A f \in {Handler'.ep, Handler'.to, Api'.ep, Api'.to, dmn'.ep} \ {NoEp} : Alive(f)'
    BY <1>6, <2>1 DEF EpInv, BooksInv, LivesOn
  <2>3. \A f \in Eps : wrap'[f].pending => Alive(f)'
    BY <1>1, <1>6, Known DEF EpInv, BooksInv, LivesOn
  <2> QED BY <1>1, <2>2, <2>3, Zenon DEF LivesOn
<1>14. PendingAgree'
  BY <1>1, <1>2, <1>6, <1>8, <1>9 DEF EpInv, BooksInv, PendingAgree, In
<1>15. FreeingIsQuiet'
  BY <1>1, <1>2, <1>6, <1>8, <1>9, Known DEF EpInv, BooksInv, FreeingIsQuiet
<1>16. HaltsHold'
  BY <1>1, <1>2, <1>6, <1>8, <1>9, Where DEF EpInv, BooksInv, HaltsHold, Conn
<1>17. ErrorsHalt'
  BY <1>1, <1>2, <1>6, <1>8, <1>9, Where DEF EpInv, BooksInv, ErrorsHalt, Alive
<1>18. Possible'
  BY <1>1, <1>2, <1>6, <1>8, <1>9, Known DEF EpInv, BooksInv, Possible, Conn
<1> QED BY <1>10, <1>11, <1>12, <1>13, <1>14, <1>15, <1>16, <1>17, <1>18 DEF BooksInv

\* The daemon flushes a pipe that is halted.
LEMMA DmnFlushKeeps == ASSUME EpInv, DmnFlush PROVE BooksInv'
<1>1. Eps' = Eps /\ Uses' = Uses /\ env' = env
      /\ UNCHANGED <<port, gone, acts, wrap, pendingEps, sem>>
  BY TypesStay DEF DmnFlush, fixed
<1>2. PICK e \in Eps : e = dmn.ep /\ dmn.at = "flush" BY Where DEF DmnFlush
<1>3. PICK q : /\ q = pipe[e] /\ Good(q) /\ q.state = "halted"
  BY <1>2, Known DEF EpInv, BooksInv, HaltsHold
<1>4. PICK p : /\ Good(p) /\ Held(p) = Held(q) /\ p.state = "halted" /\ p.waiter = q.waiter
               /\ (~FlushMoves(q) => p.done = q.done)
               /\ pipe' = [pipe EXCEPT ![e] = p]
  <2>1. PICK p : p = Flushed(q) OBVIOUS
  <2>2. pipe' = [pipe EXCEPT ![e] = p] BY <1>2, <1>3, <2>1 DEF DmnFlush
  <2> QED BY <1>3, <2>1, <2>2, FlushedKeeps
<1>5. OnePipeIs(e, p) BY <1>3, <1>4, OnePipe
<1>6. PICK m \in BOOLEAN : m = FlushMoves(q) /\ (m => Held(q) # <<>>)
  BY <1>3, FlushedKeeps DEF FlushMoves
<1>7. (\A f \in Ep : Queue(f)' = Queue(f)) /\ (\A f \in Ep : Alive(f)' <=> Alive(f))
      /\ (\A f \in Ep : pipe'[f].state = pipe[f].state /\ pipe'[f].waiter = pipe[f].waiter)
      /\ (\A f \in Ep : f # e => pipe'[f].done = pipe[f].done)
      /\ (~m => pipe'[e].done = pipe[e].done)
  BY <1>3, <1>4, <1>5, <1>6 DEF OnePipeIs
<1>8. dmn' = IF m THEN [dmn EXCEPT !.at = "notify"] ELSE NextLeft
  BY <1>2, <1>3, <1>6 DEF DmnFlush
<1>9. dmn'.at = (IF m THEN "notify" ELSE "walk") /\ dmn'.ep = (IF m THEN e ELSE NoEp) /\ dmn'.why = dmn.why
  BY <1>2, <1>8, Known DEF DaemonType, NextLeft
<1>10. Handler' = Handler /\ Api' = Api BY DEF DmnFlush, Handler, Api
<1>11. dmn.why # "resume" /\ (m => Api.at # "free")
  <2>1. Queue(e) = Held(q) BY <1>3 DEF Queue, Held
  <2>2. PICK i, j \in Nat : i = Len(Queue(e)) /\ j = Owed(e) BY OwedIs
  <2>3. Alive(e) BY <1>3 DEF Alive
  <2>4. wrap[e].count = i + j /\ (m => i # 0)
    BY <1>6, <2>1, <2>2, <2>3, OwedIs, QueueIsCounted, Known
  <2>5. m => wrap[e].count # 0 BY <2>2, <2>4
  <2> QED BY <1>2, <2>5 DEF EpInv, BooksInv, FreeingIsQuiet, Possible
<1>12. HandsEmpty'
  BY <1>1, <1>2, <1>7, <1>9, <1>10, <1>11 DEF EpInv, BooksInv, HandsEmpty
<1>13. CountsAreRight' BY <1>1, <1>7, <1>10, CountsStay
<1>14. Announced'
  <2>1. CASE m
    <3>1. dmn'.at = "notify" /\ dmn'.ep = e BY <1>9, <2>1
    <3> QED BY <1>1, <1>2, <1>7, <1>10, <3>1, Known DEF EpInv, BooksInv, Announced
  <2>2. CASE ~m
    <3>1. \A f \in Ep : pipe'[f].done = pipe[f].done BY <1>7, <2>2
    <3> QED BY <1>1, <1>2, <1>10, <3>1, Known DEF EpInv, BooksInv, Announced
  <2> QED BY <2>1, <2>2
<1>15. LivesOn'
  <2>1. \A f \in {Handler'.ep, Handler'.to, Api'.ep, Api'.to, dmn'.ep} \ {NoEp} :
           f \in {Handler.ep, Handler.to, Api.ep, Api.to, dmn.ep} \ {NoEp} /\ f \in Ep
    BY <1>1, <1>2, <1>9, <1>10, Known DEF TaskType, DaemonType
  <2>2. \A f \in {Handler'.ep, Handler'.to, Api'.ep, Api'.to, dmn'.ep} \ {NoEp} : Alive(f)'
    BY <1>7, <2>1 DEF EpInv, BooksInv, LivesOn
  <2>3. \A f \in Eps : wrap'[f].pending => Alive(f)'
    BY <1>1, <1>7, Known DEF EpInv, BooksInv, LivesOn
  <2> QED BY <1>1, <2>2, <2>3, Zenon DEF LivesOn
<1>16. PendingAgree'
  BY <1>1, <1>2, <1>7, <1>9, <1>10, <1>11 DEF EpInv, BooksInv, PendingAgree, In
<1>17. FreeingIsQuiet'
  BY <1>1, <1>2, <1>7, <1>9, <1>10, <1>11, Known DEF EpInv, BooksInv, FreeingIsQuiet
<1>18. HaltsHold'
  BY <1>1, <1>2, <1>7, <1>9, <1>10, <1>11, Where DEF EpInv, BooksInv, HaltsHold, Conn
<1>19. ErrorsHalt'
  BY <1>1, <1>2, <1>7, <1>9, <1>10, <1>11, Where DEF EpInv, BooksInv, ErrorsHalt, Alive
<1>20. Possible'
  BY <1>1, <1>2, <1>7, <1>9, <1>10, <1>11, Known DEF EpInv, BooksInv, Possible, Conn
<1> QED BY <1>12, <1>13, <1>14, <1>15, <1>16, <1>17, <1>18, <1>19, <1>20 DEF BooksInv

\* The daemon lists the endpoint that it flushed.
LEMMA DmnNotifyKeeps == ASSUME EpInv, DmnNotify PROVE BooksInv'
<1>1. Eps' = Eps /\ Uses' = Uses /\ env' = env
      /\ UNCHANGED <<port, gone, acts>>
  BY TypesStay DEF DmnNotify, fixed
<1>2. PICK e \in Eps : e = dmn.ep /\ dmn.at = "notify"
  BY Where DEF DmnNotify
<1>3. PICK q : q = pipe[e] /\ Good(q) BY <1>2, Known
<1>4. PICK p : /\ Good(p) /\ Held(p) = Held(q) /\ p.state = q.state /\ p.waiter = q.waiter /\ p.done = q.done
               /\ pipe' = [pipe EXCEPT ![e] = p]
  <2>1. PICK p : p = [q EXCEPT !.cmd = FALSE] OBVIOUS
  <2>2. pipe' = [pipe EXCEPT ![e] = p] BY <1>2, <1>3, <2>1 DEF DmnNotify
  <2> QED BY <1>3, <2>1, <2>2, EndingKeeps
<1>5. OnePipeIs(e, p) BY <1>3, <1>4, OnePipe
<1>6. (\A f \in Ep : Queue(f)' = Queue(f)) /\ (\A f \in Ep : Alive(f)' <=> Alive(f))
      /\ (\A f \in Ep : pipe'[f].state = pipe[f].state /\ pipe'[f].waiter = pipe[f].waiter)
      /\ \A f \in Ep : pipe'[f].done = pipe[f].done
  BY <1>3, <1>4, <1>5 DEF OnePipeIs
<1>7. dmn' = NextLeft BY DEF DmnNotify
<1>8. dmn'.at = "walk" /\ dmn'.ep = NoEp /\ dmn'.why = dmn.why /\ dmn.why # "resume"
  BY <1>2, <1>7, Known DEF DaemonType, NextLeft, EpInv, BooksInv, Possible
<1>9. Handler' = Handler /\ Api' = Api BY DEF DmnNotify, Handler, Api
<1>10. (\A f \in Ep : wrap'[f].count = wrap[f].count)
       /\ (\A f \in Ep : f # e => wrap'[f].pending = wrap[f].pending /\ wrap'[f].last = wrap[f].last)
       /\ wrap'[e].pending /\ wrap'[e].last = "done" /\ sem' /\ PendingAgree'
  <2>1. EndpointCallback(e, "done") BY <1>2 DEF DmnNotify
  <2> QED BY <1>1, <2>1, CallbackLists, Known DEF BooksOK
<1>11. HandsEmpty'
  BY <1>1, <1>2, <1>6, <1>8, <1>9, <1>10 DEF EpInv, BooksInv, HandsEmpty
<1>12. CountsAreRight' BY <1>1, <1>6, <1>9, <1>10, CountsStay
<1>13. Announced'
  BY <1>1, <1>2, <1>6, <1>8, <1>9, <1>10, Known DEF EpInv, BooksInv, Announced
<1>14. LivesOn'
  <2>1. \A f \in {Handler'.ep, Handler'.to, Api'.ep, Api'.to, dmn'.ep} \ {NoEp} :
           f \in {Handler.ep, Handler.to, Api.ep, Api.to, dmn.ep} \ {NoEp} /\ f \in Ep
    BY <1>1, <1>2, <1>8, <1>9, Known DEF TaskType, DaemonType
  <2>2. \A f \in {Handler'.ep, Handler'.to, Api'.ep, Api'.to, dmn'.ep} \ {NoEp} : Alive(f)'
    BY <1>6, <2>1 DEF EpInv, BooksInv, LivesOn
  <2>3. \A f \in Eps : wrap'[f].pending => Alive(f)'
    BY <1>1, <1>2, <1>6, <1>10, Known DEF EpInv, BooksInv, LivesOn
  <2> QED BY <1>1, <2>2, <2>3, Zenon DEF LivesOn
<1>15. PendingAgree' BY <1>10
<1>16. FreeingIsQuiet'
  BY <1>1, <1>2, <1>6, <1>8, <1>9, <1>10, Known DEF EpInv, BooksInv, FreeingIsQuiet
<1>17. HaltsHold'
  BY <1>1, <1>2, <1>6, <1>8, <1>9, <1>10, Where DEF EpInv, BooksInv, HaltsHold, Conn
<1>18. ErrorsHalt'
  BY <1>1, <1>2, <1>6, <1>8, <1>9, <1>10, Where DEF EpInv, BooksInv, ErrorsHalt, Alive
<1>19. Possible'
  BY <1>1, <1>2, <1>6, <1>8, <1>9, <1>10, Known DEF EpInv, BooksInv, Possible, Conn
<1> QED BY <1>11, <1>12, <1>13, <1>14, <1>15, <1>16, <1>17, <1>18, <1>19 DEF BooksInv

\* The daemon clears a pipe of which nobody was promised that it is halted.
LEMMA DmnClearKeeps == ASSUME EpInv, NEW e \in Eps, DmnClear(e) PROVE BooksInv'
<1>1. Eps' = Eps /\ Uses' = Uses /\ env' = env
      /\ UNCHANGED <<port, gone, acts, wrap, pendingEps, sem>>
  BY TypesStay DEF DmnClear, fixed
<1>2. dmn.at = "walk" /\ dmn.why = "resume" /\ e \in dmn.left /\ Alive(e)
  BY Known DEF DmnClear, AllocatedAreClaimed, Walking
<1>3. PICK q : /\ q = pipe[e] /\ Good(q) /\ q.state # "none"
  BY <1>2, Known DEF Alive
<1>4. PICK p : /\ Good(p) /\ Held(p) = Held(q) /\ p.waiter = q.waiter /\ p.done = q.done
               /\ p.state = IF q.state = "halted" /\ Conn THEN "active" ELSE q.state
               /\ pipe' = [pipe EXCEPT ![e] = p]
  <2>1. PICK p : p = Cleared(q) OBVIOUS
  <2>2. pipe' = [pipe EXCEPT ![e] = p] BY <1>2, <1>3, <2>1 DEF DmnClear
  <2> QED BY <1>3, <2>1, <2>2, ClearedKeeps
<1>5. OnePipeIs(e, p) BY <1>3, <1>4, OnePipe
<1>6. (\A f \in Ep : Queue(f)' = Queue(f)) /\ (\A f \in Ep : Alive(f)' <=> Alive(f))
      /\ (\A f \in Ep : pipe'[f].waiter = pipe[f].waiter /\ pipe'[f].done = pipe[f].done)
      /\ (\A f \in Ep : f # e => pipe'[f].state = pipe[f].state)
      /\ (~Conn => pipe'[e].state = pipe[e].state)
  BY <1>3, <1>4, <1>5 DEF OnePipeIs
<1>7. dmn' = [dmn EXCEPT !.left = @ \ {e}] BY DEF DmnClear
<1>8. dmn'.at = dmn.at /\ dmn'.ep = dmn.ep /\ dmn'.why = dmn.why
  BY <1>2, <1>7, Known DEF DaemonType
<1>9. Handler' = Handler /\ Api' = Api BY DEF DmnClear, Handler, Api
<1>10. Conn => Handler.at # "flush" /\ \A f \in Eps : wrap[f].last # "error"
  <2>1. "suspend" \in Uses BY <1>2 DEF EpInv, BooksInv, Possible
  <2>2. "errors" \notin Uses /\ ~({"hub", "unplug"} \subseteq Uses)
    BY <2>1 DEF EpInv, EpSafe, Gentle, Uses, Eps
  <2> QED BY <2>2 DEF EpInv, BooksInv, Possible
<1>11. HandsEmpty'
  BY <1>1, <1>2, <1>6, <1>8, <1>9, <1>10 DEF EpInv, BooksInv, HandsEmpty
<1>12. CountsAreRight' BY <1>1, <1>6, <1>9, CountsStay
<1>13. Announced'
  BY <1>1, <1>2, <1>6, <1>8, <1>9, <1>10, Known DEF EpInv, BooksInv, Announced
<1>14. LivesOn'
  <2>1. \A f \in {Handler'.ep, Handler'.to, Api'.ep, Api'.to, dmn'.ep} \ {NoEp} :
           f \in {Handler.ep, Handler.to, Api.ep, Api.to, dmn.ep} \ {NoEp} /\ f \in Ep
    BY <1>1, <1>2, <1>8, <1>9, Known DEF TaskType, DaemonType
  <2>2. \A f \in {Handler'.ep, Handler'.to, Api'.ep, Api'.to, dmn'.ep} \ {NoEp} : Alive(f)'
    BY <1>6, <2>1 DEF EpInv, BooksInv, LivesOn
  <2>3. \A f \in Eps : wrap'[f].pending => Alive(f)'
    BY <1>1, <1>6, Known DEF EpInv, BooksInv, LivesOn
  <2> QED BY <1>1, <2>2, <2>3, Zenon DEF LivesOn
<1>15. PendingAgree'
  BY <1>1, <1>2, <1>6, <1>8, <1>9, <1>10 DEF EpInv, BooksInv, PendingAgree, In
<1>16. FreeingIsQuiet'
  BY <1>1, <1>2, <1>6, <1>8, <1>9, <1>10, Known DEF EpInv, BooksInv, FreeingIsQuiet
<1>17. HaltsHold'
  BY <1>1, <1>2, <1>6, <1>8, <1>9, <1>10, Where DEF EpInv, BooksInv, HaltsHold, Conn
<1>18. ErrorsHalt'
  BY <1>1, <1>2, <1>6, <1>8, <1>9, <1>10, Where DEF EpInv, BooksInv, ErrorsHalt, Alive
<1>19. Possible'
  BY <1>1, <1>2, <1>6, <1>8, <1>9, <1>10, Known DEF EpInv, BooksInv, Possible, Conn
<1> QED BY <1>11, <1>12, <1>13, <1>14, <1>15, <1>16, <1>17, <1>18, <1>19 DEF BooksInv

\* A transfer completes.
LEMMA ChanDoneKeeps == ASSUME EpInv, NEW e \in Eps, ChanDone(e) PROVE BooksInv'
<1>1. Eps' = Eps /\ Uses' = Uses /\ env' = env
      /\ UNCHANGED <<port, gone, acts, dmn>>
  BY TypesStay DEF ChanDone, fixed
<1>2. PICK q : /\ q = pipe[e] /\ Good(q) /\ q.exec /\ q.state = "active" /\ q.state # "none" /\ q.waiter = "none" /\ q.buf # <<>>
  BY Known DEF ChanDone, Running, Good, Sound
<1>3. PICK p : /\ Good(p) /\ Held(p) = Held(q) /\ p.done # <<>> /\ p.state = q.state /\ p.waiter = q.waiter
               /\ pipe' = [pipe EXCEPT ![e] = p]
  <2>1. PICK p : p = Fill(Exec(HeadDone(q)), 1) OBVIOUS
  <2>2. pipe' = [pipe EXCEPT ![e] = p] BY <1>2, <2>1 DEF ChanDone
  <2> QED BY <1>2, <2>1, <2>2, DoneKeeps DEF Good
<1>4. OnePipeIs(e, p) BY <1>2, <1>3, OnePipe
<1>5. (\A f \in Ep : Queue(f)' = Queue(f)) /\ (\A f \in Ep : Alive(f)' <=> Alive(f))
      /\ (\A f \in Ep : pipe'[f].state = pipe[f].state /\ pipe'[f].waiter = pipe[f].waiter)
      /\ \A f \in Ep : f # e => pipe'[f].done = pipe[f].done
  BY <1>2, <1>3, <1>4 DEF OnePipeIs
<1>6. Handler' = Handler /\ Api' = Api BY DEF ChanDone, Handler, Api
<1>7. (\A f \in Ep : wrap'[f].count = wrap[f].count)
      /\ (\A f \in Ep : f # e => wrap'[f].pending = wrap[f].pending /\ wrap'[f].last = wrap[f].last)
      /\ wrap'[e].pending /\ wrap'[e].last = "done" /\ sem' /\ PendingAgree'
  <2>1. EndpointCallback(e, "done") BY DEF ChanDone
  <2> QED BY <1>1, <2>1, CallbackLists, Known DEF BooksOK
<1>8. Api.at # "free" /\ Alive(e)
  <2>1. Queue(e) = Held(q) /\ Queue(e) # <<>>
    BY <1>2, HoldsNothing DEF Queue, Held, Good, Sound, EpPipe
  <2>2. PICK i, j \in Nat : i = Len(Queue(e)) /\ j = Owed(e) BY OwedIs
  <2>3. Alive(e) BY <1>2 DEF Alive
  <2>4. wrap[e].count = i + j /\ i # 0
    BY <2>1, <2>2, <2>3, OwedIs, QueueIsCounted, Known
  <2>5. wrap[e].count # 0 BY <2>2, <2>4
  <2> QED BY <2>3, <2>5 DEF EpInv, BooksInv, FreeingIsQuiet
<1>9. HandsEmpty'
  BY <1>1, <1>5, <1>6, <1>7, <1>8 DEF EpInv, BooksInv, HandsEmpty
<1>10. CountsAreRight' BY <1>1, <1>5, <1>6, <1>7, CountsStay
<1>11. Announced'
  BY <1>1, <1>5, <1>6, <1>7, <1>8, Known DEF EpInv, BooksInv, Announced
<1>12. LivesOn'
  <2>1. \A f \in {Handler'.ep, Handler'.to, Api'.ep, Api'.to, dmn'.ep} \ {NoEp} :
           f \in {Handler.ep, Handler.to, Api.ep, Api.to, dmn.ep} \ {NoEp} /\ f \in Ep
    BY <1>1, <1>6, Known DEF TaskType, DaemonType
  <2>2. \A f \in {Handler'.ep, Handler'.to, Api'.ep, Api'.to, dmn'.ep} \ {NoEp} : Alive(f)'
    BY <1>5, <2>1 DEF EpInv, BooksInv, LivesOn
  <2>3. \A f \in Eps : wrap'[f].pending => Alive(f)'
    BY <1>1, <1>5, <1>7, <1>8, Known DEF EpInv, BooksInv, LivesOn
  <2> QED BY <1>1, <2>2, <2>3, Zenon DEF LivesOn
<1>13. PendingAgree' BY <1>7
<1>14. FreeingIsQuiet'
  BY <1>1, <1>5, <1>6, <1>7, <1>8, Known DEF EpInv, BooksInv, FreeingIsQuiet
<1>15. HaltsHold'
  BY <1>1, <1>5, <1>6, <1>7, <1>8, Where DEF EpInv, BooksInv, HaltsHold, Conn
<1>16. ErrorsHalt'
  BY <1>1, <1>5, <1>6, <1>7, <1>8, Where DEF EpInv, BooksInv, ErrorsHalt, Alive
<1>17. Possible'
  BY <1>1, <1>5, <1>6, <1>7, <1>8, Known DEF EpInv, BooksInv, Possible, Conn
<1> QED BY <1>9, <1>10, <1>11, <1>12, <1>13, <1>14, <1>15, <1>16, <1>17 DEF BooksInv

\* A transfer fails.
LEMMA ChanErrorKeeps == ASSUME EpInv, NEW e \in Eps, ChanError(e) PROVE BooksInv'
<1>1. Eps' = Eps /\ Uses' = Uses /\ env' = env
      /\ UNCHANGED <<port, gone, acts, dmn>>
  BY TypesStay DEF ChanError, fixed
<1>2. PICK q : /\ q = pipe[e] /\ Good(q) /\ q.exec /\ q.state = "active" /\ q.state # "none" /\ q.waiter = "none" /\ q.buf # <<>>
  BY Known DEF ChanError, Running, Good, Sound
<1>3. PICK p : /\ Good(p) /\ Held(p) = Held(q) /\ p.done # <<>> /\ p.state = "halted" /\ p.waiter = q.waiter
               /\ pipe' = [pipe EXCEPT ![e] = p]
  <2>1. PICK p : p = [HeadDone(q) EXCEPT !.state = "halted"] OBVIOUS
  <2>2. pipe' = [pipe EXCEPT ![e] = p] BY <1>2, <2>1 DEF ChanError
  <2> QED BY <1>2, <2>1, <2>2, FailingKeeps DEF Good
<1>4. OnePipeIs(e, p) BY <1>2, <1>3, OnePipe
<1>5. (\A f \in Ep : Queue(f)' = Queue(f)) /\ (\A f \in Ep : Alive(f)' <=> Alive(f))
      /\ (\A f \in Ep : pipe'[f].waiter = pipe[f].waiter)
      /\ (\A f \in Ep : f # e => pipe'[f].state = pipe[f].state /\ pipe'[f].done = pipe[f].done)
      /\ pipe'[e].state = "halted"
  BY <1>2, <1>3, <1>4 DEF OnePipeIs
<1>6. Handler' = Handler /\ Api' = Api BY DEF ChanError, Handler, Api
<1>7. (\A f \in Ep : wrap'[f].count = wrap[f].count)
      /\ (\A f \in Ep : f # e => wrap'[f].pending = wrap[f].pending /\ wrap'[f].last = wrap[f].last)
      /\ wrap'[e].pending /\ wrap'[e].last = "error" /\ sem' /\ PendingAgree'
  <2>1. EndpointCallback(e, "error") BY DEF ChanError
  <2> QED BY <1>1, <2>1, CallbackLists, Known DEF BooksOK
<1>8. Api.at # "free" /\ Alive(e)
  <2>1. Queue(e) = Held(q) /\ Queue(e) # <<>>
    BY <1>2, HoldsNothing DEF Queue, Held, Good, Sound, EpPipe
  <2>2. PICK i, j \in Nat : i = Len(Queue(e)) /\ j = Owed(e) BY OwedIs
  <2>3. Alive(e) BY <1>2 DEF Alive
  <2>4. wrap[e].count = i + j /\ i # 0
    BY <2>1, <2>2, <2>3, OwedIs, QueueIsCounted, Known
  <2>5. wrap[e].count # 0 BY <2>2, <2>4
  <2> QED BY <2>3, <2>5 DEF EpInv, BooksInv, FreeingIsQuiet
<1>9. gone \/ "errors" \in Uses BY DEF ChanError
<1>10. HandsEmpty'
  BY <1>1, <1>5, <1>6, <1>7, <1>8, <1>9 DEF EpInv, BooksInv, HandsEmpty
<1>11. CountsAreRight' BY <1>1, <1>5, <1>6, <1>7, CountsStay
<1>12. Announced'
  BY <1>1, <1>5, <1>6, <1>7, <1>8, <1>9, Known DEF EpInv, BooksInv, Announced
<1>13. LivesOn'
  <2>1. \A f \in {Handler'.ep, Handler'.to, Api'.ep, Api'.to, dmn'.ep} \ {NoEp} :
           f \in {Handler.ep, Handler.to, Api.ep, Api.to, dmn.ep} \ {NoEp} /\ f \in Ep
    BY <1>1, <1>6, Known DEF TaskType, DaemonType
  <2>2. \A f \in {Handler'.ep, Handler'.to, Api'.ep, Api'.to, dmn'.ep} \ {NoEp} : Alive(f)'
    BY <1>5, <2>1 DEF EpInv, BooksInv, LivesOn
  <2>3. \A f \in Eps : wrap'[f].pending => Alive(f)'
    BY <1>1, <1>5, <1>7, <1>8, Known DEF EpInv, BooksInv, LivesOn
  <2> QED BY <1>1, <2>2, <2>3, Zenon DEF LivesOn
<1>14. PendingAgree' BY <1>7
<1>15. FreeingIsQuiet'
  BY <1>1, <1>5, <1>6, <1>7, <1>8, <1>9, Known DEF EpInv, BooksInv, FreeingIsQuiet
<1>16. HaltsHold'
  BY <1>1, <1>5, <1>6, <1>7, <1>8, <1>9, Where DEF EpInv, BooksInv, HaltsHold, Conn
<1>17. ErrorsHalt'
  BY <1>1, <1>5, <1>6, <1>7, <1>8, <1>9, Where DEF EpInv, BooksInv, ErrorsHalt, Alive
<1>18. Possible'
  BY <1>1, <1>5, <1>6, <1>7, <1>8, <1>9, Known DEF EpInv, BooksInv, Possible, Conn
<1> QED BY <1>10, <1>11, <1>12, <1>13, <1>14, <1>15, <1>16, <1>17, <1>18 DEF BooksInv

\* A channel halts for the task that waits.
LEMMA ChanHaltedKeeps == ASSUME EpInv, NEW e \in Eps, ChanHalted(e) PROVE BooksInv'
<1>1. Eps' = Eps /\ Uses' = Uses /\ env' = env
      /\ UNCHANGED <<port, gone, acts, dmn>>
  BY TypesStay DEF ChanHalted, fixed
<1>2. PICK q : /\ q = pipe[e] /\ Good(q) /\ q.state # "none" /\ q.waiter # "none" /\ q.buf # <<>>
  BY Known DEF ChanHalted, Good, Sound
<1>3. PICK p : /\ Good(p) /\ Held(p) = Held(q) /\ p.done # <<>> /\ p.state = "halted" /\ p.waiter = "none"
               /\ pipe' = [pipe EXCEPT ![e] = p]
  <2>1. PICK p : p = [HeadDone(q) EXCEPT !.state = "halted", !.waiter = "none"]
    OBVIOUS
  <2>2. pipe' = [pipe EXCEPT ![e] = p] BY <1>2, <2>1 DEF ChanHalted
  <2> QED BY <1>2, <2>1, <2>2, FailingKeeps DEF Good
<1>4. OnePipeIs(e, p) BY <1>2, <1>3, OnePipe
<1>5. (\A f \in Ep : Queue(f)' = Queue(f)) /\ (\A f \in Ep : Alive(f)' <=> Alive(f))
      /\ (\A f \in Ep : f # e => /\ pipe'[f].state = pipe[f].state /\ pipe'[f].done = pipe[f].done
                                   /\ pipe'[f].waiter = pipe[f].waiter)
      /\ pipe'[e].state = "halted" /\ pipe'[e].waiter = "none"
  BY <1>2, <1>3, <1>4 DEF OnePipeIs
<1>6. Handler' = Handler /\ Api' = Api BY DEF ChanHalted, Handler, Api
<1>7. (\A f \in Ep : wrap'[f].count = wrap[f].count)
      /\ (\A f \in Ep : f # e => wrap'[f].pending = wrap[f].pending /\ wrap'[f].last = wrap[f].last)
      /\ wrap'[e].pending /\ wrap'[e].last = "done" /\ sem' /\ PendingAgree'
  <2>1. EndpointCallback(e, "done") BY DEF ChanHalted
  <2> QED BY <1>1, <2>1, CallbackLists, Known DEF BooksOK
<1>8. Api.at # "free" /\ Alive(e)
  <2>1. Queue(e) = Held(q) /\ Queue(e) # <<>>
    BY <1>2, HoldsNothing DEF Queue, Held, Good, Sound, EpPipe
  <2>2. PICK i, j \in Nat : i = Len(Queue(e)) /\ j = Owed(e) BY OwedIs
  <2>3. Alive(e) BY <1>2 DEF Alive
  <2>4. wrap[e].count = i + j /\ i # 0
    BY <2>1, <2>2, <2>3, OwedIs, QueueIsCounted, Known
  <2>5. wrap[e].count # 0 BY <2>2, <2>4
  <2> QED BY <2>3, <2>5 DEF EpInv, BooksInv, FreeingIsQuiet
<1>9. HandsEmpty'
  BY <1>1, <1>5, <1>6, <1>7, <1>8 DEF EpInv, BooksInv, HandsEmpty
<1>10. CountsAreRight' BY <1>1, <1>5, <1>6, <1>7, CountsStay
<1>11. Announced'
  BY <1>1, <1>5, <1>6, <1>7, <1>8, Known DEF EpInv, BooksInv, Announced
<1>12. LivesOn'
  <2>1. \A f \in {Handler'.ep, Handler'.to, Api'.ep, Api'.to, dmn'.ep} \ {NoEp} :
           f \in {Handler.ep, Handler.to, Api.ep, Api.to, dmn.ep} \ {NoEp} /\ f \in Ep
    BY <1>1, <1>6, Known DEF TaskType, DaemonType
  <2>2. \A f \in {Handler'.ep, Handler'.to, Api'.ep, Api'.to, dmn'.ep} \ {NoEp} : Alive(f)'
    BY <1>5, <2>1 DEF EpInv, BooksInv, LivesOn
  <2>3. \A f \in Eps : wrap'[f].pending => Alive(f)'
    BY <1>1, <1>5, <1>7, <1>8, Known DEF EpInv, BooksInv, LivesOn
  <2> QED BY <1>1, <2>2, <2>3, Zenon DEF LivesOn
<1>13. PendingAgree' BY <1>7
<1>14. FreeingIsQuiet'
  BY <1>1, <1>5, <1>6, <1>7, <1>8, Known DEF EpInv, BooksInv, FreeingIsQuiet
<1>15. HaltsHold'
  BY <1>1, <1>5, <1>6, <1>7, <1>8, Where DEF EpInv, BooksInv, HaltsHold, Conn
<1>16. ErrorsHalt'
  BY <1>1, <1>5, <1>6, <1>7, <1>8, Where DEF EpInv, BooksInv, ErrorsHalt, Alive
<1>17. Possible'
  BY <1>1, <1>5, <1>6, <1>7, <1>8, Known DEF EpInv, BooksInv, Possible, Conn
<1> QED BY <1>9, <1>10, <1>11, <1>12, <1>13, <1>14, <1>15, <1>16, <1>17 DEF BooksInv

-----------------------------------------------------------------------------

\* What the invariant says, in the terms of EpConsistent
LEMMA TypesAreOK == ASSUME EpInv PROVE EpTypeOK
<1>1. /\ port \in {"enabled", "suspended", "lost"} /\ gone \in BOOLEAN
      /\ acts \subseteq {"gone", "suspend", "resume", "resume_port"}
      /\ claimed \in BOOLEAN /\ pendingEps \in Seq(Eps) /\ sem \in BOOLEAN
      /\ inflight \in SUBSET Urb
  BY DEF EpInv, EpSafe, EpShape, BooksOK
<1>2. /\ pipe \in [Ep -> [state : {"none", "active", "halted"}, pend : Seq(Urb),
                          buf : Seq(Urb), done : Seq(Urb), exec : BOOLEAN, cmd : BOOLEAN,
                          waiter : {"none", "api", "daemon"}, hasUrb : BOOLEAN]]
      /\ \A e \in Ep : Len(pipe[e].buf) <= NumBuffers
  BY Known DEF EpPipe, Good, Sound
<1>3. wrap \in [Ep -> [pending : BOOLEAN, count : Nat, last : {"done", "error"}]]
  <2>1. wrap \in [Ep -> [pending : BOOLEAN, count : Int, last : {"done", "error"}]]
    BY DEF EpInv, EpSafe, EpShape, BooksOK
  <2>2. \A e \in Ep : wrap[e].count \in Nat
    BY DEF EpInv, BooksInv, CountsAreRight
  <2> QED BY <2>1, <2>2
<1>4. task \in [{"handler", "api"} ->
                  [at : {"idle", "loop", "flush", "notify", "dequeue", "callback",
                         "count", "wait", "free", "abort"} \cup Submitting,
                   ep : Ep \cup {NoEp}, urb : Urb \cup {NoUrb}, to : Ep \cup {NoEp},
                   n : Nat, left : SUBSET Ep]]
  BY Known DEF TaskType, Worker
<1>5. dmn \in [at : {"idle", "walk", "wait", "flush", "notify", "suspend", "abort"},
               why : {"gone", "suspend", "resume"}, ep : Ep \cup {NoEp}, left : SUBSET Ep]
  BY Known DEF DaemonType
<1> QED BY <1>1, <1>2, <1>3, <1>4, <1>5 DEF EpTypeOK

\* The counts, as the property states them
LEMMA CountsAreExact == ASSUME EpInv PROVE CountIsExact
<1>1. SUFFICES ASSUME NEW e \in Eps, Alive(e)
               PROVE  /\ wrap[e].count = Len(Queue(e)) + Owed(e)
                      /\ (pipe[e].hasUrb <=> Queue(e) # <<>>)
  BY Zenon DEF CountIsExact
<1>2. wrap[e].count = Len(Queue(e)) + Owed(e)
  BY <1>1 DEF EpInv, BooksInv, CountsAreRight
<1>3. pipe[e].hasUrb <=> Queue(e) # <<>>
  BY <1>1, Known DEF Good, Sound, Held, Queue
<1> QED BY <1>2, <1>3

\* The invariant implies the property.
LEMMA ConsistentFollows == ASSUME EpInv PROVE EpConsistent
<1>1. DoneIsAnnounced
  BY DEF EpInv, BooksInv, Announced, PendingAgree, DoneIsAnnounced
<1>2. NeverIdle
  <2>1. ASSUME NEW e \in Eps, pipe[e].state = "active"
        PROVE  /\ pipe[e].buf \o pipe[e].pend # <<>> => pipe[e].exec
               /\ pipe[e].pend # <<>> => Len(pipe[e].buf) = NumBuffers
    <3>1. PICK p : p = pipe[e] /\ Good(p) /\ p.state = "active"
      BY <2>1, Known
    <3>2. (p.pend # <<>> => Len(p.buf) = NumBuffers) /\ (p.buf # <<>> => p.exec)
      BY <3>1 DEF Good, Full
    <3>3. p.buf \in Seq(Urb) /\ p.pend \in Seq(Urb)
      BY <3>1 DEF Good, Sound, EpPipe
    <3>4. p.pend # <<>> => p.buf # <<>>
      BY <3>2, <3>3, NumBuffersIsPos, EmptySeq
    <3>5. p.buf = <<>> /\ p.pend = <<>> => p.buf \o p.pend = <<>>
      BY ConcatEmptySeq, EmptySeq
    <3> QED BY <3>1, <3>2, <3>4, <3>5
  <2> QED BY <2>1 DEF NeverIdle
<1>3. NoAbort
  BY Known DEF EpInv, BooksInv, HandsEmpty, NoAbort, Worker, Handler, Api
<1>4. NoUseAfterFree
  <2>1. \A i \in DOMAIN pendingEps : Alive(pendingEps[i])
    <3>1. PICK s \in Seq(Eps) : s = pendingEps BY Known DEF BooksOK
    <3>2. \A i \in DOMAIN s : s[i] \in Eps /\ In(s[i], s) BY <3>1 DEF In
    <3> QED BY <3>1, <3>2 DEF EpInv, BooksInv, PendingAgree, LivesOn
  <2>2. \A t \in DOMAIN task : \A e \in {task[t].ep, task[t].to} \ {NoEp} : Alive(e)
    BY Known DEF EpInv, BooksInv, LivesOn, Worker, Handler, Api
  <2>3. dmn.ep # NoEp => Alive(dmn.ep) BY DEF EpInv, BooksInv, LivesOn
  <2> QED BY <2>1, <2>2, <2>3, Zenon DEF NoUseAfterFree
<1> QED BY <1>1, <1>2, <1>3, <1>4, TypesAreOK, CountsAreExact DEF EpConsistent

\* Without endpoints there is nothing to count.
LEMMA EpInvInit == ASSUME Gentle, Init PROVE EpInv
<1>1. EpSafe /\ env \in Environments BY EpSafeInit DEF Init
<1>2. /\ acts = {} /\ pendingEps = <<>> /\ port # "suspended" /\ (gone => ~Conn)
      /\ Handler = [at |-> "idle", ep |-> NoEp, urb |-> NoUrb, to |-> NoEp, n |-> 0, left |-> {}]
      /\ Api = Handler
      /\ dmn = [at |-> "idle", why |-> "gone", ep |-> NoEp, left |-> {}]
  BY DEF Init, EpInit, Handler, Api, Conn
<1>3. \A e \in Ep : /\ ~Alive(e) /\ pipe[e].done = <<>> /\ pipe[e].waiter = "none"
                    /\ wrap[e].count = 0 /\ ~wrap[e].pending /\ wrap[e].last = "done"
  BY DEF Init, EpInit, NoPipe, NoWrap, Alive
<1>4. Eps \subseteq Ep BY <1>1, EnvironmentIsTyped DEF EpSafe, EpShape
<1>5. HandsEmpty BY <1>2 DEF HandsEmpty
<1>6. CountsAreRight BY <1>3, <1>4 DEF CountsAreRight
<1>7. Announced BY <1>2, <1>3, <1>4 DEF Announced
<1>8. LivesOn BY <1>2, <1>3, <1>4 DEF LivesOn
<1>9. PendingAgree BY <1>2, <1>3, <1>4 DEF PendingAgree, In
<1>10. FreeingIsQuiet BY <1>2 DEF FreeingIsQuiet
<1>11. HaltsHold BY <1>2, <1>3 DEF HaltsHold
<1>12. ErrorsHalt BY <1>2, <1>3, <1>4 DEF ErrorsHalt
<1>13. Possible BY <1>2, <1>3, <1>4 DEF Possible
<1> QED BY <1>1, <1>5, <1>6, <1>7, <1>8, <1>9, <1>10, <1>11, <1>12, <1>13 DEF EpInv, BooksInv

\* A step of the pipe with the buffers, or none, leaves the endpoints alone.
LEMMA EpUnchangedKeeps == ASSUME EpInv, UNCHANGED <<epVars, env>> PROVE BooksInv'
<1>1. /\ Eps' = Eps /\ Uses' = Uses
      /\ UNCHANGED <<port, gone, acts, claimed, pipe, wrap, pendingEps, sem, inflight, task, dmn>>
  BY TypesStay DEF epVars
<1>2. BooksInv BY DEF EpInv
<1>3. Handler' = Handler /\ Api' = Api BY <1>1 DEF Handler, Api
<1>4. HandsEmpty' /\ HaltsHold' /\ FreeingIsQuiet'
  BY <1>1, <1>2, <1>3 DEF BooksInv, HandsEmpty, HaltsHold, FreeingIsQuiet, Conn
<1>5. CountsAreRight'
  BY <1>1, <1>2, <1>3 DEF BooksInv, CountsAreRight, Alive, Queue, Held, Owed, One
<1>6. Announced' /\ PendingAgree'
  BY <1>1, <1>2, <1>3 DEF BooksInv, Announced, PendingAgree, In
<1>7. LivesOn' /\ ErrorsHalt'
  BY <1>1, <1>2, <1>3 DEF BooksInv, LivesOn, ErrorsHalt, Alive
<1>8. Possible' BY <1>1, <1>2, <1>3 DEF BooksInv, Possible, Conn
<1> QED BY <1>4, <1>5, <1>6, <1>7, <1>8 DEF BooksInv

\* Every step of the client's task that handles events
LEMMA HandlerKeeps == ASSUME EpInv, HandlerStep PROVE BooksInv'
BY HandleEventsKeeps, NextEpKeeps, HandledEventsKeeps, HandlerFlushKeeps, HandlerNotifyKeeps,
   HandlerIsDone, HandlerTakes, CallbackReturnsKeeps, HandlerCountKeeps, SubmitGoesOnKeeps
   DEF HandlerStep, Worker

\* Every step of an API call that has begun
LEMMA ApiKeeps == ASSUME EpInv, ApiGoesOn PROVE BooksInv'
BY SubmitGoesOnKeeps, ApiHaltedKeeps, ApiNotifyKeeps, ReleasedKeeps, FreeEpKeeps
   DEF ApiGoesOn, Worker

\* Every step of the daemon
LEMMA DaemonKeeps == ASSUME EpInv, DaemonStep PROVE BooksInv'
BY WalkKeeps, DmnHaltsKeeps, DmnWaitsKeeps, DmnClearKeeps, DmnHaltedKeeps, DmnFlushKeeps,
   DmnNotifyKeeps, WalkEndsKeeps, SuspendPortKeeps DEF DaemonStep

\* Every step of the application
LEMMA ApplicationKeeps == ASSUME EpInv, Application PROVE BooksInv'
BY ClaimKeeps, ReleaseKeeps, AskSuspendKeeps, ApiHaltsKeeps, ApiWaitsKeeps, ApiFlushKeeps,
   ApiClearKeeps, HandlerSubmitsKeeps, ApiSubmitsKeeps DEF Application

\* Every step of the system
LEMMA EpInvNext == ASSUME EpInv, [Next]_vars PROVE EpInv'
<1>1. Gentle /\ EpSafe' BY EpSafeNext DEF EpInv
<1>2. CASE HandlerStep \/ ApiGoesOn \/ DaemonStep \/ Application
  BY <1>1, <1>2, HandlerKeeps, ApiKeeps, DaemonKeeps, ApplicationKeeps DEF EpInv
<1>3. CASE Unplug \/ ResumePort
  BY <1>1, <1>3, UnplugKeeps, ResumePortKeeps DEF EpInv
<1>4. CASE \E e \in Eps : Channel(e)
  BY <1>1, <1>4, ChanDoneKeeps, ChanErrorKeeps, ChanHaltedKeeps DEF Channel, EpInv
<1>5. CASE Ended \/ DmaNext \/ UNCHANGED vars
  <2>1. UNCHANGED <<epVars, env>>
    BY <1>5, DmaNextKeeps DEF Ended, fixed, vars
  <2> QED BY <1>1, <2>1, EpUnchangedKeeps DEF EpInv
<1> QED BY <1>2, <1>3, <1>4, <1>5 DEF Next, EpNext

\* The endpoints' counts, lists and pipes agree, no halt, flush or free fails that must
\* not, and nobody works on an endpoint that was freed (usb_host_transfer_submit(),
\* usb_host_client_handle_events(), usb_host_interface_release(), _pipe_cmd_flush()).
THEOREM EndpointsAreConsistent == Gentle => (Spec => []EpConsistent)
<1> SUFFICES ASSUME Gentle PROVE Spec => []EpConsistent
  OBVIOUS
<1>1. Init => EpInv BY EpInvInit
<1>2. EpInv /\ [Next]_vars => EpInv' BY EpInvNext
<1>3. EpInv => EpConsistent BY ConsistentFollows
<1> QED BY <1>1, <1>2, <1>3, PTL DEF Spec

-----------------------------------------------------------------------------
(* What a pipe with two buffers holds *)

\* Records with the fields they have
IsBlock(b) ==
    b = [urb |-> b.urb, list |-> b.list, num |-> b.num, skip |-> b.skip, stage |-> b.stage,
         start |-> b.start, next |-> b.next, last |-> b.last, ev |-> b.ev, stop |-> b.stop]
IsXfer(x) ==
    x = [st |-> x.st, t |-> x.t, moved |-> x.moved, status |-> x.status, actual |-> x.actual,
         pkts |-> x.pkts]
IsChan(c) == c = [st |-> c.st, idx |-> c.idx, why |-> c.why]
IsDma(d) ==
    d = [pend |-> d.pend, done |-> d.done, fill |-> d.fill, exec |-> d.exec, parse |-> d.parse,
         wr |-> d.wr, rd |-> d.rd, fr |-> d.fr, running |-> d.running, hasUrb |-> d.hasUrb,
         blk |-> d.blk, xfer |-> d.xfer, chan |-> d.chan, frame |-> d.frame, flaw |-> d.flaw]

Shape(d) ==
    /\ IsDma(d) /\ IsChan(d.chan) /\ d.pend \in Seq(Xfer) /\ d.done \in Seq(Xfer)
    /\ d.wr \in Slot /\ d.rd \in Slot /\ d.fr \in Slot
    /\ d.blk = [i \in Slot |-> d.blk[i]] /\ \A i \in Slot : IsBlock(d.blk[i])
    /\ d.xfer = [u \in Xfer |-> d.xfer[u]] /\ \A u \in Xfer : IsXfer(d.xfer[u])

\* Two buffers that are used in turn
Turns(d) ==
    /\ d.fill \in Nat /\ d.exec \in Nat /\ d.parse \in Nat /\ d.fill + d.exec + d.parse = 2
    /\ d.wr = (d.fr + d.fill) % 2 /\ d.rd = (d.fr + d.parse) % 2
    /\ \A i \in Slot : d.blk[i].urb \in IF d.fill = 0 \/ (d.fill = 1 /\ i = d.fr)
                                        THEN Xfer ELSE {NoXfer}

Tidy(d) == Shape(d) /\ Turns(d)

\* What is in the buffers, and all that a pipe holds
Mid(d) == IF d.fill = 2 THEN <<>>
          ELSE IF d.fill = 1 THEN <<d.blk[d.fr].urb>>
          ELSE <<d.blk[d.fr].urb, d.blk[1 - d.fr].urb>>
Line(d) == d.done \o Mid(d) \o d.pend

NoneIdle(d, f) == \A u \in Xfer : f.xfer[u].st = "idle" => d.xfer[u].st = "idle"

\* A step that neither moves nor returns a transfer
SameLine(d, f) == Tidy(f) /\ Line(f) = Line(d) /\ NoneIdle(d, f)

\* The buffers that are not free hold transfers.
LEMMA MidIsTyped ==
    ASSUME NEW d, Tidy(d)
    PROVE  Mid(d) \in Seq(Xfer) /\ Len(Mid(d)) = 2 - d.fill /\ d.fill \in 0..2
<1>1. d.fill \in 0..2 /\ d.fr \in 0..1 /\ 1 - d.fr \in 0..1
  <2>1. d.fill \in Nat /\ d.exec \in Nat /\ d.parse \in Nat /\ d.fill + d.exec + d.parse = 2
    BY DEF Tidy, Turns
  <2>2. d.fr \in {0, 1} BY DEF Tidy, Shape, Slot
  <2> QED BY <2>1, <2>2
<1>2. CASE d.fill = 2 BY <1>2 DEF Mid
<1>3. CASE d.fill = 1
  <2>1. d.blk[d.fr].urb \in Xfer BY <1>1, <1>3 DEF Tidy, Turns, Slot
  <2>2. Mid(d) = <<d.blk[d.fr].urb>> BY <1>3 DEF Mid
  <2> QED BY <1>1, <1>3, <2>1, <2>2
<1>4. CASE d.fill = 0
  <2>1. d.blk[d.fr].urb \in Xfer /\ d.blk[1 - d.fr].urb \in Xfer
    BY <1>1, <1>4 DEF Tidy, Turns, Slot
  <2>2. Mid(d) = <<d.blk[d.fr].urb, d.blk[1 - d.fr].urb>> BY <1>4 DEF Mid
  <2> QED BY <1>1, <1>4, <2>1, <2>2
<1> QED BY <1>1, <1>2, <1>3, <1>4

\* A step that changes neither what is queued nor which buffers are in use
LEMMA ViewKeeps ==
    ASSUME NEW d, NEW f, Tidy(d), IsDma(f), IsChan(f.chan), f.pend = d.pend, f.done = d.done,
           f.wr = d.wr, f.rd = d.rd, f.fr = d.fr,
           f.fill = d.fill, f.exec = d.exec, f.parse = d.parse,
           f.blk = [i \in Slot |-> f.blk[i]],
           \A i \in Slot : IsBlock(f.blk[i]) /\ f.blk[i].urb = d.blk[i].urb,
           f.xfer = [u \in Xfer |-> f.xfer[u]],
           \A u \in Xfer : IsXfer(f.xfer[u]) /\ f.xfer[u].st = d.xfer[u].st
    PROVE  SameLine(d, f)
<1>1. Shape(f) BY DEF Tidy, Shape
<1>2. Turns(f) BY DEF Tidy, Turns
<1>3. Mid(f) = Mid(d)
  <2>1. d.fr \in Slot /\ 1 - d.fr \in Slot BY DEF Tidy, Shape, Slot
  <2> QED BY <2>1 DEF Mid
<1>4. NoneIdle(d, f) BY DEF NoneIdle
<1> QED BY <1>1, <1>2, <1>3, <1>4 DEF SameLine, Line, Tidy

\* A failed assertion is remembered, nothing else.
LEMMA WrongKeeps ==
    ASSUME NEW d, Tidy(d), NEW what, what # "none"
    PROVE  LET f == Wrong(d, what)
           IN  /\ SameLine(d, f) /\ f.flaw # "none" /\ f.exec = d.exec /\ f.parse = d.parse
               /\ f.running = d.running /\ f.chan = d.chan /\ f.hasUrb = d.hasUrb
               /\ f.pend = d.pend /\ f.done = d.done /\ f.blk = d.blk /\ f.fr = d.fr
<1>1. CASE d.flaw # "none"
  <2>1. Wrong(d, what) = d BY <1>1 DEF Wrong
  <2>2. SameLine(d, d) BY DEF SameLine, NoneIdle
  <2> QED BY <1>1, <2>1, <2>2
<1>2. CASE d.flaw = "none"
  <2>1. PICK f : f = [d EXCEPT !.flaw = what] /\ f = Wrong(d, what)
    BY <1>2 DEF Wrong
  <2>2. IsDma(d) BY DEF Tidy, Shape
  <2>3. /\ IsDma(f) /\ f.flaw = what /\ f.chan = d.chan /\ f.pend = d.pend /\ f.done = d.done
        /\ f.wr = d.wr /\ f.rd = d.rd /\ f.fr = d.fr /\ f.running = d.running
        /\ f.fill = d.fill /\ f.exec = d.exec /\ f.parse = d.parse
        /\ f.blk = d.blk /\ f.xfer = d.xfer /\ f.hasUrb = d.hasUrb
    BY <2>1, <2>2 DEF IsDma
  <2>4. SameLine(d, f) BY <2>3, ViewKeeps DEF Tidy, Shape
  <2> QED BY <2>1, <2>3, <2>4
<1> QED BY <1>1, <1>2

\* _buffer_exec() moves no transfer.
LEMMA DmaExecKeeps ==
    ASSUME NEW d, Tidy(d)
    PROVE  LET f == DmaExec(d)
           IN  /\ SameLine(d, f) /\ f.exec = d.exec /\ f.parse = d.parse /\ f.flaw = d.flaw
               /\ f.pend = d.pend /\ f.done = d.done /\ f.hasUrb = d.hasUrb /\ f.blk = d.blk
               /\ f.fr = d.fr /\ f.fill = d.fill
               /\ (d.running => d.exec > 0) => (f.running => f.exec > 0)
               /\ (d.chan.st # "off" => d.running) => (f.chan.st # "off" => f.running)
<1>1. CASE ~CanExec(d)
  <2>1. DmaExec(d) = d BY <1>1 DEF DmaExec
  <2>2. SameLine(d, d) BY DEF SameLine, NoneIdle
  <2> QED BY <1>1, <2>1, <2>2
<1>2. CASE CanExec(d)
  <2>1. PICK c : c = [NoChan EXCEPT !.st = "busy", !.idx = d.blk[d.rd].start]
    OBVIOUS
  <2>2. PICK f : f = [d EXCEPT !.running = TRUE, !.chan = c] /\ f = DmaExec(d)
    BY <1>2, <2>1 DEF DmaExec
  <2>3. IsDma(d) /\ IsChan(c) BY <2>1 DEF Tidy, Shape, NoChan, IsChan
  <2>4. /\ IsDma(f) /\ f.flaw = d.flaw /\ f.chan = c /\ f.pend = d.pend /\ f.done = d.done
        /\ f.wr = d.wr /\ f.rd = d.rd /\ f.fr = d.fr /\ f.running = TRUE
        /\ f.fill = d.fill /\ f.exec = d.exec /\ f.parse = d.parse
        /\ f.blk = d.blk /\ f.xfer = d.xfer /\ f.hasUrb = d.hasUrb
    BY <2>2, <2>3 DEF IsDma
  <2>5. SameLine(d, f) BY <2>3, <2>4, ViewKeeps DEF Tidy, Shape
  <2>6. f.exec > 0 BY <1>2, <2>4 DEF CanExec
  <2> QED BY <2>2, <2>4, <2>5, <2>6
<1> QED BY <1>1, <1>2

-----------------------------------------------------------------------------
(* Filling, marking and parsing a buffer *)

Kinds == {"ctrl", "bulk", "intr", "isoc"}

\* _buffer_fill() of each type yields a block.
LEMMA FilledIs ==
    ASSUME NEW d, NEW t, ch.ep.type \in Kinds
    PROVE  IsBlock(Filled(d, t))
<1> DEFINE b == Filled(d, t)
<1>1. CASE ch.ep.type = "ctrl"
  <2>1. PICK l, k, z :
           FillCtrl(t) = [NoBlock EXCEPT !.skip = k, !.list = l, !.last = z]
    BY Zenon DEF FillCtrl
  <2>2. b = [NoBlock EXCEPT !.skip = k, !.list = l, !.last = z]
    BY <1>1, <2>1 DEF Filled
  <2> HIDE DEF b
  <2>3. IsBlock(b) BY <2>2 DEF IsBlock, NoBlock
  <2> QED BY <2>3 DEF b
<1>2. CASE ch.ep.type = "bulk"
  <2>1. PICK l, z :
           FillBulk(t) = [NoBlock EXCEPT !.list = l, !.last = z]
    BY Zenon DEF FillBulk
  <2>2. b = [NoBlock EXCEPT !.list = l, !.last = z] BY <1>2, <2>1 DEF Filled
  <2> HIDE DEF b
  <2>3. IsBlock(b) BY <2>2 DEF IsBlock, NoBlock
  <2> QED BY <2>3 DEF b
<1>3. CASE ch.ep.type = "intr"
  <2>1. PICK l, n, z :
           FillIntr(t) = [NoBlock EXCEPT !.list = l, !.num = n, !.last = z]
    BY Zenon DEF FillIntr
  <2>2. b = [NoBlock EXCEPT !.list = l, !.num = n, !.last = z]
    BY <1>3, <2>1 DEF Filled
  <2> HIDE DEF b
  <2>3. IsBlock(b) BY <2>2 DEF IsBlock, NoBlock
  <2> QED BY <2>3 DEF b
<1>4. CASE ch.ep.type = "isoc"
  <2>1. PICK l, n, s, x, z :
           FillIsoc(t, StartIdx(d)) = [NoBlock EXCEPT !.list = l, !.num = n, !.start = s, !.next = x, !.last = z]
    BY Zenon DEF FillIsoc
  <2>2. b = [NoBlock EXCEPT !.list = l, !.num = n, !.start = s, !.next = x, !.last = z]
    BY <1>4, <2>1 DEF Filled
  <2> HIDE DEF b
  <2>3. IsBlock(b) BY <2>2 DEF IsBlock, NoBlock
  <2> QED BY <2>3 DEF b
<1> QED BY <1>1, <1>2, <1>3, <1>4 DEF Kinds

\* A buffer that was executed is marked, to be parsed.
Marked(d, f, e) ==
    /\ SameLine(d, f) /\ f.exec = d.exec - 1 /\ f.parse = d.parse + 1 /\ f.running = FALSE
    /\ f.fill = d.fill /\ f.done = d.done
    /\ f.chan = d.chan /\ f.flaw = d.flaw /\ f.pend = d.pend /\ f.fr = d.fr
    /\ f.blk[d.rd].ev = e /\ \A i \in Slot \ {d.rd} : f.blk[i] = d.blk[i]

\* _buffer_done() moves no transfer.
LEMMA DoneWithKeeps ==
    ASSUME NEW d, Tidy(d), d.exec > 0, NEW e
    PROVE  Marked(d, DoneWith(d, e), e) /\ d.rd \in Slot
<1>1. /\ IsDma(d) /\ d.rd \in {0, 1} /\ d.rd \in Slot /\ d.fr \in {0, 1}
      /\ d.blk = [i \in Slot |-> d.blk[i]] /\ \A i \in Slot : IsBlock(d.blk[i])
  BY DEF Tidy, Shape, Slot
<1>2. /\ d.exec \in Nat /\ d.parse \in Nat /\ d.fill \in Nat /\ d.fill + d.exec + d.parse = 2
      /\ d.rd = (d.fr + d.parse) % 2
  BY DEF Tidy, Turns
<1>3. PICK b : b = [d.blk[d.rd] EXCEPT !.ev = e, !.stop = d.chan.idx]
  OBVIOUS
<1>4. IsBlock(b) /\ b.urb = d.blk[d.rd].urb /\ b.ev = e
  <2>1. PICK a : a = d.blk[d.rd] /\ IsBlock(a) BY <1>1
  <2>2. b = [a EXCEPT !.ev = e, !.stop = d.chan.idx] BY <1>3, <2>1
  <2>3. IsBlock(b) /\ b.urb = a.urb /\ b.ev = e BY <2>1, <2>2 DEF IsBlock
  <2> QED BY <2>1, <2>3
<1>5. PICK g : g = [d.blk EXCEPT ![d.rd] = b] OBVIOUS
<1>6. /\ g = [i \in Slot |-> g[i]] /\ g[d.rd] = b /\ \A i \in Slot \ {d.rd} : g[i] = d.blk[i]
  BY <1>1, <1>5
<1>7. PICK r \in Slot : r = (d.rd + 1) % 2 BY <1>1 DEF Slot
<1>8. PICK x \in Nat : x = d.exec - 1 BY <1>2
<1>9. PICK y \in Nat : y = d.parse + 1 BY <1>2
<1>10. PICK f : f = [d EXCEPT !.blk = g, !.rd = r, !.exec = x, !.parse = y, !.running = FALSE]
  OBVIOUS
<1>11. f = DoneWith(d, e)
  BY <1>3, <1>5, <1>7, <1>8, <1>9, <1>10 DEF DoneWith
<1>12. /\ IsDma(f) /\ f.flaw = d.flaw /\ f.chan = d.chan /\ f.pend = d.pend /\ f.done = d.done
       /\ f.wr = d.wr /\ f.rd = r /\ f.fr = d.fr /\ f.running = FALSE
       /\ f.fill = d.fill /\ f.exec = x /\ f.parse = y
       /\ f.blk = g /\ f.xfer = d.xfer /\ f.hasUrb = d.hasUrb
  BY <1>1, <1>10 DEF IsDma
<1>13. \A i \in Slot : IsBlock(f.blk[i]) /\ f.blk[i].urb = d.blk[i].urb
  BY <1>1, <1>4, <1>6, <1>12
<1>14. Shape(f) BY <1>6, <1>12, <1>13 DEF Tidy, Shape
<1>15. r = (d.fr + y) % 2 /\ d.fill + x + y = 2
  BY <1>1, <1>2, <1>7, <1>8, <1>9
<1>16. Turns(f)
  <2>1. /\ \A i \in Slot : d.blk[i].urb \in IF d.fill = 0 \/ (d.fill = 1 /\ i = d.fr)
                                            THEN Xfer ELSE {NoXfer}
        /\ d.wr = (d.fr + d.fill) % 2
    BY DEF Tidy, Turns
  <2>2. \A i \in Slot : f.blk[i].urb \in IF f.fill = 0 \/ (f.fill = 1 /\ i = f.fr)
                                         THEN Xfer ELSE {NoXfer}
    BY <1>12, <1>13, <2>1
  <2> QED BY <1>2, <1>12, <1>15, <2>1, <2>2 DEF Turns
<1>17. Mid(f) = Mid(d)
  <2>1. d.fr \in Slot /\ 1 - d.fr \in Slot BY <1>1 DEF Slot
  <2> QED BY <1>12, <1>13, <2>1 DEF Mid
<1>18. SameLine(d, f)
  BY <1>12, <1>14, <1>16, <1>17 DEF SameLine, Line, Tidy, NoneIdle
<1>19. Marked(d, f, e)
  BY <1>1, <1>4, <1>6, <1>8, <1>9, <1>12, <1>18 DEF Marked
<1> QED BY <1>1, <1>11, <1>19

\* The other one of two buffers
LEMMA TheOther ==
    ASSUME NEW x \in {0, 1}
    PROVE  (x + 1) % 2 = 1 - x /\ 1 - x \in {0, 1}
<1>1. CASE x = 0 BY <1>1
<1>2. CASE x = 1 BY <1>2
<1> QED BY <1>1, <1>2

\* A buffer that is parsed is free again, and its transfer is done.
LEMMA ParseKeeps ==
    ASSUME NEW d, Tidy(d), d.parse > 0
    PROVE  LET f == DmaParse(d)
           IN  /\ SameLine(d, f) /\ f.exec = d.exec /\ f.running = d.running
               /\ f.chan = d.chan /\ f.hasUrb = d.hasUrb /\ f.pend = d.pend
               /\ f.flaw = "none" => d.flaw = "none" /\ f.parse = d.parse - 1
               /\ d.blk[d.fr].ev # "bna" =>
                     /\ f.parse = d.parse - 1 /\ f.fr = (d.fr + 1) % 2
                     /\ \A i \in Slot \ {d.fr} : f.blk[i] = d.blk[i]
<1>1. /\ IsDma(d) /\ d.fr \in {0, 1} /\ d.fr \in Slot /\ d.done \in Seq(Xfer)
      /\ d.blk = [i \in Slot |-> d.blk[i]] /\ \A i \in Slot : IsBlock(d.blk[i])
      /\ d.xfer = [u \in Xfer |-> d.xfer[u]] /\ \A u \in Xfer : IsXfer(d.xfer[u])
  BY DEF Tidy, Shape, Slot
<1>2. /\ d.exec \in Nat /\ d.parse \in Nat /\ d.fill \in Nat /\ d.fill + d.exec + d.parse = 2
      /\ d.wr = (d.fr + d.fill) % 2 /\ d.rd = (d.fr + d.parse) % 2
      /\ \A i \in Slot : d.blk[i].urb \in IF d.fill = 0 \/ (d.fill = 1 /\ i = d.fr)
                                          THEN Xfer ELSE {NoXfer}
  BY DEF Tidy, Turns
<1>3. d.fill \in {0, 1} BY <1>2
<1>4. PICK b : b = d.blk[d.fr] OBVIOUS
<1>5. PICK u \in Xfer : u = b.urb BY <1>1, <1>2, <1>3, <1>4
<1>6. u # NoXfer BY NamesDiffer
<1>7. CASE b.ev = "bna"
  <2>1. DmaParse(d) = Wrong(d, "abort")
    BY <1>4, <1>5, <1>6, <1>7 DEF DmaParse
  <2>2. PICK f : f = Wrong(d, "abort") OBVIOUS
  <2>3. /\ SameLine(d, f) /\ f.flaw # "none" /\ f.exec = d.exec /\ f.parse = d.parse
        /\ f.running = d.running /\ f.chan = d.chan /\ f.hasUrb = d.hasUrb /\ f.pend = d.pend
    BY <2>2, WrongKeeps
  <2> QED BY <1>4, <1>7, <2>1, <2>2, <2>3
<1>8. CASE b.ev # "bna"
  <2>1. PICK r : r = Parsed(b, d.xfer[u].t) OBVIOUS
  <2>2. PICK x : x = [d.xfer[u] EXCEPT !.st = "done", !.status = r.status,
                                       !.actual = r.actual, !.pkts = r.pkts]
    OBVIOUS
  <2>3. IsXfer(x) /\ x.st = "done"
    <3>1. PICK a : a = d.xfer[u] /\ IsXfer(a) BY <1>1
    <3>2. x = [a EXCEPT !.st = "done", !.status = r.status, !.actual = r.actual,
                        !.pkts = r.pkts]
      BY <2>2, <3>1
    <3> QED BY <3>1, <3>2 DEF IsXfer
  <2>4. PICK X : X = [d.xfer EXCEPT ![u] = x] OBVIOUS
  <2>5. X = [v \in Xfer |-> X[v]] /\ X[u] = x /\ \A v \in Xfer \ {u} : X[v] = d.xfer[v]
    BY <1>1, <2>4
  <2>6. PICK B : B = [d.blk EXCEPT ![d.fr] = NoBlock] OBVIOUS
  <2>7. /\ B = [i \in Slot |-> B[i]] /\ B[d.fr] = NoBlock
        /\ \A i \in Slot \ {d.fr} : B[i] = d.blk[i]
    BY <1>1, <2>6
  <2>8. PICK s \in Seq(Xfer) : s = Append(d.done, u)
    <3>1. Append(d.done, u) \in Seq(Xfer) BY <1>1, AppendProperties
    <3> QED BY <3>1
  <2>9. PICK n \in Slot : n = (d.fr + 1) % 2 /\ n = 1 - d.fr
    <3>1. (d.fr + 1) % 2 = 1 - d.fr /\ 1 - d.fr \in {0, 1} BY <1>1, TheOther
    <3> QED BY <3>1 DEF Slot
  <2>10. PICK k \in Nat : k = d.parse - 1 BY <1>2
  <2>11. PICK m \in Nat : m = d.fill + 1 BY <1>2
  <2>12. PICK e : e = [d EXCEPT !.xfer = X, !.blk = B, !.done = s, !.fr = n, !.parse = k,
                                !.fill = m]
    OBVIOUS
  <2>13. /\ IsDma(e) /\ e.flaw = d.flaw /\ e.chan = d.chan /\ e.pend = d.pend /\ e.done = s
         /\ e.wr = d.wr /\ e.rd = d.rd /\ e.fr = n /\ e.running = d.running
         /\ e.fill = m /\ e.exec = d.exec /\ e.parse = k
         /\ e.blk = B /\ e.xfer = X /\ e.hasUrb = d.hasUrb
    BY <1>1, <2>12 DEF IsDma
  <2>14. IsBlock(NoBlock) /\ NoBlock.urb = NoXfer BY DEF IsBlock, NoBlock
  <2>15. Shape(e)
    <3>1. \A i \in Slot : IsBlock(B[i]) BY <1>1, <2>7, <2>14
    <3>2. \A v \in Xfer : IsXfer(X[v]) BY <1>1, <2>3, <2>5
    <3> QED BY <2>5, <2>7, <2>13, <3>1, <3>2 DEF Tidy, Shape
  <2>16. Turns(e)
    <3>1. d.wr = (n + m) % 2 /\ d.rd = (n + k) % 2 /\ m + d.exec + k = 2
      <4>1. d.parse \in {1, 2} /\ d.wr = (d.fr + d.fill) % 2 /\ d.rd = (d.fr + d.parse) % 2
        BY <1>2
      <4>2. d.wr = (n + m) % 2 BY <1>1, <1>3, <2>9, <2>11, <4>1
      <4>3. d.rd = (n + k) % 2 BY <1>1, <2>9, <2>10, <4>1
      <4>4. m + d.exec + k = 2
        <5>1. d.fill \in Nat /\ d.parse \in Nat /\ d.exec \in Nat /\ d.fill + d.exec + d.parse = 2
          BY <1>2
        <5> QED BY <2>10, <2>11, <5>1, SMTT(60)
      <4> QED BY <4>2, <4>3, <4>4
    <3>2. \A i \in Slot : B[i].urb \in IF m = 0 \/ (m = 1 /\ i = n) THEN Xfer ELSE {NoXfer}
      <4>1. m \in {1, 2} /\ (m = 1 <=> d.fill = 0) /\ Slot = {d.fr, n} /\ d.fr # n
        BY <1>1, <1>3, <2>9, <2>11 DEF Slot
      <4>2. B[d.fr].urb = NoXfer BY <2>7, <2>14
      <4>3. B[n] = d.blk[n] BY <2>7, <4>1
      <4>4. m = 1 => B[n].urb \in Xfer BY <1>2, <4>1, <4>3
      <4>5. m = 2 => B[n].urb = NoXfer BY <1>2, <1>3, <2>11, <4>1, <4>3
      <4> QED BY <4>1, <4>2, <4>4, <4>5
    <3> QED BY <1>2, <2>13, <3>1, <3>2 DEF Turns
  <2>17. Line(e) = Line(d)
    <3>1. Mid(d) \in Seq(Xfer) /\ d.pend \in Seq(Xfer)
      BY MidIsTyped DEF Tidy, Shape
    <3>2. Head(Mid(d)) = u /\ Tail(Mid(d)) = Mid(e) /\ Mid(d) # <<>>
      <4>1. CASE d.fill = 1
        <5>1. Mid(d) = <<u>> /\ Mid(e) = <<>>
          BY <1>4, <1>5, <2>11, <2>13, <4>1 DEF Mid
        <5> QED BY <5>1
      <4>2. CASE d.fill = 0
        <5>1. Mid(d) = <<u, d.blk[1 - d.fr].urb>> /\ Mid(e) = <<B[n].urb>>
          BY <1>4, <1>5, <2>11, <2>13, <4>2 DEF Mid
        <5>2. B[n] = d.blk[1 - d.fr] BY <1>1, <2>7, <2>9
        <5> QED BY <5>1, <5>2
      <4> QED BY <1>3, <4>1, <4>2
    <3>3. PICK a \in Seq(Xfer), q \in Seq(Xfer), c \in Seq(Xfer) :
             a = d.done /\ q = Mid(d) /\ c = d.pend
      BY <1>1, <3>1
    <3>4. q # <<>> BY <3>2, <3>3
    <3>5. Append(a, Head(q)) \o Tail(q) \o c = a \o q \o c
      BY <3>4, AppendingHead, SMTT(60)
    <3> QED BY <2>8, <2>13, <3>2, <3>3, <3>5 DEF Line
  <2>18. NoneIdle(d, e) BY <2>3, <2>5, <2>13 DEF NoneIdle
  <2>19. SameLine(d, e) BY <2>15, <2>16, <2>17, <2>18 DEF SameLine, Tidy
  <2>20. e = [d EXCEPT !.xfer[u] = [@ EXCEPT !.st = "done", !.status = r.status,
                                    !.actual = r.actual, !.pkts = r.pkts],
                       !.blk[d.fr] = NoBlock, !.done = Append(@, u),
                       !.fr = (@ + 1) % 2, !.parse = @ - 1, !.fill = @ + 1]
    BY <2>2, <2>4, <2>6, <2>8, <2>9, <2>10, <2>11, <2>12, ZenonT(60)
  <2>21. PICK f : f = DmaParse(d) OBVIOUS
  <2>22. f = e \/ f = Wrong(e, "assert")
    BY <1>4, <1>5, <1>6, <1>8, <2>1, <2>20, <2>21, ZenonT(60) DEF DmaParse
  <2>23. CASE f = e BY <1>4, <2>7, <2>9, <2>10, <2>13, <2>19, <2>21, <2>23
  <2>24. CASE f = Wrong(e, "assert")
    <3>1. /\ SameLine(e, f) /\ f.flaw # "none" /\ f.exec = e.exec /\ f.parse = e.parse
          /\ f.running = e.running /\ f.chan = e.chan /\ f.hasUrb = e.hasUrb /\ f.pend = e.pend
          /\ f.blk = e.blk /\ f.fr = e.fr
      BY <2>19, <2>24, WrongKeeps DEF SameLine
    <3>2. SameLine(d, f) BY <2>19, <3>1 DEF SameLine, NoneIdle
    <3> QED BY <1>4, <2>7, <2>9, <2>10, <2>13, <2>21, <3>1, <3>2
  <2> QED BY <2>22, <2>23, <2>24
<1> QED BY <1>7, <1>8

\* A transfer that is filled into a buffer is the last of those in buffers.
LEMMA FillOneKeeps ==
    ASSUME NEW d, Tidy(d), d.pend # <<>> => ch.ep.type \in Kinds
    PROVE  LET f == FillOne(d)
           IN  /\ SameLine(d, f) /\ f.exec >= d.exec /\ f.parse = d.parse
               /\ f.running = d.running /\ f.chan = d.chan /\ f.hasUrb = d.hasUrb
               /\ f.flaw = "none" => d.flaw = "none"
               /\ d.pend = <<>> => f.pend = <<>>
<1>1. /\ IsDma(d) /\ d.fr \in {0, 1} /\ d.wr \in Slot /\ d.pend \in Seq(Xfer)
      /\ d.blk = [i \in Slot |-> d.blk[i]] /\ \A i \in Slot : IsBlock(d.blk[i])
      /\ d.xfer = [u \in Xfer |-> d.xfer[u]] /\ \A u \in Xfer : IsXfer(d.xfer[u])
  BY DEF Tidy, Shape, Slot
<1>2. /\ d.exec \in Nat /\ d.parse \in Nat /\ d.fill \in Nat /\ d.fill + d.exec + d.parse = 2
      /\ d.wr = (d.fr + d.fill) % 2 /\ d.rd = (d.fr + d.parse) % 2
      /\ \A i \in Slot : d.blk[i].urb \in IF d.fill = 0 \/ (d.fill = 1 /\ i = d.fr)
                                          THEN Xfer ELSE {NoXfer}
  BY DEF Tidy, Turns
<1>3. CASE ~CanFill(d)
  <2>1. FillOne(d) = d BY <1>3 DEF FillOne
  <2>2. SameLine(d, d) BY DEF SameLine, NoneIdle
  <2> QED BY <1>2, <2>1, <2>2
<1>4. CASE CanFill(d)
  <2>1. d.pend # <<>> /\ d.fill \in {1, 2} /\ ch.ep.type \in Kinds
    <3>1. d.fill \in Nat /\ d.exec \in Nat /\ d.parse \in Nat /\ d.fill + d.exec + d.parse = 2
      BY <1>2
    <3> QED BY <1>4, <3>1 DEF CanFill
  <2>2. PICK u \in Xfer : u = Head(d.pend) BY <1>1, <2>1, HeadTailProperties
  <2>3. PICK t \in Seq(Xfer) : t = Tail(d.pend)
    BY <1>1, <2>1, HeadTailProperties
  <2>4. PICK b : b = [Filled(d, d.xfer[u].t) EXCEPT !.urb = u] OBVIOUS
  <2>5. IsBlock(b) /\ b.urb = u
    <3>1. PICK tt : tt = d.xfer[u].t OBVIOUS
    <3>2. PICK g : g = Filled(d, tt) OBVIOUS
    <3>3. b = [g EXCEPT !.urb = u] BY <2>4, <3>1, <3>2
    <3>4. IsBlock(g) BY <2>1, <3>2, FilledIs
    <3> QED BY <3>3, <3>4 DEF IsBlock
  <2>6. PICK x : x = [d.xfer[u] EXCEPT !.st = "inflight"] OBVIOUS
  <2>7. IsXfer(x) /\ x.st = "inflight"
    <3>1. PICK a : a = d.xfer[u] /\ IsXfer(a) BY <1>1
    <3>2. x = [a EXCEPT !.st = "inflight"] BY <2>6, <3>1
    <3> QED BY <3>1, <3>2 DEF IsXfer
  <2>8. PICK X : X = [d.xfer EXCEPT ![u] = x] OBVIOUS
  <2>9. X = [v \in Xfer |-> X[v]] /\ X[u] = x /\ \A v \in Xfer \ {u} : X[v] = d.xfer[v]
    BY <1>1, <2>8
  <2>10. PICK B : B = [d.blk EXCEPT ![d.wr] = b] OBVIOUS
  <2>11. /\ B = [i \in Slot |-> B[i]] /\ B[d.wr] = b
         /\ \A i \in Slot \ {d.wr} : B[i] = d.blk[i]
    BY <1>1, <2>10
  <2>12. PICK n \in Slot : n = (d.wr + 1) % 2 /\ n = 1 - d.wr
    <3>1. (d.wr + 1) % 2 = 1 - d.wr /\ 1 - d.wr \in {0, 1}
      BY <1>1, TheOther DEF Slot
    <3> QED BY <3>1 DEF Slot
  <2>13. PICK k \in Nat : k = d.exec + 1 BY <1>2
  <2>14. PICK m \in Nat : m = d.fill - 1 BY <2>1
  <2>15. PICK e : e = [d EXCEPT !.pend = t, !.blk = B, !.xfer = X, !.wr = n, !.fill = m,
                                !.exec = k]
    OBVIOUS
  <2>16. /\ IsDma(e) /\ e.flaw = d.flaw /\ e.chan = d.chan /\ e.pend = t /\ e.done = d.done
         /\ e.wr = n /\ e.rd = d.rd /\ e.fr = d.fr /\ e.running = d.running
         /\ e.fill = m /\ e.exec = k /\ e.parse = d.parse
         /\ e.blk = B /\ e.xfer = X /\ e.hasUrb = d.hasUrb
    BY <1>1, <2>15 DEF IsDma
  <2>17. Shape(e)
    <3>1. \A i \in Slot : IsBlock(B[i]) BY <1>1, <2>5, <2>11
    <3>2. \A v \in Xfer : IsXfer(X[v]) BY <1>1, <2>7, <2>9
    <3> QED BY <2>9, <2>11, <2>12, <2>16, <3>1, <3>2 DEF Tidy, Shape
  <2>18. d.wr = IF d.fill = 1 THEN 1 - d.fr ELSE d.fr
    <3>1. d.wr = (d.fr + d.fill) % 2 BY <1>2
    <3>2. CASE d.fill = 1 BY <1>1, <3>1, <3>2, TheOther
    <3>3. CASE d.fill = 2
      <4>1. CASE d.fr = 0 BY <3>1, <3>3, <4>1
      <4>2. CASE d.fr = 1 BY <3>1, <3>3, <4>2
      <4> QED BY <1>1, <3>3, <4>1, <4>2
    <3> QED BY <2>1, <3>2, <3>3
  <2>19. Turns(e)
    <3>1. m + k + d.parse = 2
      <4>1. PICK i, j \in Nat : d.fill = i /\ d.exec = j BY <1>2
      <4>2. PICK l \in Nat : d.parse = l BY <1>2
      <4>3. i + j + l = 2 /\ k = j + 1 /\ m = i - 1
        BY <1>2, <2>13, <2>14, <4>1, <4>2
      <4>4. m + k + l = 2 BY <4>3
      <4> QED BY <4>2, <4>4
    <3>2. n = (d.fr + m) % 2
      <4>1. CASE d.fill = 1
        <5>1. n = d.fr /\ m = 0 BY <1>1, <2>12, <2>14, <2>18, <4>1
        <5>2. (0 + 0) % 2 = 0 /\ (1 + 0) % 2 = 1 OBVIOUS
        <5> QED BY <1>1, <5>1, <5>2
      <4>2. CASE d.fill = 2
        <5>1. n = 1 - d.fr /\ m = 1 BY <1>1, <2>12, <2>14, <2>18, <4>2
        <5> QED BY <1>1, <5>1, TheOther
      <4> QED BY <2>1, <4>1, <4>2
    <3>3. \A i \in Slot : B[i].urb \in IF m = 0 \/ (m = 1 /\ i = d.fr) THEN Xfer ELSE {NoXfer}
      <4>1. B[d.wr].urb = u /\ d.fr \in Slot /\ 1 - d.fr \in Slot /\ Slot = {d.fr, 1 - d.fr}
            /\ d.fr # 1 - d.fr
        BY <1>1, <2>5, <2>11 DEF Slot
      <4>2. CASE d.fill = 2
        <5>1. d.wr = d.fr /\ m = 1 BY <2>14, <2>18, <4>2
        <5>2. 1 - d.fr \in Slot \ {d.wr} BY <4>1, <5>1
        <5>3. B[1 - d.fr] = d.blk[1 - d.fr] BY <2>11, <5>2
        <5>4. d.blk[1 - d.fr].urb = NoXfer BY <1>2, <4>1, <4>2
        <5> QED BY <4>1, <5>1, <5>4, <5>3
      <4>3. CASE d.fill = 1
        <5>1. d.wr = 1 - d.fr /\ m = 0 BY <2>14, <2>18, <4>3
        <5>2. d.fr \in Slot \ {d.wr} BY <4>1, <5>1
        <5>3. B[d.fr] = d.blk[d.fr] BY <2>11, <5>2
        <5>4. d.blk[d.fr].urb \in Xfer BY <1>2, <4>1, <4>3
        <5> QED BY <4>1, <5>1, <5>4, <5>3
      <4> QED BY <2>1, <4>2, <4>3
    <3> QED BY <1>2, <2>16, <3>1, <3>2, <3>3 DEF Turns
  <2>20. Line(e) = Line(d)
    <3>1. Mid(e) = Mid(d) \o <<u>> /\ Mid(d) \in Seq(Xfer)
      <4>1. B[d.wr].urb = u /\ d.fr \in Slot BY <1>1, <2>5, <2>11 DEF Slot
      <4>2. CASE d.fill = 2
        <5>1. Mid(d) = <<>> /\ Mid(e) = <<u>>
          BY <2>14, <2>16, <2>18, <4>1, <4>2 DEF Mid
        <5> QED BY <5>1
      <4>3. CASE d.fill = 1
        <5>1. B[d.fr] = d.blk[d.fr] BY <1>1, <2>11, <2>18, <4>1, <4>3
        <5>2. d.blk[d.fr].urb \in Xfer BY <1>2, <4>1, <4>3
        <5>3. PICK v \in Xfer : v = d.blk[d.fr].urb BY <5>2
        <5>4. Mid(d) = <<v>> /\ Mid(e) = <<v, u>>
          BY <2>14, <2>16, <2>18, <4>1, <4>3, <5>1, <5>3 DEF Mid
        <5> QED BY <5>4
      <4> QED BY <2>1, <4>2, <4>3
    <3>2. PICK a \in Seq(Xfer), q \in Seq(Xfer), c \in Seq(Xfer) :
             a = d.done /\ q = Mid(d) /\ c = d.pend
      BY <1>1, <3>1 DEF Tidy, Shape
    <3>3. c # <<>> /\ <<u>> \in Seq(Xfer) BY <2>1, <3>2
    <3>4. <<u>> \o t = c
      <4>1. <<>> \in Seq(Xfer) /\ Append(<<>>, u) = <<u>> OBVIOUS
      <4>2. Append(<<>>, Head(c)) \o Tail(c) \o <<>> = <<>> \o c \o <<>>
        BY <3>3, <4>1, AppendingHead
      <4>3. <<u>> \o t \in Seq(Xfer) BY <3>3, ConcatProperties
      <4>4. PICK z \in Seq(Xfer) : z = <<u>> \o t BY <4>3
      <4>5. z \o <<>> = z /\ c \o <<>> = c /\ <<>> \o c = c
        BY ConcatEmptySeq
      <4> QED BY <2>2, <2>3, <3>2, <4>1, <4>2, <4>4, <4>5
    <3>5. a \o (q \o <<u>>) \o t = a \o q \o (<<u>> \o t)
      BY <3>3, MovingKeepsOrder, SMTT(60)
    <3> QED BY <2>16, <3>1, <3>2, <3>4, <3>5 DEF Line
  <2>21. NoneIdle(d, e) BY <2>7, <2>9, <2>16 DEF NoneIdle
  <2>22. SameLine(d, e) BY <2>17, <2>19, <2>20, <2>21 DEF SameLine, Tidy
  <2>23. e = Placed(d, u, b)
    BY <2>3, <2>6, <2>8, <2>10, <2>12, <2>13, <2>14, <2>15 DEF Placed
  <2>24. PICK f : f = FillOne(d) OBVIOUS
  <2>25. f = e \/ \E what : what # "none" /\ f = Wrong(e, what)
    <3>1. f = DmaFill(d) BY <1>4, <2>24 DEF FillOne
    <3>2. f = IF d.blk[d.wr].urb # NoXfer THEN Wrong(Placed(d, u, b), "filled twice")
              ELSE IF Unfit(b) # "none" THEN Wrong(Placed(d, u, b), Unfit(b)) ELSE Placed(d, u, b)
      BY <2>2, <2>4, <3>1 DEF DmaFill
    <3> QED BY <2>23, <3>2
  <2>26. e.exec >= d.exec BY <1>2, <2>13, <2>16
  <2>27. CASE f = e BY <2>1, <2>16, <2>22, <2>24, <2>26, <2>27
  <2>28. CASE \E what : what # "none" /\ f = Wrong(e, what)
    <3>1. PICK what : what # "none" /\ f = Wrong(e, what) BY <2>28
    <3>2. /\ SameLine(e, f) /\ f.flaw # "none" /\ f.exec = e.exec /\ f.parse = e.parse
          /\ f.running = e.running /\ f.chan = e.chan /\ f.hasUrb = e.hasUrb
      BY <2>22, <3>1, WrongKeeps DEF SameLine
    <3>3. SameLine(d, f) BY <2>22, <3>2 DEF SameLine, NoneIdle
    <3> QED BY <2>1, <2>16, <2>24, <2>26, <3>2, <3>3
  <2> QED BY <2>25, <2>27, <2>28
<1> QED BY <1>3, <1>4

-----------------------------------------------------------------------------
(* The channel *)

\* A step of the channel's: at most it, the lists and the transfers' records change.
View(d, f) ==
    /\ SameLine(d, f) /\ f.exec = d.exec /\ f.parse = d.parse /\ f.fill = d.fill
    /\ f.running = d.running /\ f.flaw = d.flaw /\ f.pend = d.pend /\ f.done = d.done
    /\ f.fr = d.fr /\ f.rd = d.rd

Alike(d, f) ==
    /\ IsDma(f) /\ IsChan(f.chan) /\ f.pend = d.pend /\ f.done = d.done
    /\ f.wr = d.wr /\ f.rd = d.rd /\ f.fr = d.fr
    /\ f.fill = d.fill /\ f.exec = d.exec /\ f.parse = d.parse
    /\ f.blk = [i \in Slot |-> f.blk[i]]
    /\ \A i \in Slot : IsBlock(f.blk[i]) /\ f.blk[i].urb = d.blk[i].urb
    /\ f.xfer = [u \in Xfer |-> f.xfer[u]]
    /\ \A u \in Xfer : IsXfer(f.xfer[u]) /\ f.xfer[u].st = d.xfer[u].st

\* What differs in nothing that counts holds the same transfers.
LEMMA AlikeKeeps == ASSUME NEW d, Tidy(d), NEW f, Alike(d, f) PROVE SameLine(d, f)
BY ViewKeeps DEF Alike

\* What is transferred is remembered.
LEMMA MovedKeeps ==
    ASSUME NEW d, Tidy(d), NEW n
    PROVE  View(d, Moved(d, n)) /\ Moved(d, n).chan = d.chan
<1>1. /\ IsDma(d) /\ IsChan(d.chan)
      /\ d.blk = [i \in Slot |-> d.blk[i]] /\ \A i \in Slot : IsBlock(d.blk[i])
      /\ d.xfer = [u \in Xfer |-> d.xfer[u]] /\ \A u \in Xfer : IsXfer(d.xfer[u])
  BY DEF Tidy, Shape
<1>2. PICK u : u = d.blk[d.rd].urb OBVIOUS
<1>3. PICK x : x = [d.xfer[u] EXCEPT !.moved = Append(@, n)] OBVIOUS
<1>4. u \in Xfer => IsXfer(x) /\ x.st = d.xfer[u].st
  <2>1. SUFFICES ASSUME u \in Xfer PROVE IsXfer(x) /\ x.st = d.xfer[u].st
    OBVIOUS
  <2>2. PICK a : a = d.xfer[u] /\ IsXfer(a) BY <1>1, <2>1
  <2>3. PICK m : m = Append(a.moved, n) OBVIOUS
  <2>4. x = [a EXCEPT !.moved = m] BY <1>3, <2>2, <2>3
  <2> QED BY <2>2, <2>4 DEF IsXfer
<1>5. PICK X : X = [d.xfer EXCEPT ![u] = x] OBVIOUS
<1>6. X = [v \in Xfer |-> X[v]] /\ \A v \in Xfer : X[v] = IF v = u THEN x ELSE d.xfer[v]
  BY <1>1, <1>5
<1>7. PICK f : f = [d EXCEPT !.xfer = X] BY ZenonT(60)
<1>8. f = Moved(d, n) BY <1>2, <1>3, <1>5, <1>7, ZenonT(60) DEF Moved
<1>9. /\ IsDma(f) /\ f.flaw = d.flaw /\ f.chan = d.chan /\ f.pend = d.pend /\ f.done = d.done
      /\ f.wr = d.wr /\ f.rd = d.rd /\ f.fr = d.fr /\ f.running = d.running
      /\ f.fill = d.fill /\ f.exec = d.exec /\ f.parse = d.parse
      /\ f.blk = d.blk /\ f.xfer = X
  BY <1>1, <1>7 DEF IsDma
<1>10. \A v \in Xfer : IsXfer(X[v]) /\ X[v].st = d.xfer[v].st
  BY <1>1, <1>4, <1>6
<1>11. SameLine(d, f) BY <1>1, <1>6, <1>9, <1>10, ViewKeeps
<1> QED BY <1>8, <1>9, <1>11 DEF View

\* A buffer's record is replaced by one with the same transfer.
LEMMA BlockKeeps ==
    ASSUME NEW d, Tidy(d), NEW b, IsBlock(b), b.urb = d.blk[d.rd].urb,
           NEW B, B = [d.blk EXCEPT ![d.rd] = b], NEW f, f = [d EXCEPT !.blk = B]
    PROVE  View(d, f) /\ f.chan = d.chan
<1>1. /\ IsDma(d) /\ d.rd \in Slot /\ IsChan(d.chan)
      /\ d.blk = [i \in Slot |-> d.blk[i]] /\ \A i \in Slot : IsBlock(d.blk[i])
      /\ d.xfer = [u \in Xfer |-> d.xfer[u]] /\ \A u \in Xfer : IsXfer(d.xfer[u])
  BY DEF Tidy, Shape
<1>2. B = [i \in Slot |-> B[i]] /\ \A i \in Slot : IsBlock(B[i]) /\ B[i].urb = d.blk[i].urb
  BY <1>1
<1>3. /\ IsDma(f) /\ f.flaw = d.flaw /\ f.chan = d.chan /\ f.pend = d.pend /\ f.done = d.done
      /\ f.wr = d.wr /\ f.rd = d.rd /\ f.fr = d.fr /\ f.running = d.running
      /\ f.fill = d.fill /\ f.exec = d.exec /\ f.parse = d.parse
      /\ f.blk = B /\ f.xfer = d.xfer
  BY <1>1 DEF IsDma
<1>4. /\ IsChan(f.chan) /\ f.blk = [i \in Slot |-> f.blk[i]]
      /\ \A i \in Slot : IsBlock(f.blk[i]) /\ f.blk[i].urb = d.blk[i].urb
      /\ f.xfer = [u \in Xfer |-> f.xfer[u]]
      /\ \A u \in Xfer : IsXfer(f.xfer[u]) /\ f.xfer[u].st = d.xfer[u].st
  BY <1>1, <1>2, <1>3
<1>5. Alike(d, f) BY <1>4, <1>3 DEF Alike
<1>6. SameLine(d, f) BY <1>5, AlikeKeeps
<1> QED BY <1>3, <1>6 DEF View

\* A descriptor that is executed moves no transfer.
LEMMA ExecutedKeeps ==
    ASSUME NEW d, Tidy(d), NEW i, NEW n, NEW sts
    PROVE  View(d, Executed(d, i, n, sts)) /\ Executed(d, i, n, sts).chan = d.chan
<1>1. PICK a : a = d.blk[d.rd] /\ IsBlock(a) BY DEF Tidy, Shape
<1>2. PICK l : l = [a.list EXCEPT ![i] = [@ EXCEPT !.rem = @ - n, !.sts = sts]]
  OBVIOUS
<1>3. PICK b : b = [a EXCEPT !.list = l] OBVIOUS
<1>4. IsBlock(b) /\ b.urb = d.blk[d.rd].urb BY <1>1, <1>3 DEF IsBlock
<1>5. PICK B : B = [d.blk EXCEPT ![d.rd] = b] OBVIOUS
<1>6. PICK f : f = [d EXCEPT !.blk = B] OBVIOUS
<1>7. View(d, f) /\ f.chan = d.chan BY <1>4, <1>5, <1>6, BlockKeeps
<1>8. f = Executed(d, i, n, sts)
  BY <1>1, <1>2, <1>3, <1>5, <1>6 DEF Executed
<1> QED BY <1>7, <1>8

\* Two such steps in a row
LEMMA ViewsFollow ==
    ASSUME NEW d, NEW f, NEW g, View(d, f), View(f, g)
    PROVE  View(d, g)
BY DEF View, SameLine, NoneIdle

\* Only the channel changes.
LEMMA ChanKeeps ==
    ASSUME NEW d, Tidy(d), NEW c, IsChan(c), NEW f, f = [d EXCEPT !.chan = c]
    PROVE  View(d, f) /\ f.chan = c
<1>1. /\ IsDma(d)
      /\ d.blk = [i \in Slot |-> d.blk[i]] /\ \A i \in Slot : IsBlock(d.blk[i])
      /\ d.xfer = [u \in Xfer |-> d.xfer[u]] /\ \A u \in Xfer : IsXfer(d.xfer[u])
  BY DEF Tidy, Shape
<1>2. /\ IsDma(f) /\ f.flaw = d.flaw /\ f.chan = c /\ f.pend = d.pend /\ f.done = d.done
      /\ f.wr = d.wr /\ f.rd = d.rd /\ f.fr = d.fr /\ f.running = d.running
      /\ f.fill = d.fill /\ f.exec = d.exec /\ f.parse = d.parse
      /\ f.blk = d.blk /\ f.xfer = d.xfer
  BY <1>1 DEF IsDma
<1>3. SameLine(d, f) BY <1>1, <1>2, ViewKeeps
<1> QED BY <1>2, <1>3 DEF View

\* _buffer_exec_cont() moves no transfer.
LEMMA ExecContKeeps ==
    ASSUME NEW d, Tidy(d)
    PROVE  View(d, ExecCont(d)) /\ ExecCont(d).chan.st = "busy"
<1>1. PICK a : a = d.blk[d.rd] /\ IsBlock(a) BY DEF Tidy, Shape
<1>2. PICK s : s = NextStage(a) OBVIOUS
<1>3. PICK b : b = [a EXCEPT !.stage = s] OBVIOUS
<1>4. IsBlock(b) /\ b.urb = d.blk[d.rd].urb BY <1>1, <1>3 DEF IsBlock
<1>5. PICK c : c = [NoChan EXCEPT !.st = "busy", !.idx = s] OBVIOUS
<1>6. IsChan(c) /\ c.st = "busy" BY <1>5 DEF NoChan, IsChan
<1>7. PICK B : B = [d.blk EXCEPT ![d.rd] = b] OBVIOUS
<1>8. PICK f : f = [d EXCEPT !.blk = B] OBVIOUS
<1>9. View(d, f) BY <1>4, <1>7, <1>8, BlockKeeps
<1>10. PICK g : g = [f EXCEPT !.chan = c] OBVIOUS
<1>11. View(f, g) /\ g.chan = c
  BY <1>6, <1>9, <1>10, ChanKeeps DEF View, SameLine
<1>12. g = ExecCont(d)
  BY <1>1, <1>2, <1>3, <1>5, <1>7, <1>8, <1>10 DEF ExecCont
<1> QED BY <1>6, <1>9, <1>11, <1>12, ViewsFollow

\* A channel that stops moves no transfer.
LEMMA StopsKeeps ==
    ASSUME NEW d, Tidy(d), NEW st, NEW i
    PROVE  View(d, Stops(d, st, i)) /\ Stops(d, st, i).chan.st = st
<1>1. PICK a : a = d.chan /\ IsChan(a) BY DEF Tidy, Shape
<1>2. PICK k : k = i % d.blk[d.rd].last OBVIOUS
<1>3. PICK c : c = [a EXCEPT !.st = st, !.idx = k] OBVIOUS
<1>4. IsChan(c) /\ c.st = st BY <1>1, <1>3 DEF IsChan
<1>5. PICK f : f = [d EXCEPT !.chan = c] OBVIOUS
<1>6. View(d, f) /\ f.chan = c BY <1>4, <1>5, ChanKeeps
<1>7. f = Stops(d, st, i) BY <1>1, <1>2, <1>3, <1>5 DEF Stops
<1> QED BY <1>4, <1>6, <1>7

\* A channel that goes on to the next descriptor moves no transfer.
LEMMA IdxKeeps ==
    ASSUME NEW d, Tidy(d), NEW k
    PROVE  View(d, [d EXCEPT !.chan.idx = k]) /\ [d EXCEPT !.chan.idx = k].chan.st = d.chan.st
<1>1. PICK a : a = d.chan /\ IsChan(a) BY DEF Tidy, Shape
<1>2. PICK c : c = [a EXCEPT !.idx = k] OBVIOUS
<1>3. IsChan(c) /\ c.st = a.st BY <1>1, <1>2 DEF IsChan
<1>4. PICK f : f = [d EXCEPT !.chan = c] OBVIOUS
<1>5. View(d, f) /\ f.chan = c BY <1>3, <1>4, ChanKeeps
<1>6. f = [d EXCEPT !.chan.idx = k] BY <1>1, <1>2, <1>4
<1> QED BY <1>1, <1>3, <1>5, <1>6

\* A channel that fails moves no transfer.
LEMMA FailsKeeps ==
    ASSUME NEW d, Tidy(d), NEW why
    PROVE  LET f == [d EXCEPT !.chan.st = "error", !.chan.why = why]
           IN  View(d, f) /\ f.chan.st = "error"
<1>1. PICK a : a = d.chan /\ IsChan(a) BY DEF Tidy, Shape
<1>2. PICK c : c = [a EXCEPT !.st = "error", !.why = why] OBVIOUS
<1>3. IsChan(c) /\ c.st = "error" BY <1>1, <1>2 DEF IsChan
<1>4. PICK f : f = [d EXCEPT !.chan = c] OBVIOUS
<1>5. View(d, f) /\ f.chan = c BY <1>3, <1>4, ChanKeeps
<1>6. f = [d EXCEPT !.chan.st = "error", !.chan.why = why]
  BY <1>1, <1>2, <1>4
<1> QED BY <1>3, <1>5, <1>6

\* The number of the frame is nobody's transfer.
LEMMA FrameKeeps ==
    ASSUME NEW d, Tidy(d), NEW k
    PROVE  View(d, [d EXCEPT !.frame = k]) /\ [d EXCEPT !.frame = k].chan = d.chan
<1>1. /\ IsDma(d) /\ IsChan(d.chan)
      /\ d.blk = [i \in Slot |-> d.blk[i]] /\ \A i \in Slot : IsBlock(d.blk[i])
      /\ d.xfer = [u \in Xfer |-> d.xfer[u]] /\ \A u \in Xfer : IsXfer(d.xfer[u])
  BY DEF Tidy, Shape
<1>2. PICK f : f = [d EXCEPT !.frame = k] OBVIOUS
<1>3. /\ IsDma(f) /\ f.flaw = d.flaw /\ f.chan = d.chan /\ f.pend = d.pend /\ f.done = d.done
      /\ f.wr = d.wr /\ f.rd = d.rd /\ f.fr = d.fr /\ f.running = d.running
      /\ f.fill = d.fill /\ f.exec = d.exec /\ f.parse = d.parse
      /\ f.blk = d.blk /\ f.xfer = d.xfer
  BY <1>1, <1>2 DEF IsDma
<1>4. SameLine(d, f) BY <1>1, <1>3, ViewKeeps
<1> QED BY <1>2, <1>3, <1>4 DEF View

-----------------------------------------------------------------------------
(* Each transfer once *)

\* A pipe holds a transfer once, and none that is idle.
Distinct(l) == \A i, j \in DOMAIN l : l[i] = l[j] => i = j
NoneFree(d) == \A i \in DOMAIN Line(d) : d.xfer[Line(d)[i]].st # "idle"
DmaGood(d) == Tidy(d) /\ Distinct(Line(d)) /\ NoneFree(d)

\* What a pipe holds are transfers.
LEMMA LineIsTyped ==
    ASSUME NEW d, Tidy(d)
    PROVE  /\ Line(d) \in Seq(Xfer) /\ d.done \in Seq(Xfer) /\ Mid(d) \in Seq(Xfer)
           /\ d.pend \in Seq(Xfer)
<1>1. PICK a \in Seq(Xfer), b \in Seq(Xfer), c \in Seq(Xfer) :
         a = d.done /\ b = Mid(d) /\ c = d.pend
  BY MidIsTyped DEF Tidy, Shape
<1>2. PICK ab \in Seq(Xfer) : ab = a \o b BY ConcatProperties
<1>3. ab \o c \in Seq(Xfer) BY ConcatProperties
<1> QED BY <1>1, <1>2, <1>3 DEF Line

\* DmaQueue, written with two buffers
LEMMA QueueIsLineOf ==
    ASSUME NEW d, Tidy(d)
    PROVE  d.done \o [k \in 1..(d.parse + d.exec) |-> d.blk[(d.fr + k - 1) % 2].urb] \o d.pend
             = Line(d)
<1> DEFINE m == [k \in 1..(d.parse + d.exec) |-> d.blk[(d.fr + k - 1) % 2].urb]
<1>1. m = Mid(d)
  <2>1. d.fill \in 0..2 /\ d.parse + d.exec = 2 - d.fill /\ d.fr \in {0, 1}
    BY SMTT(60) DEF Tidy, Turns, Shape, Slot
  <2>2. CASE d.fill = 2 BY <2>1, <2>2 DEF Mid
  <2>3. CASE d.fill = 1
    <3>1. m = [k \in 1..1 |-> d.blk[(d.fr + k - 1) % 2].urb] BY <2>1, <2>3
    <3>2. (d.fr + 1 - 1) % 2 = d.fr BY <2>1
    <3>3. m = [k \in 1..1 |-> d.blk[d.fr].urb] BY <3>1, <3>2
    <3> QED BY <2>3, <3>3 DEF Mid
  <2>4. CASE d.fill = 0
    <3>1. m = [k \in 1..2 |-> d.blk[(d.fr + k - 1) % 2].urb] BY <2>1, <2>4
    <3>2. (d.fr + 1 - 1) % 2 = d.fr /\ (d.fr + 2 - 1) % 2 = 1 - d.fr BY <2>1
    <3>3. m[1] = d.blk[d.fr].urb /\ m[2] = d.blk[1 - d.fr].urb /\ DOMAIN m = 1..2
      BY <3>1, <3>2
    <3>4. m = <<d.blk[d.fr].urb, d.blk[1 - d.fr].urb>> BY <3>1, <3>3
    <3> QED BY <2>4, <3>4 DEF Mid
  <2> QED BY <2>1, <2>2, <2>3, <2>4
<1> QED BY <1>1 DEF Line

\* Whoever holds the same transfers holds them once.
LEMMA GoodStays ==
    ASSUME NEW d, NEW f, DmaGood(d), SameLine(d, f)
    PROVE  DmaGood(f) /\ Line(f) = Line(d)
<1>1. Line(d) \in Seq(Xfer) /\ Line(f) = Line(d) /\ Tidy(f)
  BY LineIsTyped DEF DmaGood, SameLine
<1>2. NoneFree(f) BY <1>1 DEF NoneFree, DmaGood, SameLine, NoneIdle
<1> QED BY <1>1, <1>2 DEF DmaGood

\* Everything that is in the buffers is marked and then parsed.
LEMMA FlushKeeps ==
    ASSUME NEW d, Tidy(d), d.parse = 0, d.running => d.exec > 0, NEW why, why # "bna"
    PROVE  LET f == FlushBuffers(d, why)
           IN  /\ SameLine(d, f) /\ f.exec = 0 /\ f.parse = 0 /\ f.chan = d.chan
               /\ ~f.running /\ f.pend = d.pend
<1>1. d.exec \in 0..2 /\ d.fr \in Slot /\ d.rd = d.fr /\ d.fr \in {0, 1}
  <2>1. d.rd = (d.fr + d.parse) % 2 /\ d.fr \in {0, 1}
    BY DEF Tidy, Turns, Shape, Slot
  <2>2. d.exec \in 0..2
    <3>1. d.exec \in Nat /\ d.parse \in Nat /\ d.fill \in Nat /\ d.fill + d.exec + d.parse = 2
      BY DEF Tidy, Turns
    <3> QED BY <3>1
  <2>3. (0 + 0) % 2 = 0 /\ (1 + 0) % 2 = 1 OBVIOUS
  <2>4. d.rd = d.fr BY <2>1, <2>3
  <2> QED BY <2>1, <2>2, <2>4 DEF Slot
<1>2. CASE d.exec = 0
  <2>1. FlushBuffers(d, why) = d BY <1>2 DEF FlushBuffers
  <2>2. SameLine(d, d) BY DEF SameLine, NoneIdle
  <2> QED BY <1>2, <2>1, <2>2
<1>3. CASE d.exec = 1
  <2>1. PICK m : m = DoneWith(d, why) OBVIOUS
  <2>2. /\ SameLine(d, m) /\ m.exec = 0 /\ m.parse = 1 /\ m.running = FALSE /\ m.chan = d.chan
        /\ m.pend = d.pend /\ m.fr = d.fr /\ m.blk[d.rd].ev = why
    <3>1. d.exec > 0 /\ 1 - 1 = 0 /\ 0 + 1 = 1 BY <1>3
    <3>2. Marked(d, m, why) BY <2>1, <3>1, DoneWithKeeps
    <3> QED BY <1>3, <3>1, <3>2 DEF Marked
  <2>3. PICK f : f = DmaParse(m) OBVIOUS
  <2>4. m.blk[m.fr].ev # "bna" /\ Tidy(m) BY <1>1, <2>2 DEF SameLine
  <2>5. /\ SameLine(m, f) /\ f.exec = 0 /\ f.running = FALSE
        /\ f.chan = d.chan /\ f.pend = d.pend /\ f.parse = 0
    BY <2>2, <2>3, <2>4, ParseKeeps
  <2>6. FlushBuffers(d, why) = f BY <1>3, <2>1, <2>2, <2>3 DEF FlushBuffers
  <2>7. SameLine(d, f) BY <2>2, <2>5 DEF SameLine, NoneIdle
  <2> QED BY <2>5, <2>6, <2>7
<1>4. CASE d.exec = 2
  <2>1. PICK m : m = DoneWith(d, why) OBVIOUS
  <2>2. /\ SameLine(d, m) /\ m.exec = 1 /\ m.parse = 1 /\ m.running = FALSE /\ m.chan = d.chan
        /\ m.pend = d.pend /\ m.fr = d.fr /\ m.blk[d.rd].ev = why
    <3>1. d.exec > 0 /\ 2 - 1 = 1 /\ 0 + 1 = 1 BY <1>4
    <3>2. Marked(d, m, why) BY <2>1, <3>1, DoneWithKeeps
    <3> QED BY <1>4, <3>1, <3>2 DEF Marked
  <2>3. m.rd = 1 - d.fr /\ Tidy(m) /\ 1 - d.fr \in Slot /\ 1 - d.fr # d.fr
    <3>1. m.rd = (m.fr + m.parse) % 2 /\ Tidy(m)
      BY <2>2 DEF SameLine, Tidy, Turns
    <3> QED BY <1>1, <2>2, <3>1, TheOther DEF Slot
  <2>4. PICK n : n = DoneWith(m, why) OBVIOUS
  <2>5. /\ SameLine(m, n) /\ n.exec = 0 /\ n.parse = 2 /\ n.running = FALSE /\ n.chan = d.chan
        /\ n.pend = d.pend /\ n.fr = d.fr /\ n.blk[m.rd].ev = why
        /\ \A i \in Slot \ {m.rd} : n.blk[i] = m.blk[i]
    <3>1. m.exec > 0 /\ 1 - 1 = 0 /\ 1 + 1 = 2 BY <2>2
    <3>2. Marked(m, n, why) BY <2>3, <2>4, <3>1, DoneWithKeeps
    <3> QED BY <2>2, <3>1, <3>2 DEF Marked
  <2>6. n.blk[d.fr].ev # "bna" /\ n.blk[1 - d.fr].ev # "bna" /\ Tidy(n)
    <3>1. d.fr \in Slot \ {m.rd} BY <1>1, <2>3
    <3>2. n.blk[d.fr] = m.blk[d.fr] BY <2>5, <3>1
    <3> QED BY <1>1, <2>2, <2>3, <2>5, <3>2 DEF SameLine
  <2>7. PICK f : f = DmaParse(n) OBVIOUS
  <2>8. /\ SameLine(n, f) /\ f.exec = 0 /\ f.running = FALSE /\ f.chan = d.chan
        /\ f.pend = d.pend /\ f.parse = 1 /\ f.fr = (d.fr + 1) % 2
        /\ \A i \in Slot \ {d.fr} : f.blk[i] = n.blk[i]
    BY <2>5, <2>6, <2>7, ParseKeeps
  <2>9. f.fr = 1 - d.fr /\ f.blk[f.fr].ev # "bna" /\ Tidy(f)
    <3>1. f.fr = 1 - d.fr BY <1>1, <2>8, TheOther
    <3>2. 1 - d.fr \in Slot \ {d.fr} BY <2>3
    <3>3. f.blk[1 - d.fr] = n.blk[1 - d.fr] BY <2>8, <3>2
    <3> QED BY <2>6, <2>8, <3>1, <3>3 DEF SameLine
  <2>10. PICK g : g = DmaParse(f) OBVIOUS
  <2>11. /\ SameLine(f, g) /\ g.exec = 0 /\ g.running = FALSE
         /\ g.chan = d.chan /\ g.pend = d.pend /\ g.parse = 0
    BY <2>8, <2>9, <2>10, ParseKeeps
  <2>12. FlushBuffers(d, why) = g
    BY <1>4, <2>1, <2>4, <2>5, <2>7, <2>10 DEF FlushBuffers
  <2>13. SameLine(d, g) BY <2>2, <2>5, <2>8, <2>11 DEF SameLine, NoneIdle
  <2> QED BY <2>11, <2>12, <2>13
<1>5. d.exec = 0 \/ d.exec = 1 \/ d.exec = 2 BY <1>1
<1> QED BY <1>2, <1>3, <1>4, <1>5

-----------------------------------------------------------------------------
(* The invariant *)

IsCh(c) ==
    /\ c = [st |-> c.st, ep |-> c.ep, interval |-> c.interval, offset |-> c.offset,
            conn |-> c.conn, asleep |-> c.asleep, waits |-> c.waits]
    /\ c.ep = [type |-> c.ep.type, in |-> c.ep.in, mps |-> c.ep.mps, bInterval |-> c.ep.bInterval,
               speed |-> c.ep.speed, port |-> c.ep.port]

\* How far the pipe and its channel have come
Ready(c, d) ==
    /\ c.st = "halted" => d.chan.st = "off"
    /\ d.chan.st # "off" => d.running
    /\ d.running => d.exec > 0
    /\ d.flaw = "none" => d.parse = 0
    /\ c.ep.type \in Kinds \/ (c.st = "none" /\ d.pend = <<>> /\ d.exec = 0)

DmaSafe == env \in Environments /\ DmaGood(dma) /\ IsCh(ch) /\ Ready(ch, dma)

\* Nothing was accepted or returned.
DmaSame == DmaSafe' /\ DmaQueue' = DmaQueue

\* What DmaSafe says of the pipe that there is
LEMMA DmaKnown ==
    ASSUME DmaSafe
    PROVE  /\ Tidy(dma) /\ DmaGood(dma) /\ IsCh(ch) /\ Ready(ch, dma)
           /\ DmaQueue = Line(dma)
<1>1. PICK d : d = dma OBVIOUS
<1>2. Tidy(d) /\ DmaGood(d) /\ IsCh(ch) /\ Ready(ch, dma)
  BY <1>1 DEF DmaSafe, DmaGood
<1>3. d.done \o [k \in 1..(d.parse + d.exec) |-> d.blk[(d.fr + k - 1) % 2].urb] \o d.pend
        = Line(d)
  BY <1>2, QueueIsLineOf
<1> QED BY <1>1, <1>2, <1>3 DEF DmaQueue

\* A good pipe that is ready makes the next state safe.
LEMMA DmaBecomes ==
    ASSUME NEW f, dma' = f, DmaGood(f), NEW c, ch' = c, IsCh(c), Ready(c, f),
           env' \in Environments
    PROVE  DmaSafe' /\ DmaQueue' = Line(f)
<1>1. f.done \o [k \in 1..(f.parse + f.exec) |-> f.blk[(f.fr + k - 1) % 2].urb] \o f.pend
        = Line(f)
  BY QueueIsLineOf DEF DmaGood
<1>2. DmaQueue' = Line(f) BY <1>1 DEF DmaQueue
<1>3. DmaGood(dma') /\ IsCh(ch') /\ Ready(ch', dma') OBVIOUS
<1>4. DmaSafe' BY <1>3 DEF DmaSafe
<1> QED BY <1>2, <1>4

\* ... and a step that moves no transfer leaves the queue as it is.
LEMMA DmaStaysSame ==
    ASSUME DmaSafe, NEW f, dma' = f, SameLine(dma, f), NEW c, ch' = c, IsCh(c), Ready(c, f),
           env' = env
    PROVE  DmaSame
<1>1. PICK d : d = dma /\ DmaGood(d) /\ SameLine(d, f) /\ DmaQueue = Line(d)
  BY DmaKnown
<1>2. DmaGood(f) /\ Line(f) = Line(d) BY <1>1, GoodStays
<1>3. env' \in Environments BY DEF DmaSafe
<1> QED BY <1>1, <1>2, <1>3, DmaBecomes DEF DmaSame

-----------------------------------------------------------------------------
(* The steps of the channel *)

\* The channel moves on, or the lists, or the transfers' records.
LEMMA ChannelMoves ==
    ASSUME DmaSafe, NEW f, View(dma, f), dma' = f, dma.chan.st # "off" \/ f.chan = dma.chan,
           ch' = ch, env' = env
    PROVE  DmaSame
<1>1. IsCh(ch) /\ Ready(ch, dma) BY DmaKnown
<1>2. SameLine(dma, f) /\ Ready(ch, f) BY <1>1 DEF View, Ready
<1>3. PICK c : c = ch /\ ch' = c /\ IsCh(c) /\ Ready(c, f) BY <1>1, <1>2
<1> QED BY <1>2, <1>3, DmaStaysSame

\* A part of a list that is executed
LEMMA ExecutesKeeps ==
    ASSUME NEW d, Tidy(d), NEW i, NEW n, NEW sts, NEW f, f = Executed(Moved(d, n), i, n, sts)
    PROVE  View(d, f) /\ f.chan = d.chan /\ Tidy(f)
<1>1. PICK g : g = Moved(d, n) /\ View(d, g) /\ g.chan = d.chan /\ Tidy(g)
  BY MovedKeeps DEF View, SameLine
<1>2. f = Executed(g, i, n, sts) BY <1>1
<1>3. View(g, f) /\ f.chan = g.chan /\ Tidy(f)
  BY <1>1, <1>2, ExecutedKeeps DEF View, SameLine
<1> QED BY <1>1, <1>3, ViewsFollow

\* The channel executes a descriptor, and stops.
LEMMA StopsAfter ==
    ASSUME NEW d, NEW g, View(d, g), NEW st, NEW i PROVE View(d, Stops(g, st, i))
<1>1. PICK f : f = Stops(g, st, i) OBVIOUS
<1>2. View(g, f) BY <1>1, StopsKeeps DEF View, SameLine
<1> QED BY <1>1, <1>2, ViewsFollow

\* The channel executes a descriptor, and goes on.
LEMMA IdxAfter ==
    ASSUME NEW d, NEW g, View(d, g), NEW k PROVE View(d, [g EXCEPT !.chan.idx = k])
<1>1. PICK f : f = [g EXCEPT !.chan.idx = k] OBVIOUS
<1>2. View(g, f) BY <1>1, IdxKeeps, ZenonT(60) DEF View, SameLine
<1> QED BY <1>1, <1>2, ViewsFollow

\* A descriptor is executed.
LEMMA ChanStepSame == ASSUME DmaSafe, ChanStep PROVE DmaSame
<1>1. PICK d : d = dma /\ Tidy(d) BY DmaKnown
<1>2. UNCHANGED <<ch, env>> /\ dma.chan.st # "off"
  BY DEF ChanStep, Keep, Busy
<1>3. PICK i : i = dma.chan.idx OBVIOUS
<1>4. PICK f : dma' = f OBVIOUS
<1>5. View(d, f)
  <2>1. CASE i \notin DOMAIN Current.list
    <3>1. f = [d EXCEPT !.chan.st = "error", !.chan.why = "bna"]
      BY <1>1, <1>3, <1>4, <2>1 DEF ChanStep
    <3> QED BY <1>1, <3>1, FailsKeeps
  <2>2. CASE i \in DOMAIN Current.list
    <3>1. PICK n, q : LET g == Executed(Moved(d, n), i, n, "ok")
                      IN  f = IF q.hoc \/ n < q.len THEN Stops(g, "cplt", i + 1)
                              ELSE [g EXCEPT !.chan.idx = i + 1]
      BY <1>1, <1>3, <1>4, <2>2 DEF ChanStep
    <3>2. PICK g : g = Executed(Moved(d, n), i, n, "ok") OBVIOUS
    <3>3. View(d, g) BY <1>1, <3>2, ExecutesKeeps
    <3>4. f = Stops(g, "cplt", i + 1) \/ f = [g EXCEPT !.chan.idx = i + 1]
      BY <3>1, <3>2
    <3>5. PICK k : k = i + 1 OBVIOUS
    <3>6. CASE f = Stops(g, "cplt", i + 1) BY <3>3, <3>6, StopsAfter
    <3>7. CASE f = [g EXCEPT !.chan.idx = i + 1]
      <4>1. f = [g EXCEPT !.chan.idx = k] BY <3>5, <3>7
      <4> QED BY <3>3, <4>1, IdxAfter
    <3> QED BY <3>4, <3>6, <3>7
  <2> QED BY <2>1, <2>2
<1>6. View(dma, f) BY <1>1, <1>5
<1> QED BY <1>2, <1>4, <1>6, ChannelMoves

\* The channel fails.
LEMMA ChanFailsSame ==
    ASSUME DmaSafe, NEW why \in {"xfer", "bbl", "stall"}, ChanFails(why) PROVE DmaSame
<1>1. PICK d : d = dma /\ Tidy(d) BY DmaKnown
<1>2. UNCHANGED <<ch, env>> /\ dma.chan.st # "off"
  BY DEF ChanFails, Keep, Busy
<1>3. PICK f : f = [d EXCEPT !.chan.st = "error", !.chan.why = why] OBVIOUS
<1>4. View(d, f) /\ dma' = f BY <1>1, <1>3, FailsKeeps DEF ChanFails
<1>5. View(dma, f) BY <1>1, <1>4
<1> QED BY <1>2, <1>4, <1>5, ChannelMoves

\* A frame begins.
LEMMA FrameSame == ASSUME DmaSafe, Frame PROVE DmaSame
<1>1. PICK d : d = dma /\ Tidy(d) BY DmaKnown
<1>2. UNCHANGED <<ch, env>> BY DEF Frame, Keep
<1>3. PICK i : i = dma.frame OBVIOUS
<1>4. PICK f : dma' = f OBVIOUS
<1>5. PICK x : x = (i + 1) % IsocLen OBVIOUS
<1>6. PICK g : g = [d EXCEPT !.frame = x] OBVIOUS
<1>7. View(d, g) /\ g.chan = d.chan /\ Tidy(g)
  BY <1>1, <1>6, FrameKeeps DEF View, SameLine
<1>8. CASE ~(Busy /\ i = dma.chan.idx)
  <2>1. f = g BY <1>1, <1>3, <1>4, <1>5, <1>6, <1>8 DEF Frame
  <2>2. View(dma, f) /\ f.chan = dma.chan BY <1>1, <1>7, <2>1
  <2> QED BY <1>2, <1>4, <2>2, ChannelMoves
<1>9. CASE Busy /\ i = dma.chan.idx
  <2>1. PICK n, q, sts : LET h == Executed(Moved(g, n), i, n, sts)
                         IN  f = IF q.hoc THEN Stops(h, "cplt", i + 1)
                                 ELSE [h EXCEPT !.chan.idx = (i + Interval) % IsocLen]
    <3>1. \E sts \in {"ok", "none"} \cup (IF "errors" \in Uses THEN {"pkterr"} ELSE {}) :
             LET q == Current.list[i]
                 n == IF sts = "ok" THEN q.len ELSE 0
                 h == Executed(Moved(g, n), i, n, sts)
             IN  dma' = IF q.hoc THEN Stops(h, "cplt", i + 1)
                        ELSE [h EXCEPT !.chan.idx = (i + Interval) % IsocLen]
      BY <1>1, <1>3, <1>5, <1>6, <1>9, ZenonT(60) DEF Frame
    <3> QED BY <1>4, <3>1, ZenonT(60)
  <2>2. PICK h : h = Executed(Moved(g, n), i, n, sts) OBVIOUS
  <2>3. View(g, h) BY <1>7, <2>2, ExecutesKeeps
  <2>4. View(d, h) BY <1>7, <2>3, ViewsFollow
  <2>5. PICK k : k = (i + Interval) % IsocLen OBVIOUS
  <2>6. f = Stops(h, "cplt", i + 1) \/ f = [h EXCEPT !.chan.idx = k]
    BY <2>1, <2>2, <2>5
  <2>7. View(d, f)
    <3>1. CASE f = Stops(h, "cplt", i + 1) BY <2>4, <3>1, StopsAfter
    <3>2. CASE f = [h EXCEPT !.chan.idx = k] BY <2>4, <3>2, IdxAfter
    <3> QED BY <2>6, <3>1, <3>2
  <2>8. View(dma, f) /\ dma.chan.st # "off" BY <1>1, <1>9, <2>7 DEF Busy
  <2> QED BY <1>2, <1>4, <2>8, ChannelMoves
<1> QED BY <1>8, <1>9

\* The buffer that the channel is at is marked, and the channel is off.
LEMMA MarkedIs ==
    ASSUME DmaSafe, dma.flaw = "none", dma.chan.st # "off", NEW e, NEW d, d = ChanOff(dma, e)
    PROVE  /\ SameLine(dma, d) /\ Tidy(d) /\ d.parse = 1 /\ d.running = FALSE
           /\ d.chan = NoChan /\ d.chan.st = "off" /\ d.flaw = "none" /\ d.blk[d.fr].ev = e
           /\ d.exec >= 0 /\ ch.ep.type \in Kinds
<1>1. PICK b : b = dma /\ Tidy(b) /\ Ready(ch, b) BY DmaKnown
<1>2. b.exec > 0 /\ b.parse = 0 /\ ch.ep.type \in Kinds /\ b.exec \in Nat
  <2>1. b.running /\ b.exec > 0 /\ b.parse = 0 BY <1>1 DEF Ready
  <2>2. b.exec # 0 BY <2>1
  <2>3. b.exec \in Nat BY <1>1 DEF Tidy, Turns
  <2> QED BY <1>1, <2>1, <2>2, <2>3 DEF Ready
<1>3. PICK g : g = DoneWith(b, e) OBVIOUS
<1>4. Marked(b, g, e) /\ b.rd \in Slot BY <1>1, <1>2, <1>3, DoneWithKeeps
<1>5. b.rd = b.fr
  <2>1. b.rd = (b.fr + b.parse) % 2 /\ b.fr \in {0, 1}
    BY <1>1 DEF Tidy, Turns, Shape, Slot
  <2>2. (0 + 0) % 2 = 0 /\ (1 + 0) % 2 = 1 OBVIOUS
  <2> QED BY <1>2, <2>1, <2>2
<1>6. /\ SameLine(b, g) /\ Tidy(g) /\ g.parse = 1 /\ g.running = FALSE /\ g.flaw = "none"
      /\ g.blk[g.fr].ev = e /\ g.exec >= 0
  <2>1. 0 + 1 = 1 OBVIOUS
  <2>2. g.exec = b.exec - 1 /\ g.parse = b.parse + 1 BY <1>4 DEF Marked
  <2>3. g.exec >= 0 /\ g.parse = 1 BY <1>2, <2>1, <2>2
  <2> QED BY <1>1, <1>4, <1>5, <2>3 DEF Marked, SameLine
<1>7. IsChan(NoChan) /\ NoChan.st = "off" BY DEF IsChan, NoChan
<1>8. PICK c : c = NoChan /\ IsChan(c) BY <1>7
<1>9. d = [g EXCEPT !.chan = c] BY <1>1, <1>3, <1>8 DEF ChanOff
<1>10. View(g, d) /\ d.chan = c BY <1>6, <1>8, <1>9, ChanKeeps
<1>11. d.blk = g.blk BY <1>6, <1>9 DEF Tidy, Shape, IsDma
<1>12. SameLine(b, d) BY <1>6, <1>10 DEF View, SameLine, NoneIdle
<1> QED BY <1>1, <1>2, <1>6, <1>7, <1>8, <1>10, <1>11, <1>12 DEF View, SameLine

\* What is parsed of it
LEMMA ParsedIs ==
    ASSUME NEW d, Tidy(d), d.parse = 1, NEW f, f = DmaParse(d)
    PROVE  /\ SameLine(d, f) /\ f.exec = d.exec /\ f.running = d.running /\ f.chan = d.chan
           /\ (f.flaw = "none" => d.flaw = "none" /\ f.parse = 0)
           /\ Tidy(f)
<1>1. d.parse > 0 /\ 1 - 1 = 0 OBVIOUS
<1>2. /\ SameLine(d, f) /\ f.exec = d.exec /\ f.running = d.running /\ f.chan = d.chan
      /\ (f.flaw = "none" => d.flaw = "none" /\ f.parse = d.parse - 1)
  BY <1>1, ParseKeeps
<1> QED BY <1>1, <1>2 DEF SameLine

\* Two steps that hold the same transfers, in a row
LEMMA LinesFollow ==
    ASSUME NEW d, NEW f, NEW g, SameLine(d, f), SameLine(f, g)
    PROVE  SameLine(d, g)
BY DEF SameLine, NoneIdle

\* The pipe's state changes, and that of the buffers.
LEMMA PipeMoves ==
    ASSUME DmaSafe, NEW f, SameLine(dma, f), dma' = f, env' = env, ch.ep.type \in Kinds,
           NEW c, ch' = c, IsCh(c), c.ep = ch.ep, c.st = "halted" => f.chan.st = "off",
           f.chan.st # "off" => f.running, f.running => f.exec > 0, f.flaw = "none" => f.parse = 0
    PROVE  DmaSame
<1>1. Ready(c, f) BY DEF Ready
<1> QED BY <1>1, DmaStaysSame

\* The channel is done with its list.
LEMMA IntrCompleteSame == ASSUME DmaSafe, dma.flaw = "none", IntrComplete PROVE DmaSame
<1>1. UNCHANGED <<ch, env>> /\ dma.chan.st = "cplt" /\ IsCh(ch) /\ Ready(ch, dma)
  BY DmaKnown DEF IntrComplete, Keep
<1>2. PICK b : b = dma /\ Tidy(b) BY DmaKnown
<1>3. ch.st # "halted" BY <1>1 DEF Ready
<1>4. PICK c : c = ch /\ ch' = c /\ IsCh(c) /\ c.st # "halted" BY <1>1, <1>3
<1>5. CASE ~CheckDone(dma)
  <2>1. PICK f : f = ExecCont(b) OBVIOUS
  <2>2. View(b, f) /\ dma' = f
    BY <1>2, <1>5, <2>1, ExecContKeeps DEF IntrComplete
  <2>3. View(dma, f) /\ dma.chan.st # "off" BY <1>1, <1>2, <2>2
  <2> QED BY <1>1, <2>2, <2>3, ChannelMoves
<1>6. CASE CheckDone(dma)
  <2>1. PICK d : d = ChanOff(dma, "done") OBVIOUS
  <2>2. /\ SameLine(dma, d) /\ Tidy(d) /\ d.parse = 1 /\ d.running = FALSE
        /\ d.chan.st = "off" /\ d.flaw = "none" /\ d.exec >= 0 /\ ch.ep.type \in Kinds
    <3>1. dma.chan.st # "off" BY <1>1
    <3> QED BY <2>1, <3>1, MarkedIs, ZenonT(60)
  <2>3. CASE ch.conn
    <3>1. PICK x : x = DmaExec(d) OBVIOUS
    <3>2. /\ SameLine(d, x) /\ x.parse = d.parse /\ x.flaw = d.flaw
          /\ ((d.running => d.exec > 0) => (x.running => x.exec > 0))
          /\ ((d.chan.st # "off" => d.running) => (x.chan.st # "off" => x.running))
      BY <2>2, <3>1, DmaExecKeeps
    <3>3. Tidy(x) /\ x.parse = 1 /\ (x.running => x.exec > 0) /\ (x.chan.st # "off" => x.running)
      BY <2>2, <3>2 DEF SameLine
    <3>4. PICK y : y = DmaParse(x) OBVIOUS
    <3>5. /\ SameLine(x, y) /\ y.exec = x.exec /\ y.running = x.running /\ y.chan = x.chan
          /\ (y.flaw = "none" => x.flaw = "none" /\ y.parse = 0) /\ Tidy(y)
      BY <3>3, <3>4, ParsedIs
    <3>6. PICK z : z = FillOne(y) OBVIOUS
    <3>7. /\ SameLine(y, z) /\ z.exec >= y.exec /\ z.parse = y.parse /\ z.running = y.running
          /\ z.chan = y.chan /\ (z.flaw = "none" => y.flaw = "none")
      BY <2>2, <3>5, <3>6, FillOneKeeps
    <3>8. dma' = z
      BY <1>1, <1>6, <2>1, <2>3, <3>1, <3>4, <3>6 DEF IntrComplete
    <3>9. SameLine(dma, z) BY <2>2, <3>2, <3>5, <3>7, LinesFollow
    <3>10. z.running => z.exec > 0
      <4>1. x.exec \in Nat /\ z.exec \in Nat
        BY <3>3, <3>7 DEF SameLine, Tidy, Turns
      <4> QED BY <3>3, <3>5, <3>7, <4>1
    <3>11. (z.chan.st # "off" => z.running) /\ (z.flaw = "none" => z.parse = 0)
      BY <3>3, <3>5, <3>7
    <3> QED BY <1>1, <1>4, <2>2, <3>8, <3>9, <3>10, <3>11, PipeMoves
  <2>4. CASE ~ch.conn
    <3>1. PICK y : y = DmaParse(d) OBVIOUS
    <3>2. /\ SameLine(d, y) /\ y.exec = d.exec /\ y.running = d.running /\ y.chan = d.chan
          /\ (y.flaw = "none" => d.flaw = "none" /\ y.parse = 0) /\ Tidy(y)
      BY <2>2, <3>1, ParsedIs
    <3>3. dma' = y BY <1>1, <1>6, <2>1, <2>4, <3>1 DEF IntrComplete
    <3>4. SameLine(dma, y) BY <2>2, <3>2, LinesFollow
    <3> QED BY <1>1, <1>4, <2>2, <3>2, <3>3, <3>4, PipeMoves
  <2> QED BY <2>3, <2>4
<1> QED BY <1>5, <1>6

\* A pipe that is halted is still a pipe.
LEMMA HaltsKeepsShape ==
    ASSUME IsCh(ch)
    PROVE  LET c == [ch EXCEPT !.st = "halted"]
               g == [ch EXCEPT !.st = "halted", !.waits = FALSE]
           IN  /\ IsCh(c) /\ c.ep = ch.ep /\ c.st = "halted"
               /\ IsCh(g) /\ g.ep = ch.ep /\ g.st = "halted"
<1>1. PICK c : c = [ch EXCEPT !.st = "halted"] OBVIOUS
<1>2. PICK g : g = [ch EXCEPT !.st = "halted", !.waits = FALSE] OBVIOUS
<1>3. IsCh(c) /\ c.ep = ch.ep /\ c.st = "halted" BY <1>1 DEF IsCh
<1>4. IsCh(g) /\ g.ep = ch.ep /\ g.st = "halted" BY <1>2 DEF IsCh
<1> QED BY <1>1, <1>2, <1>3, <1>4

\* The channel reports an error.
LEMMA IntrErrorSame == ASSUME DmaSafe, dma.flaw = "none", IntrError PROVE DmaSame
<1>1. env' = env /\ dma.chan.st # "off" /\ IsCh(ch)
  BY DmaKnown DEF IntrError, Keep
<1>2. PICK w : w = dma.chan.why OBVIOUS
<1>3. PICK d : d = ChanOff(dma, w) OBVIOUS
<1>4. /\ SameLine(dma, d) /\ Tidy(d) /\ d.parse = 1 /\ d.running = FALSE
      /\ d.chan.st = "off" /\ d.flaw = "none" /\ d.exec >= 0 /\ ch.ep.type \in Kinds
  BY <1>1, <1>3, MarkedIs, ZenonT(60)
<1>5. PICK y : y = DmaParse(d) OBVIOUS
<1>6. /\ SameLine(d, y) /\ y.exec = d.exec /\ y.running = d.running /\ y.chan = d.chan
      /\ (y.flaw = "none" => d.flaw = "none" /\ y.parse = 0) /\ Tidy(y)
  BY <1>4, <1>5, ParsedIs
<1>7. PICK z : z = IF ch.waits THEN Wrong(y, "waits") ELSE y OBVIOUS
<1>8. dma' = z BY <1>2, <1>3, <1>5, <1>7 DEF IntrError
<1>9. /\ SameLine(y, z) /\ z.chan = y.chan /\ z.running = y.running
      /\ (z.flaw = "none" => z.parse = 0)
  <2>1. CASE ch.waits
    <3>1. z = Wrong(y, "waits") BY <1>7, <2>1
    <3>2. SameLine(y, z) /\ z.chan = y.chan /\ z.running = y.running /\ z.flaw # "none"
      BY <1>6, <3>1, WrongKeeps
    <3> QED BY <3>2
  <2>2. CASE ~ch.waits BY <1>6, <1>7, <2>2 DEF SameLine, NoneIdle
  <2> QED BY <2>1, <2>2
<1>10. SameLine(dma, z) /\ z.chan.st = "off" /\ z.running = FALSE
  BY <1>4, <1>6, <1>9, LinesFollow
<1>11. PICK c : c = [ch EXCEPT !.st = "halted"] /\ IsCh(c) /\ c.ep = ch.ep
  BY <1>1, HaltsKeepsShape
<1>12. ch' = c BY <1>11 DEF IntrError
<1> QED BY <1>1, <1>4, <1>8, <1>9, <1>10, <1>11, <1>12, PipeMoves

\* The channel has halted as it was told to.
LEMMA IntrHaltedSame == ASSUME DmaSafe, dma.flaw = "none", IntrHalted PROVE DmaSame
<1>1. env' = env /\ dma.chan.st # "off" /\ IsCh(ch)
  BY DmaKnown DEF IntrHalted, Keep
<1>2. PICK d : d = ChanOff(dma, "canceled") OBVIOUS
<1>3. /\ SameLine(dma, d) /\ Tidy(d) /\ d.parse = 1 /\ d.running = FALSE
      /\ d.chan.st = "off" /\ d.flaw = "none" /\ d.exec >= 0 /\ ch.ep.type \in Kinds
  BY <1>1, <1>2, MarkedIs, ZenonT(60)
<1>4. PICK y : y = DmaParse(d) OBVIOUS
<1>5. /\ SameLine(d, y) /\ y.exec = d.exec /\ y.running = d.running /\ y.chan = d.chan
      /\ (y.flaw = "none" => d.flaw = "none" /\ y.parse = 0) /\ Tidy(y)
  BY <1>3, <1>4, ParsedIs
<1>6. dma' = y BY <1>2, <1>4 DEF IntrHalted
<1>7. SameLine(dma, y) /\ y.chan.st = "off" /\ y.running = FALSE
  BY <1>3, <1>5, LinesFollow
<1>8. PICK c : c = [ch EXCEPT !.st = "halted", !.waits = FALSE] /\ IsCh(c) /\ c.ep = ch.ep
  BY <1>1, HaltsKeepsShape
<1>9. ch' = c BY <1>8 DEF IntrHalted
<1> QED BY <1>1, <1>3, <1>5, <1>6, <1>7, <1>8, <1>9, PipeMoves

-----------------------------------------------------------------------------
(* The steps of the port and of the commands *)

\* Nothing happens to a pipe.
LEMMA StaysSame == ASSUME NEW d, Tidy(d) PROVE SameLine(d, d)
BY DEF SameLine, NoneIdle

\* Only the pipe's record changes.
LEMMA RecordMoves ==
    ASSUME DmaSafe, dma' = dma, env' = env, NEW c, ch' = c, IsCh(c),
           c.st = "halted" => ch.st = "halted", c.ep.type \in Kinds \/ c.st = ch.st,
           c.ep.type = ch.ep.type \/ c.ep.type \in Kinds
    PROVE  DmaSame
<1>1. PICK d : d = dma /\ Tidy(d) /\ Ready(ch, d) BY DmaKnown
<1>2. SameLine(dma, d) /\ dma' = d BY <1>1, StaysSame
<1>3. Ready(c, d) BY <1>1 DEF Ready
<1> QED BY <1>2, <1>3, DmaStaysSame

\* hcd_pipe_alloc() begins without a transfer.
LEMMA PipeAllocSame ==
    ASSUME DmaSafe, NEW e \in env.pipes, NEW i \in env.index, PipeAlloc(e, i) PROVE DmaSame
<1>1. IsCh(ch) /\ env \in Environments BY DmaKnown DEF DmaSafe
<1>2. /\ e = [type |-> e.type, in |-> e.in, mps |-> e.mps, bInterval |-> e.bInterval,
              speed |-> e.speed, port |-> e.port]
      /\ e.type \in Kinds
  <2>1. e \in [type : {"ctrl", "bulk", "intr", "isoc"}, in : BOOLEAN,
               mps : Nat \ {0}, bInterval : Nat,
               speed : {"low", "full", "high"}, port : {"low", "full", "high"}]
    BY <1>1, EnvironmentsAreTyped
  <2> QED BY <2>1 DEF Kinds
<1>3. PICK v, o : v = IntervalOf(e) /\ o = IF IntervalOf(e) = 0 THEN 0
                                          ELSE (i % ListLen(e)) % IntervalOf(e)
  OBVIOUS
<1>4. PICK c : c = [ch EXCEPT !.st = "active", !.ep = e, !.interval = v, !.offset = o]
  OBVIOUS
<1>5. IsCh(c) /\ c.ep = e /\ c.st = "active" BY <1>1, <1>2, <1>4 DEF IsCh
<1>6. ch' = c /\ dma' = dma /\ env' = env BY <1>3, <1>4 DEF PipeAlloc
<1> QED BY <1>2, <1>5, <1>6, RecordMoves

\* hcd_pipe_free() ends without a transfer.
LEMMA PipeFreeSame == ASSUME DmaSafe, PipeFree PROVE DmaSame
<1>1. IsCh(ch) /\ ch.ep.type \in Kinds BY DmaKnown DEF Ready, PipeFree
<1>2. PICK c : c = [ch EXCEPT !.st = "none"] OBVIOUS
<1>3. IsCh(c) /\ c.ep = ch.ep /\ c.st = "none" BY <1>1, <1>2 DEF IsCh
<1>4. ch' = c /\ dma' = dma /\ env' = env BY <1>2 DEF PipeFree
<1> QED BY <1>1, <1>3, <1>4, RecordMoves

\* hcd_pipe_update_mps() moves no transfer.
LEMMA UpdateMpsSame == ASSUME DmaSafe, NEW n \in env.mps, UpdateMps(n) PROVE DmaSame
<1>1. IsCh(ch) /\ ch.ep.type \in Kinds BY DmaKnown DEF Ready, UpdateMps
<1>2. PICK p : p = [ch.ep EXCEPT !.mps = n] OBVIOUS
<1>3. /\ p = [type |-> p.type, in |-> p.in, mps |-> p.mps, bInterval |-> p.bInterval,
              speed |-> p.speed, port |-> p.port]
      /\ p.type = ch.ep.type
  <2>1. PICK q : q = ch.ep OBVIOUS
  <2>2. q = [type |-> q.type, in |-> q.in, mps |-> q.mps, bInterval |-> q.bInterval,
             speed |-> q.speed, port |-> q.port]
    BY <1>1, <2>1 DEF IsCh
  <2>3. p = [q EXCEPT !.mps = n] BY <1>2, <2>1
  <2> QED BY <2>1, <2>2, <2>3
<1>4. PICK c : c = [ch EXCEPT !.ep = p] OBVIOUS
<1>5. IsCh(c) /\ c.ep = p /\ c.st = ch.st BY <1>1, <1>3, <1>4 DEF IsCh
<1>6. ch' = c /\ dma' = dma /\ env' = env BY <1>2, <1>4 DEF UpdateMps
<1> QED BY <1>1, <1>3, <1>5, <1>6, RecordMoves

\* What happens to the port moves no transfer.
LEMMA PortSame == ASSUME DmaSafe, PortSuspend \/ PortLost PROVE DmaSame
<1>1. IsCh(ch) BY DmaKnown
<1>2. PICK s : s = ~ch.asleep OBVIOUS
<1>3. PICK c : c = [ch EXCEPT !.asleep = s] OBVIOUS
<1>4. PICK g : g = [ch EXCEPT !.conn = FALSE, !.asleep = FALSE] OBVIOUS
<1>5. IsCh(c) /\ c.ep = ch.ep /\ c.st = ch.st BY <1>1, <1>3 DEF IsCh
<1>6. IsCh(g) /\ g.ep = ch.ep /\ g.st = ch.st BY <1>1, <1>4 DEF IsCh
<1>7. dma' = dma /\ env' = env /\ (ch' = c \/ ch' = g)
  BY <1>2, <1>3, <1>4 DEF PortSuspend, PortLost, Keep
<1> QED BY <1>5, <1>6, <1>7, RecordMoves

\* _pipe_cmd_halt() moves no transfer.
LEMMA PipeHaltSame == ASSUME DmaSafe, dma.flaw = "none", PipeHalt PROVE DmaSame
<1>1. IsCh(ch) /\ ch.ep.type \in Kinds /\ env' = env /\ ch.st = "active"
  BY DmaKnown DEF Ready, PipeHalt, Keep
<1>2. CASE ch.conn /\ dma.chan.st # "off"
  <2>1. PICK c : c = [ch EXCEPT !.waits = TRUE] OBVIOUS
  <2>2. IsCh(c) /\ c.ep = ch.ep /\ c.st = ch.st BY <1>1, <2>1 DEF IsCh
  <2>3. ch' = c /\ dma' = dma BY <1>2, <2>1 DEF PipeHalt
  <2> QED BY <1>1, <2>2, <2>3, RecordMoves
<1>3. CASE ~(ch.conn /\ dma.chan.st # "off")
  <2>1. PICK d : d = dma /\ Tidy(d) /\ Ready(ch, d) BY DmaKnown
  <2>2. PICK n : n = NoChan /\ IsChan(n) /\ n.st = "off"
    <3>1. IsChan(NoChan) /\ NoChan.st = "off" BY DEF IsChan, NoChan
    <3> QED BY <3>1
  <2>3. PICK f : f = [d EXCEPT !.chan = n] OBVIOUS
  <2>4. View(d, f) /\ f.chan = n BY <2>1, <2>2, <2>3, ChanKeeps
  <2>5. dma' = f /\ ch' = [ch EXCEPT !.st = "halted"]
    BY <1>3, <2>1, <2>2, <2>3 DEF PipeHalt
  <2>6. PICK c : c = [ch EXCEPT !.st = "halted"] /\ IsCh(c) /\ c.ep = ch.ep
    BY <1>1, HaltsKeepsShape
  <2>7. SameLine(dma, f) /\ f.chan.st = "off" /\ (f.running => f.exec > 0) /\ f.parse = 0
    BY <2>1, <2>2, <2>4 DEF View, Ready
  <2> QED BY <1>1, <2>5, <2>6, <2>7, PipeMoves
<1> QED BY <1>2, <1>3

\* _pipe_cmd_clear() moves no transfer.
LEMMA PipeClearSame == ASSUME DmaSafe, dma.flaw = "none", PipeClear PROVE DmaSame
<1>1. IsCh(ch) /\ ch.ep.type \in Kinds /\ env' = env
  BY DmaKnown DEF Ready, PipeClear, Keep
<1>2. PICK d : d = dma /\ Tidy(d) /\ Ready(ch, d) BY DmaKnown
<1>3. PICK x : x = FillOne(d) OBVIOUS
<1>4. /\ SameLine(d, x) /\ x.exec >= d.exec /\ x.parse = d.parse /\ x.running = d.running
      /\ x.chan = d.chan
  BY <1>1, <1>2, <1>3, FillOneKeeps
<1>5. PICK y : y = FillOne(x) OBVIOUS
<1>6. Tidy(x) BY <1>4 DEF SameLine
<1>7. /\ SameLine(x, y) /\ y.exec >= x.exec /\ y.parse = x.parse /\ y.running = x.running
      /\ y.chan = x.chan
  BY <1>1, <1>5, <1>6, FillOneKeeps
<1>8. Tidy(y) BY <1>7 DEF SameLine
<1>9. PICK z : z = DmaExec(y) OBVIOUS
<1>10. /\ SameLine(y, z) /\ z.parse = y.parse
       /\ ((y.running => y.exec > 0) => (z.running => z.exec > 0))
       /\ ((y.chan.st # "off" => y.running) => (z.chan.st # "off" => z.running))
  BY <1>8, <1>9, DmaExecKeeps
<1>11. y.running => y.exec > 0
  <2>1. d.exec \in Nat /\ x.exec \in Nat /\ y.exec \in Nat
    BY <1>2, <1>6, <1>8 DEF Tidy, Turns
  <2>2. d.running => d.exec > 0 BY <1>2 DEF Ready
  <2> QED BY <1>4, <1>7, <2>1, <2>2
<1>12. (z.running => z.exec > 0) /\ (z.chan.st # "off" => z.running) /\ z.parse = 0
  BY <1>2, <1>4, <1>7, <1>10, <1>11 DEF Ready
<1>13. SameLine(dma, z) BY <1>2, <1>4, <1>7, <1>10, LinesFollow
<1>14. PICK c : c = [ch EXCEPT !.st = "active"] OBVIOUS
<1>15. IsCh(c) /\ c.ep = ch.ep /\ c.st = "active" BY <1>1, <1>14 DEF IsCh
<1>16. dma' = z /\ ch' = c BY <1>2, <1>3, <1>5, <1>9, <1>14 DEF PipeClear
<1> QED BY <1>1, <1>12, <1>13, <1>15, <1>16, PipeMoves

-----------------------------------------------------------------------------
(* Flushing *)

\* After _buffer_flush_all() both buffers are free.
LEMMA NothingBuffered ==
    ASSUME NEW d, Tidy(d), d.exec = 0, d.parse = 0 PROVE Mid(d) = <<>> /\ d.fill = 2
<1>1. d.exec \in Nat /\ d.parse \in Nat /\ d.fill \in Nat /\ d.fill + d.exec + d.parse = 2
  BY DEF Tidy, Turns
<1>2. d.fill = 2 BY <1>1
<1> QED BY <1>2 DEF Mid

\* What is pending is flushed: it is done.
LEMMA PendingFlushed ==
    ASSUME NEW d, Tidy(d), d.exec = 0, d.parse = 0, NEW why
    PROVE  LET f == FlushPending(d, why)
           IN  /\ SameLine(d, f) /\ f.exec = 0 /\ f.parse = 0 /\ f.running = d.running
               /\ f.chan = d.chan
<1>1. PICK X : X = [u \in Xfer |->
                     IF ~(\E i \in DOMAIN d.pend : d.pend[i] = u) THEN d.xfer[u]
                     ELSE [d.xfer[u] EXCEPT !.st = "done", !.status = Statuses[why]]]
  OBVIOUS
<1>2. PICK q : q = d.done \o d.pend OBVIOUS
<1>3. PICK f : f = [d EXCEPT !.done = q, !.pend = <<>>, !.xfer = X] OBVIOUS
<1>4. f = FlushPending(d, why) BY <1>1, <1>2, <1>3 DEF FlushPending
<1>5. /\ IsDma(d) /\ IsChan(d.chan)
      /\ d.blk = [i \in Slot |-> d.blk[i]] /\ \A i \in Slot : IsBlock(d.blk[i])
      /\ \A u \in Xfer : IsXfer(d.xfer[u])
  BY DEF Tidy, Shape
<1>6. /\ IsDma(f) /\ f.flaw = d.flaw /\ f.chan = d.chan /\ f.pend = <<>> /\ f.done = q
      /\ f.wr = d.wr /\ f.rd = d.rd /\ f.fr = d.fr /\ f.running = d.running
      /\ f.fill = d.fill /\ f.exec = d.exec /\ f.parse = d.parse
      /\ f.blk = d.blk /\ f.xfer = X
  BY <1>5, <1>3 DEF IsDma
<1>7. X = [u \in Xfer |-> X[u]] BY <1>1
<1>8. ASSUME NEW u \in Xfer
      PROVE  IsXfer(X[u]) /\ (X[u].st = "idle" => d.xfer[u].st = "idle")
  <2>1. PICK a : a = d.xfer[u] /\ IsXfer(a) BY <1>5
  <2>2. PICK z : z = Statuses[why] OBVIOUS
  <2>3. PICK b : b = [a EXCEPT !.st = "done", !.status = z] OBVIOUS
  <2>4. IsXfer(b) /\ b.st = "done" BY <2>1, <2>3 DEF IsXfer
  <2>5. PICK y : y = X[u] /\ (y = a \/ y = b) BY <1>1, <2>1, <2>2, <2>3
  <2> QED BY <2>1, <2>4, <2>5
<1>9. PICK a \in Seq(Xfer), c \in Seq(Xfer) : a = d.done /\ c = d.pend
  BY LineIsTyped
<1>10. q \in Seq(Xfer) /\ <<>> \in Seq(Xfer)
  <2>1. a \o c \in Seq(Xfer) /\ <<>> \in Seq(Xfer) BY ConcatProperties
  <2> QED BY <1>9, <1>2, <2>1
<1>11. Shape(f) BY <1>5, <1>6, <1>7, <1>8, <1>10 DEF Tidy, Shape
<1>12. Turns(f) BY <1>6 DEF Tidy, Turns
<1>13. Mid(d) = <<>> /\ Mid(f) = <<>> BY <1>6, NothingBuffered DEF Mid
<1>14. Line(f) = Line(d)
  <2>1. q \o <<>> = q /\ a \o <<>> = a BY <1>10, ConcatEmptySeq
  <2>2. (q \o <<>>) \o <<>> = q /\ (a \o <<>>) \o c = q BY <1>9, <1>2, <2>1
  <2> QED BY <1>6, <1>9, <1>13, <2>2 DEF Line
<1>15. NoneIdle(d, f) BY <1>6, <1>8 DEF NoneIdle
<1> QED BY <1>6, <1>11, <1>12, <1>14, <1>15, <1>4 DEF SameLine, Tidy

\* _pipe_cmd_flush() makes all of them done, in their order.
LEMMA PipeFlushSame == ASSUME DmaSafe, dma.flaw = "none", PipeFlush PROVE DmaSame
<1>1. /\ IsCh(ch) /\ ch.ep.type \in Kinds /\ env' = env /\ ch' = ch /\ ch.st = "halted"
      /\ dma.chan.st = "off"
  BY DmaKnown DEF Ready, PipeFlush, Keep
<1>2. PICK b : b = dma /\ Tidy(b) /\ Ready(ch, b) BY DmaKnown
<1>3. PICK why : why = (IF ch.conn THEN "canceled" ELSE "gone") /\ why # "bna"
  OBVIOUS
<1>4. PICK d : d = FlushBuffers(b, why) OBVIOUS
<1>5. b.parse = 0 /\ (b.running => b.exec > 0) BY <1>2 DEF Ready
<1>6. /\ SameLine(b, d) /\ d.exec = 0 /\ d.parse = 0 /\ d.chan = b.chan /\ ~d.running
      /\ Tidy(d)
  BY <1>2, <1>3, <1>4, <1>5, FlushKeeps DEF SameLine
<1>7. PICK f : f = FlushPending(d, why) OBVIOUS
<1>8. SameLine(d, f) /\ f.parse = 0 /\ f.running = d.running /\ f.chan = d.chan
  BY <1>6, <1>7, PendingFlushed
<1>9. dma' = f BY <1>2, <1>3, <1>4, <1>7 DEF PipeFlush
<1>10. SameLine(dma, f) BY <1>2, <1>6, <1>8, LinesFollow
<1>11. PICK c : c = ch /\ ch' = c /\ IsCh(c) BY <1>1
<1> QED BY <1>1, <1>2, <1>6, <1>8, <1>9, <1>10, <1>11, PipeMoves

-----------------------------------------------------------------------------
(* Submitting and returning *)

\* A transfer that is enqueued is the last of the pipe, and was not in it.
LEMMA AppendedIs ==
    ASSUME NEW d, DmaGood(d), NEW u \in Xfer, d.xfer[u].st = "idle", NEW t, NEW f,
           f = Submitted(d, u, t)
    PROVE  /\ DmaGood(f) /\ Line(f) = Append(Line(d), u) /\ Line(d) \in Seq(Xfer)
           /\ \A i \in DOMAIN Line(d) : Line(d)[i] # u
           /\ f.exec = d.exec /\ f.parse = d.parse /\ f.running = d.running /\ f.chan = d.chan
           /\ f.flaw = d.flaw
<1>1. /\ IsDma(d) /\ IsChan(d.chan) /\ Tidy(d)
      /\ d.blk = [i \in Slot |-> d.blk[i]] /\ \A i \in Slot : IsBlock(d.blk[i])
      /\ d.xfer = [v \in Xfer |-> d.xfer[v]] /\ \A v \in Xfer : IsXfer(d.xfer[v])
  BY DEF DmaGood, Tidy, Shape
<1>2. PICK x : x = [st |-> "pending", t |-> t, moved |-> <<>>, status |-> "none",
                    actual |-> 0, pkts |-> <<>>]
  OBVIOUS
<1>3. IsXfer(x) /\ x.st = "pending" BY <1>2 DEF IsXfer
<1>4. PICK X : X = [d.xfer EXCEPT ![u] = x] OBVIOUS
<1>5. X = [v \in Xfer |-> X[v]] /\ X[u] = x /\ \A v \in Xfer \ {u} : X[v] = d.xfer[v]
  BY <1>1, <1>4
<1>6. PICK s : s = Append(d.pend, u) OBVIOUS
<1>7. f = [d EXCEPT !.pend = s, !.hasUrb = TRUE, !.xfer = X]
  BY <1>4, <1>6, <1>2 DEF Submitted
<1>8. /\ IsDma(f) /\ f.flaw = d.flaw /\ f.chan = d.chan /\ f.pend = s /\ f.done = d.done
      /\ f.wr = d.wr /\ f.rd = d.rd /\ f.fr = d.fr /\ f.running = d.running
      /\ f.fill = d.fill /\ f.exec = d.exec /\ f.parse = d.parse
      /\ f.blk = d.blk /\ f.xfer = X
  BY <1>1, <1>7 DEF IsDma
<1>9. PICK a \in Seq(Xfer), b \in Seq(Xfer), c \in Seq(Xfer) :
         a = d.done /\ b = Mid(d) /\ c = d.pend
  BY <1>1, LineIsTyped
<1>10. s \in Seq(Xfer)
  <2>1. Append(c, u) \in Seq(Xfer) BY AppendProperties
  <2> QED BY <1>6, <1>9, <2>1
<1>11. Shape(f)
  <2>1. \A v \in Xfer : IsXfer(X[v]) BY <1>1, <1>5, <1>3
  <2> QED BY <1>1, <1>5, <1>8, <1>10, <2>1 DEF Tidy, Shape
<1>12. Turns(f) BY <1>1, <1>8 DEF Tidy, Turns
<1>13. Mid(f) = Mid(d) BY <1>8 DEF Mid
<1>14. PICK ab \in Seq(Xfer) : ab = a \o b BY ConcatProperties
<1>15. PICK l \in Seq(Xfer) : l = ab \o c /\ l = Line(d)
  <2>1. ab \o c \in Seq(Xfer) BY ConcatProperties
  <2> QED BY <1>9, <1>14, <2>1 DEF Line
<1>16. Line(f) = Append(l, u)
  <2>1. Append(l, u) = l \o <<u>> /\ Append(c, u) = c \o <<u>> /\ <<u>> \in Seq(Xfer)
    BY AppendIsConcat
  <2>2. (ab \o c) \o <<u>> = ab \o (c \o <<u>>)
    BY <2>1, ConcatAssociative, SMTT(60)
  <2>3. Line(f) = ab \o Append(c, u)
    BY <1>6, <1>8, <1>9, <1>13, <1>14 DEF Line
  <2> QED BY <1>15, <2>1, <2>2, <2>3
<1>17. \A i \in DOMAIN l : l[i] # u BY <1>15 DEF DmaGood, NoneFree
<1>18. /\ DOMAIN Append(l, u) = 1..(Len(l) + 1) /\ DOMAIN l = 1..Len(l) /\ Len(l) \in Nat
       /\ Append(l, u)[Len(l) + 1] = u /\ \A i \in 1..Len(l) : Append(l, u)[i] = l[i]
       /\ Append(l, u) \in Seq(Xfer)
  <2> HIDE <1>15, <1>16
  <2> QED OBVIOUS
<1>19. PICK m \in Seq(Xfer) : m = Append(l, u) /\ m = Line(f)
  BY <1>16, <1>18
<1>20. /\ DOMAIN m = 1..(Len(l) + 1) /\ DOMAIN l = 1..Len(l) /\ Len(l) \in Nat
       /\ m[Len(l) + 1] = u /\ \A i \in 1..Len(l) : m[i] = l[i]
  BY <1>19, <1>18
<1>21. \A i \in DOMAIN m : i = Len(l) + 1 \/ i \in 1..Len(l) BY <1>20
<1>22. \A i, j \in DOMAIN l : l[i] = l[j] => i = j
  BY <1>15 DEF DmaGood, Distinct
<1>23. Distinct(m) BY <1>17, <1>20, <1>21, <1>22 DEF Distinct
<1>24. NoneFree(f)
  <2>1. \A i \in DOMAIN m : X[m[i]].st # "idle"
    <3>1. \A i \in DOMAIN l : d.xfer[l[i]].st # "idle"
      BY <1>15 DEF DmaGood, NoneFree
    <3>2. \A i \in 1..Len(l) : l[i] \in Xfer BY ElementOfSeq
    <3>3. \A i \in 1..Len(l) : l[i] \in Xfer \ {u} /\ d.xfer[l[i]].st # "idle"
      BY <1>17, <1>18, <3>1, <3>2
    <3>4. \A i \in 1..Len(l) : X[l[i]].st # "idle" BY <1>5, <3>3
    <3>5. X[u].st # "idle" BY <1>5, <1>3
    <3> QED BY <1>20, <1>21, <3>5, <3>4
  <2> QED BY <1>8, <1>19, <2>1 DEF NoneFree
<1> QED BY <1>8, <1>11, <1>12, <1>15, <1>16, <1>17, <1>19, <1>23, <1>24 DEF DmaGood, Tidy

\* What the pipe's queue becomes
DmaAccepts(u) ==
    /\ DmaSafe' /\ u \in Xfer /\ DmaQueue \in Seq(Xfer)
    /\ DmaQueue' = Append(DmaQueue, u) /\ \A i \in DOMAIN DmaQueue : DmaQueue[i] # u

\* hcd_urb_enqueue() accepts a transfer that the pipe does not have.
LEMMA UrbEnqueueAccepts ==
    ASSUME DmaSafe, dma.flaw = "none", NEW u \in env.ids, NEW t \in env.xfers, UrbEnqueue(u, t)
    PROVE  DmaAccepts(u)
<1>1. /\ IsCh(ch) /\ ch.ep.type \in Kinds /\ env' = env /\ ch' = ch /\ env \in Environments
      /\ u \in Xfer
  <2>1. env \in Environments /\ u \in Xfer
    BY EnvironmentsAreTyped DEF DmaSafe
  <2> QED BY <2>1, DmaKnown DEF Ready, UrbEnqueue, Keep
<1>2. PICK b : b = dma /\ DmaGood(b) /\ Ready(ch, b) /\ DmaQueue = Line(b) /\ Tidy(b)
  BY DmaKnown
<1>3. PICK d : d = Submitted(b, u, t) OBVIOUS
<1>4. b.xfer[u].st = "idle" BY <1>2 DEF UrbEnqueue
<1>5. /\ DmaGood(d) /\ Line(d) = Append(Line(b), u) /\ Line(b) \in Seq(Xfer)
      /\ \A i \in DOMAIN Line(b) : Line(b)[i] # u
      /\ d.exec = b.exec /\ d.parse = b.parse /\ d.running = b.running /\ d.chan = b.chan
      /\ d.flaw = b.flaw
  BY <1>1, <1>2, <1>3, <1>4, AppendedIs
<1>6. PICK z : z = IF ch.asleep THEN d ELSE DmaExec(FillOne(d)) OBVIOUS
<1>7. dma' = z BY <1>2, <1>3, <1>6 DEF UrbEnqueue
<1>8. b.parse = 0 /\ (b.running => b.exec > 0) /\ (b.chan.st # "off" => b.running)
      /\ (ch.st = "halted" => b.chan.st = "off") /\ (ch.st = "halted" => ch.asleep)
  BY <1>2 DEF Ready, UrbEnqueue
<1>9. /\ DmaGood(z) /\ Line(z) = Line(d) /\ z.parse = 0 /\ (z.running => z.exec > 0)
      /\ (z.chan.st # "off" => z.running) /\ (ch.st = "halted" => z.chan.st = "off")
  <2>1. CASE ch.asleep BY <1>5, <1>6, <1>8, <2>1
  <2>2. CASE ~ch.asleep
    <3>1. PICK y : y = FillOne(d) OBVIOUS
    <3>2. Tidy(d) BY <1>5 DEF DmaGood
    <3>3. /\ SameLine(d, y) /\ y.exec >= d.exec /\ y.parse = d.parse /\ y.running = d.running
          /\ y.chan = d.chan
      BY <1>1, <3>1, <3>2, FillOneKeeps
    <3>4. DmaGood(y) /\ Line(y) = Line(d) /\ Tidy(y)
      BY <1>5, <3>3, GoodStays DEF DmaGood
    <3>5. y.running => y.exec > 0
      <4>1. y.exec \in Nat /\ d.exec \in Nat BY <3>2, <3>4 DEF Tidy, Turns
      <4> QED BY <1>5, <1>8, <3>3, <4>1
    <3>6. z = DmaExec(y) BY <1>6, <2>2, <3>1
    <3>7. /\ SameLine(y, z) /\ z.parse = y.parse
          /\ ((y.running => y.exec > 0) => (z.running => z.exec > 0))
          /\ ((y.chan.st # "off" => y.running) => (z.chan.st # "off" => z.running))
      BY <3>4, <3>6, DmaExecKeeps
    <3>8. DmaGood(z) /\ Line(z) = Line(y) BY <3>4, <3>7, GoodStays
    <3> QED BY <1>5, <1>8, <2>2, <3>3, <3>4, <3>5, <3>7, <3>8
  <2> QED BY <2>1, <2>2
<1>10. Ready(ch, z) BY <1>1, <1>9 DEF Ready
<1>11. PICK c : c = ch /\ ch' = c /\ IsCh(c) /\ Ready(c, z) BY <1>1, <1>10
<1>12. DmaSafe' /\ DmaQueue' = Line(z)
  BY <1>1, <1>7, <1>9, <1>11, DmaBecomes
<1> QED BY <1>1, <1>2, <1>5, <1>9, <1>12 DEF DmaAccepts

\* The tail of three sequences in a row
LEMMA TailIs ==
    ASSUME NEW S, NEW a \in Seq(S), NEW b \in Seq(S), NEW c \in Seq(S), a # <<>>
    PROVE  /\ a \o b \o c # <<>> /\ a \o b \o c \in Seq(S) /\ Head(a) = Head(a \o b \o c)
           /\ Tail(a) \in Seq(S) /\ Tail(a) \o b \o c = Tail(a \o b \o c)
<1>1. a # <<>> /\ Head(a) \in S /\ Tail(a) \in Seq(S) BY HeadTailProperties
<1>2. \A x, y \in Seq(S) : x # <<>> =>
         /\ x \o y \in Seq(S) /\ x \o y # <<>> /\ Head(x \o y) = Head(x)
         /\ Tail(x \o y) = Tail(x) \o y
  <2>1. SUFFICES ASSUME NEW x \in Seq(S), NEW y \in Seq(S), x # <<>>
                 PROVE  /\ x \o y \in Seq(S) /\ x \o y # <<>> /\ Head(x \o y) = Head(x)
                        /\ Tail(x \o y) = Tail(x) \o y
    OBVIOUS
  <2>2. x \o y \in Seq(S) /\ x \o y # <<>>
    BY <2>1, ConcatProperties, ConcatEqualIffEmpty
  <2> QED BY <2>1, <2>2
<1>3. PICK ab \in Seq(S) : ab = a \o b /\ ab # <<>> /\ Head(ab) = Head(a)
                           /\ Tail(ab) = Tail(a) \o b
  BY <1>1, <1>2
<1> QED BY <1>1, <1>2, <1>3, ZenonT(60)

\* The first transfer of the pipe is returned.
DmaReturns ==
    /\ DmaSafe' /\ DmaQueue \in Seq(Xfer) /\ DmaQueue # <<>> /\ DmaQueue' = Tail(DmaQueue)

\* A transfer that is dequeued was the first of the pipe.
LEMMA ReturnedIs ==
    ASSUME NEW d, DmaGood(d), d.done # <<>>, NEW f, f = Taken(d)
    PROVE  /\ DmaGood(f) /\ Line(d) \in Seq(Xfer) /\ Line(d) # <<>> /\ Line(f) = Tail(Line(d))
           /\ f.exec = d.exec /\ f.parse = d.parse /\ f.running = d.running /\ f.chan = d.chan
           /\ f.flaw = d.flaw /\ f.pend = d.pend
<1>1. /\ IsDma(d) /\ IsChan(d.chan) /\ Tidy(d)
      /\ d.blk = [i \in Slot |-> d.blk[i]] /\ \A i \in Slot : IsBlock(d.blk[i])
      /\ d.xfer = [v \in Xfer |-> d.xfer[v]] /\ \A v \in Xfer : IsXfer(d.xfer[v])
  BY DEF DmaGood, Tidy, Shape
<1>2. PICK a \in Seq(Xfer), b \in Seq(Xfer), c \in Seq(Xfer) :
         a = d.done /\ b = Mid(d) /\ c = d.pend
  BY <1>1, LineIsTyped
<1>3. PICK l \in Seq(Xfer) : l = Line(d) /\ l = a \o b \o c /\ l # <<>> /\ Head(l) = Head(a)
                             /\ Tail(l) = Tail(a) \o b \o c /\ Tail(a) \in Seq(Xfer)
  BY <1>2, TailIs DEF Line
<1>4. PICK u \in Xfer : u = Head(d.done) /\ u = Head(l)
  BY <1>2, <1>3, HeadTailProperties
<1>5. l \in Seq(Xfer) /\ l # <<>> BY <1>3
<1>6. PICK X : X = [d.xfer EXCEPT ![u] = IdleXfer] OBVIOUS
<1>7. X = [v \in Xfer |-> X[v]] /\ X[u] = IdleXfer /\ \A v \in Xfer \ {u} : X[v] = d.xfer[v]
  BY <1>1, <1>6
<1>8. PICK s \in Seq(Xfer) : s = Tail(d.done) /\ s = Tail(a) BY <1>2, <1>3
<1>9. PICK h : h = ~(d.pend = <<>> /\ Len(d.done) = 1 /\ d.exec = 0 /\ d.parse = 0)
  OBVIOUS
<1>10. f = [d EXCEPT !.done = s, !.xfer = X, !.hasUrb = h]
  BY <1>4, <1>6, <1>8, <1>9 DEF Taken
<1>11. /\ IsDma(f) /\ f.flaw = d.flaw /\ f.chan = d.chan /\ f.pend = d.pend /\ f.done = s
       /\ f.wr = d.wr /\ f.rd = d.rd /\ f.fr = d.fr /\ f.running = d.running
       /\ f.fill = d.fill /\ f.exec = d.exec /\ f.parse = d.parse
       /\ f.blk = d.blk /\ f.xfer = X
  BY <1>1, <1>10 DEF IsDma
<1>12. Shape(f)
  <2>1. IsXfer(IdleXfer) BY DEF IsXfer, IdleXfer
  <2>2. \A v \in Xfer : IsXfer(X[v]) BY <1>1, <1>7, <2>1
  <2> QED BY <1>1, <1>7, <1>8, <1>11, <2>2 DEF Tidy, Shape
<1>13. Turns(f) BY <1>1, <1>11 DEF Tidy, Turns
<1>14. Mid(f) = Mid(d) BY <1>11 DEF Mid
<1>15. PICK m \in Seq(Xfer) : m = Tail(l) /\ m = Line(f)
  <2>1. Tail(l) \in Seq(Xfer) BY <1>3, HeadTailProperties
  <2> QED BY <1>2, <1>3, <1>8, <1>11, <1>14, <2>1 DEF Line
<1>16. /\ DOMAIN l = 1..Len(l) /\ Len(l) \in Nat /\ Head(l) = l[1]
       /\ DOMAIN Tail(l) = 1..(Len(l) - 1)
       /\ \A i \in 1..(Len(l) - 1) : Tail(l)[i] = l[i + 1]
  BY <1>5
<1>17. Len(l) # 0 BY <1>5
<1>18. \A i \in 1..(Len(l) - 1) : i \in Nat /\ i + 1 \in 1..Len(l) /\ i + 1 # 1
  BY <1>16
<1>19. /\ DOMAIN l = 1..Len(l) /\ Len(l) \in Nat /\ DOMAIN m = 1..(Len(l) - 1)
       /\ u = l[1] /\ \A i \in 1..(Len(l) - 1) : m[i] = l[i + 1] /\ i + 1 \in 1..Len(l)
                                                 /\ i + 1 # 1
  BY <1>4, <1>15, <1>16, <1>18
<1>20. \A i, j \in 1..Len(l) : l[i] = l[j] => i = j
  BY <1>3, <1>19 DEF DmaGood, Distinct
<1>21. Distinct(m)
  <2>1. \A i, j \in 1..(Len(l) - 1) : m[i] = m[j] => i + 1 = j + 1
    BY <1>19, <1>20, ZenonT(60)
  <2>2. \A i, j \in 1..(Len(l) - 1) : i + 1 = j + 1 => i = j BY <1>18
  <2> QED BY <1>19, <2>1, <2>2 DEF Distinct
<1>22. NoneFree(f)
  <2>1. \A i \in 1..(Len(l) - 1) : m[i] \in Xfer \ {u} /\ d.xfer[m[i]].st # "idle"
    <3>1. \A i \in DOMAIN l : d.xfer[l[i]].st # "idle"
      BY <1>3 DEF DmaGood, NoneFree
    <3>2. \A i \in 1..Len(l) : l[i] \in Xfer BY ElementOfSeq
    <3>3. \A i \in 1..Len(l) : d.xfer[l[i]].st # "idle" /\ l[i] \in Xfer
      BY <1>16, <3>1, <3>2
    <3>4. 1 \in 1..Len(l) BY <1>16, <1>17
    <3>5. \A i \in 1..(Len(l) - 1) : l[i + 1] # u BY <1>19, <1>20, <3>4
    <3>6. \A i \in 1..(Len(l) - 1) : l[i + 1] \in Xfer \ {u} /\ d.xfer[l[i + 1]].st # "idle"
      BY <1>18, <3>3, <3>5
    <3> QED BY <1>19, <3>6
  <2> QED BY <1>7, <1>11, <1>15, <1>19, <2>1, SMTT(60) DEF NoneFree
<1> QED BY <1>3, <1>11, <1>12, <1>13, <1>15, <1>21, <1>22 DEF DmaGood, Tidy

\* hcd_urb_dequeue() returns the first transfer.
LEMMA UrbDequeueReturns == ASSUME DmaSafe, dma.flaw = "none", UrbDequeue PROVE DmaReturns
<1>1. IsCh(ch) /\ env' = env /\ ch' = ch /\ env \in Environments
  BY DmaKnown DEF UrbDequeue, Keep, DmaSafe
<1>2. PICK b : b = dma /\ DmaGood(b) /\ Ready(ch, b) /\ DmaQueue = Line(b)
  BY DmaKnown
<1>3. PICK f : f = Taken(b) OBVIOUS
<1>4. dma' = f /\ b.done # <<>> BY <1>2, <1>3 DEF UrbDequeue
<1>5. /\ DmaGood(f) /\ Line(b) \in Seq(Xfer) /\ Line(b) # <<>> /\ Line(f) = Tail(Line(b))
      /\ f.exec = b.exec /\ f.parse = b.parse /\ f.running = b.running /\ f.chan = b.chan
      /\ f.flaw = b.flaw /\ f.pend = b.pend
  BY <1>2, <1>3, <1>4, ReturnedIs
<1>6. Ready(ch, f) BY <1>2, <1>5 DEF Ready
<1>7. PICK c : c = ch /\ ch' = c /\ IsCh(c) /\ Ready(c, f) BY <1>1, <1>6
<1>8. DmaSafe' /\ DmaQueue' = Line(f) BY <1>1, <1>4, <1>5, <1>7, DmaBecomes
<1> QED BY <1>2, <1>5, <1>8 DEF DmaReturns

-----------------------------------------------------------------------------
(* Every step *)

\* Nobody aborts a transfer that is pending.
NoneAborted == \A e \in Environments : "abort" \notin e.uses

\* A pipe that is not allocated holds nothing.
LEMMA DmaInitSafe ==
    ASSUME DmaInit, env \in Environments
    PROVE  DmaSafe /\ DmaQueue = <<>>
<1>1. PICK d : d = dma OBVIOUS
<1>2. /\ d.pend = <<>> /\ d.done = <<>> /\ d.fill = 2 /\ d.exec = 0 /\ d.parse = 0
      /\ d.wr = 0 /\ d.rd = 0 /\ d.fr = 0 /\ d.running = FALSE
      /\ d.blk = [i \in Slot |-> NoBlock] /\ d.xfer = [u \in Xfer |-> IdleXfer]
      /\ d.chan = NoChan /\ IsDma(d)
  BY <1>1 DEF DmaInit, IsDma
<1>3. IsBlock(NoBlock) /\ NoBlock.urb = NoXfer /\ IsXfer(IdleXfer) /\ IsChan(NoChan)
      /\ NoChan.st = "off"
  BY DEF IsBlock, NoBlock, IsXfer, IdleXfer, IsChan, NoChan
<1>4. Shape(d)
  <2>1. d.pend \in Seq(Xfer) /\ d.done \in Seq(Xfer) BY <1>2
  <2> QED BY <1>2, <1>3, <2>1 DEF Shape, Slot
<1>5. Turns(d)
  <2>1. (0 + 2) % 2 = 0 /\ (0 + 0) % 2 = 0 OBVIOUS
  <2> QED BY <1>2, <1>3, <2>1 DEF Turns
<1>6. Line(d) = <<>>
  <2>1. Mid(d) = <<>> BY <1>2 DEF Mid
  <2>2. <<>> \o <<>> \o <<>> = <<>> OBVIOUS
  <2> QED BY <1>2, <2>1, <2>2 DEF Line
<1>7. DmaGood(d)
  <2>1. DOMAIN <<>> = {} OBVIOUS
  <2> QED BY <1>4, <1>5, <1>6, <2>1 DEF DmaGood, Tidy, Distinct, NoneFree
<1>8. IsCh(ch) /\ Ready(ch, d)
  <2>1. IsCh(ch) /\ ch.st = "none" BY DEF DmaInit, IsCh
  <2> QED BY <1>2, <1>3, <2>1 DEF Ready
<1>9. DmaSafe BY <1>1, <1>7, <1>8 DEF DmaSafe
<1> QED BY <1>1, <1>6, <1>9, DmaKnown

\* A step of the pipe with two buffers
LEMMA DmaNextIs ==
    ASSUME NoneAborted, DmaSafe, DmaNext
    PROVE  DmaSame \/ (\E u \in Xfer : DmaAccepts(u)) \/ DmaReturns
<1>1. dma.flaw = "none" /\ env \in Environments BY DEF DmaNext, DmaSafe
<1>2. ~\E u \in env.ids : UrbAbort(u)
  BY <1>1 DEF NoneAborted, UrbAbort, Uses
<1>3. CASE ChannelStep
  BY <1>1, <1>3, ChanStepSame, FrameSame, IntrCompleteSame, IntrErrorSame, IntrHaltedSame
     DEF ChannelStep
<1>4. CASE \E why \in {"xfer", "bbl", "stall"} : ChanFails(why)
  BY <1>4, ChanFailsSame
<1>5. CASE \E e \in env.pipes, i \in env.index : PipeAlloc(e, i)
  BY <1>5, PipeAllocSame
<1>6. CASE PipeFree \/ \E n \in env.mps : UpdateMps(n)
  BY <1>6, PipeFreeSame, UpdateMpsSame
<1>7. CASE \E u \in env.ids, t \in env.xfers : UrbEnqueue(u, t)
  <2>1. env.ids \subseteq Xfer BY <1>1, EnvironmentsAreTyped
  <2> QED BY <1>1, <1>7, <2>1, UrbEnqueueAccepts
<1>8. CASE UrbDequeue BY <1>1, <1>8, UrbDequeueReturns
<1>9. CASE PipeHalt \/ PipeFlush \/ PipeClear \/ PortSuspend \/ PortLost
  BY <1>1, <1>9, PipeHaltSame, PipeFlushSame, PipeClearSame, PortSame
<1> QED BY <1>2, <1>3, <1>4, <1>5, <1>6, <1>7, <1>8, <1>9 DEF DmaNext

\* An endpoint accepts a transfer that none has, or returns its first.
EpAccepts(e, u) ==
    /\ e \in Ep /\ u \in Urb /\ Queue(e)' = Append(Queue(e), u)
    /\ \A f \in Ep \ {e} : Queue(f)' = Queue(f)
    /\ \A f \in Ep : ~In(u, Queue(f))

EpReturns(e) ==
    /\ e \in Ep /\ Queue(e) # <<>> /\ Queue(e)' = Tail(Queue(e))
    /\ \A f \in Ep \ {e} : Queue(f)' = Queue(f)

EpSame == \A f \in Ep : Queue(f)' = Queue(f)

EpChanges == EpSame \/ \E e \in Ep : EpReturns(e) \/ \E u \in Urb : EpAccepts(e, u)

\* usb_host_transfer_submit() adds the transfer to the queue, or refuses it.
LEMMA SubmitChanges == ASSUME EpSafe, NEW t \in Worker, SubmitGoesOn(t) PROVE EpChanges
<1> SUFFICES ASSUME SubmitCloses(t) PROVE EpChanges
  BY SubmitSteps DEF SubmitMoves, EpChanges, EpSame, Queue
<1>1. /\ Enqueuing(t)
      /\ \E e \in Ep, u \in Urb :
            /\ u = task[t].urb
            /\ \/ /\ Queue(e)' = Append(Queue(e), u)
                  /\ \A f \in Ep \ {e} : Queue(f)' = Queue(f)
               \/ EpSame
  BY EnqueueIs DEF EpSame
<1>2. \A f \in Ep : ~In(task[t].urb, Queue(f))
  BY <1>1 DEF EpSafe, UrbsAreOnce
<1> QED BY <1>1, <1>2 DEF EpChanges, EpAccepts

\* usbh_ep_dequeue_urb() takes the first of the queue, if there is one.
LEMMA DequeueChanges == ASSUME EpSafe, HandlerDequeue PROVE EpChanges
<1>1. CASE pipe' = pipe BY <1>1 DEF EpChanges, EpSame, Queue
<1>2. CASE pipe' # pipe
  <2>1. \E e \in Ep : /\ Queue(e) # <<>> /\ Queue(e)' = Tail(Queue(e))
                      /\ \A f \in Ep \ {e} : Queue(f)' = Queue(f)
    BY <1>2, DequeueIs
  <2> QED BY <2>1 DEF EpChanges, EpReturns
<1> QED BY <1>1, <1>2

\* Every step of the endpoints
LEMMA EpNextIs == ASSUME EpSafe, EpNext PROVE EpChanges
<1>1. SamePipes => EpChanges BY DEF SamePipes, EpChanges, EpSame
<1>2. CASE HandlerStep
  BY <1>1, <1>2, HandleEventsSafe, NextEpSafe, HandledEventsSafe, HandlerFlushSafe, NotifySafe,
     DequeueChanges, CallbackReturnsSafe, HandlerCountSafe, SubmitChanges
     DEF HandlerStep, Worker
<1>3. CASE ApiGoesOn
  BY <1>1, <1>3, SubmitChanges, ApiHaltedSafe, NotifySafe, ReleasedSafe, FreeEpSafe
     DEF ApiGoesOn, Worker
<1>4. CASE DaemonStep
  BY <1>1, <1>4, WalkSafe, DmnHaltSafe, DmnClearSafe, DmnHaltedSafe, DmnFlushSafe,
     DmnNotifySafe, WalkEndsSafe, SuspendPortSafe DEF DaemonStep
<1>5. CASE Application
  BY <1>1, <1>5, ClaimSafe, ReleaseSafe, AskSuspendSafe, ApiHaltSafe, ApiFlushSafe,
     ApiClearSafe, SubmitCountSafe DEF Application, Worker
<1>6. CASE Unplug \/ ResumePort BY <1>1, <1>6, UnplugSafe, ResumePortSafe
<1>7. CASE \E e \in Eps : Channel(e) BY <1>1, <1>7, ChannelSafe
<1>8. CASE Ended
  <2>1. UNCHANGED <<epVars, env>> BY <1>8 DEF Ended, fixed
  <2> QED BY <1>1, <2>1, EpUnchangedSafe
<1> QED BY <1>2, <1>3, <1>4, <1>5, <1>6, <1>7, <1>8 DEF EpNext

\* The endpoints have nothing to do with the pipe with two buffers.
LEMMA EpNextKeepsDma == ASSUME EpNext PROVE UNCHANGED <<ch, dma, env>>
<1>1. UNCHANGED fixed => UNCHANGED <<ch, dma, env>> BY DEF fixed, dmaVars
<1>2. CASE HandlerStep
  BY <1>1, <1>2 DEF HandlerStep, HandleEvents, NextEp, HandledEvents, HandlerFlush, Notify,
     HandlerDequeue, CallbackReturns, HandlerCount, SubmitGoesOn, SubmitCheck, SubmitResume,
     SubmitEnqueue
<1>3. CASE ApiGoesOn
  BY <1>1, <1>3, SMTT(60) DEF ApiGoesOn, SubmitGoesOn, SubmitCheck, SubmitResume, SubmitEnqueue,
                               ApiHalted, Notify, Released, FreeEp
<1>4. CASE DaemonStep
  BY <1>1, <1>4, ZenonT(60) DEF DaemonStep, Walk, DmnHalt, DmnClear, DmnHalted, DmnFlush, DmnNotify,
     WalkEnds, SuspendPort
<1>5. CASE Application
  BY <1>1, <1>5 DEF Application, Claim, Release, AskSuspend, ApiHalt, ApiFlush, ApiClear,
     SubmitCount
<1>6. CASE Unplug \/ ResumePort \/ Ended
  BY <1>1, <1>6 DEF Unplug, ResumePort, Ended
<1>7. CASE \E e \in Eps : Channel(e)
  BY <1>1, <1>7 DEF Channel, ChanDone, ChanError, ChanHalted
<1> QED BY <1>2, <1>3, <1>4, <1>5, <1>6, <1>7 DEF EpNext

BothSafe == EpSafe /\ DmaSafe

\* Both kinds of pipe begin without a transfer.
LEMMA BothSafeInit == ASSUME Init PROVE BothSafe
<1>1. DmaInit /\ env \in Environments BY DEF Init
<1> QED BY <1>1, EpSafeInit, DmaInitSafe DEF BothSafe

\* What a step of either does to the other's transfers: nothing.
LEMMA StepIs ==
    ASSUME NoneAborted, BothSafe, [Next]_vars
    PROVE  /\ BothSafe'
           /\ \/ EpChanges /\ DmaQueue' = DmaQueue
              \/ EpSame /\ ((\E u \in Xfer : DmaAccepts(u)) \/ DmaReturns)
<1>1. EpSafe' /\ EpSafe /\ DmaSafe BY EpSafeNext DEF BothSafe
<1>2. CASE EpNext
  <2>1. UNCHANGED <<ch, dma, env>> BY <1>2, EpNextKeepsDma
  <2>2. DmaSafe' /\ DmaQueue' = DmaQueue BY <1>1, <2>1 DEF DmaSafe, DmaQueue
  <2> QED BY <1>1, <1>2, <2>2, EpNextIs DEF BothSafe
<1>3. CASE DmaNext
  <2>1. UNCHANGED <<epVars, env>> BY <1>3, DmaNextKeeps
  <2>2. EpSame BY <2>1 DEF epVars, EpSame, Queue
  <2>3. DmaSame \/ (\E u \in Xfer : DmaAccepts(u)) \/ DmaReturns
    BY <1>1, <1>3, DmaNextIs
  <2> QED BY <1>1, <2>2, <2>3 DEF BothSafe, DmaSame, DmaAccepts, DmaReturns, EpChanges
<1>4. CASE UNCHANGED vars
  <2>1. UNCHANGED <<pipe, ch, dma, env>> BY <1>4 DEF vars, epVars, dmaVars
  <2>2. EpSame BY <2>1 DEF EpSame, Queue
  <2>3. DmaSafe' /\ DmaQueue' = DmaQueue BY <1>1, <2>1 DEF DmaSafe, DmaQueue
  <2> QED BY <1>1, <2>2, <2>3 DEF BothSafe, EpChanges
<1> QED BY <1>2, <1>3, <1>4 DEF Next

-----------------------------------------------------------------------------
(* The promise, in terms of which queue changes *)

Holder == Ep \cup {"dma"}
Queues == [e \in Holder |-> IF e \in Ep THEN Queue(e) ELSE DmaQueue]

\* The queues of the promise are the endpoints' and the pipe's.
LEMMA QueuesAre ==
    /\ Queues = [e \in Holder |-> Queues[e]] /\ Queues' = [e \in Holder |-> Queues'[e]]
    /\ \A e \in Ep : Queues[e] = Queue(e) /\ Queues'[e] = Queue(e)'
    /\ Queues["dma"] = DmaQueue /\ Queues'["dma"] = DmaQueue'
<1>1. "dma" \notin Ep /\ Ep \subseteq Holder /\ "dma" \in Holder
  BY NamesDiffer DEF Holder
<1>2. Queues' = [e \in Holder |-> IF e \in Ep THEN Queue(e)' ELSE DmaQueue']
  BY DEF Queues
<1>3. Queues = [e \in Holder |-> Queues[e]] /\ \A e \in Ep : Queues[e] = Queue(e)
  BY <1>1 DEF Queues
<1>4. Queues["dma"] = DmaQueue BY <1>1 DEF Queues
<1>5. Queues' = [e \in Holder |-> Queues'[e]] /\ \A e \in Ep : Queues'[e] = Queue(e)'
  BY <1>1, <1>2
<1>6. Queues'["dma"] = DmaQueue' BY <1>1, <1>2
<1> QED BY <1>3, <1>4, <1>5, <1>6

\* A pipe holds transfers of its kind.
LEMMA HoldersAre ==
    ASSUME BothSafe
    PROVE  /\ \A e \in Ep : \A i \in DOMAIN Queue(e) : Queue(e)[i] \in Urb
           /\ \A i \in DOMAIN DmaQueue : DmaQueue[i] \in Xfer
<1>1. \A e \in Ep : \A i \in DOMAIN Queue(e) : Queue(e)[i] \in Urb
  BY DEF BothSafe, EpSafe, EpShape, UrbsAreOnce
<1>2. DmaQueue \in Seq(Xfer) BY DmaKnown, LineIsTyped DEF BothSafe
<1> QED BY <1>1, <1>2, ElementOfSeq

\* A function that differs in one place
LEMMA OneChanges ==
    ASSUME NEW q, NEW r, q = [e \in Holder |-> q[e]], r = [e \in Holder |-> r[e]],
           NEW e \in Holder, NEW v, r[e] = v, \A f \in Holder \ {e} : r[f] = q[f]
    PROVE  r = [q EXCEPT ![e] = v]
<1>1. [q EXCEPT ![e] = v] = [f \in Holder |-> IF f = e THEN v ELSE q[f]]
  OBVIOUS
<1>2. \A f \in Holder : r[f] = IF f = e THEN v ELSE q[f] OBVIOUS
<1> QED BY <1>1, <1>2

PromiseStep ==
    \/ Queues' = Queues
    \/ \E e \in Holder :
          \/ Queues[e] # <<>> /\ Queues' = [Queues EXCEPT ![e] = Tail(Queues[e])]
          \/ \E u \in Urb \cup Xfer :
                /\ ~\E f \in Holder : \E i \in DOMAIN Queues[f] : Queues[f][i] = u
                /\ Queues' = [Queues EXCEPT ![e] = Append(Queues[e], u)]

\* Every step keeps the promise.
LEMMA PromiseKept ==
    ASSUME NoneAborted, BothSafe, [Next]_vars
    PROVE  PromiseStep
<1>1. "dma" \notin Ep /\ Holder = Ep \cup {"dma"} /\ Urb \cap Xfer = {}
  BY NamesDiffer DEF Holder
<1>2. PICK q, r : q = Queues /\ r = Queues' OBVIOUS
<1>3. /\ q = [e \in Holder |-> q[e]] /\ r = [e \in Holder |-> r[e]]
      /\ \A e \in Ep : q[e] = Queue(e) /\ r[e] = Queue(e)'
      /\ q["dma"] = DmaQueue /\ r["dma"] = DmaQueue'
  BY <1>2, QueuesAre
<1>4. /\ \A e \in Ep : \A i \in DOMAIN q[e] : q[e][i] \in Urb
      /\ \A i \in DOMAIN q["dma"] : q["dma"][i] \in Xfer
  BY <1>3, HoldersAre
<1>5. CASE EpSame /\ DmaQueue' = DmaQueue
  <2>1. \A e \in Holder : r[e] = q[e] BY <1>1, <1>3, <1>5 DEF EpSame
  <2>2. r = q BY <1>3, <2>1
  <2> QED BY <1>2, <2>2 DEF PromiseStep
<1>6. CASE \E e \in Ep : EpReturns(e) /\ DmaQueue' = DmaQueue
  <2>1. PICK e \in Ep : EpReturns(e) BY <1>6
  <2>2. /\ e \in Holder /\ q[e] # <<>> /\ r[e] = Tail(q[e])
        /\ \A f \in Holder \ {e} : r[f] = q[f]
    BY <1>1, <1>3, <1>6, <2>1 DEF EpReturns
  <2>3. r = [q EXCEPT ![e] = Tail(q[e])] BY <1>3, <2>2, OneChanges
  <2> QED BY <1>2, <2>2, <2>3 DEF PromiseStep
<1>7. CASE \E e \in Ep, u \in Urb : EpAccepts(e, u) /\ DmaQueue' = DmaQueue
  <2>1. PICK e \in Ep, u \in Urb : EpAccepts(e, u) BY <1>7
  <2>2. /\ e \in Holder /\ r[e] = Append(q[e], u)
        /\ \A f \in Holder \ {e} : r[f] = q[f]
    BY <1>1, <1>3, <1>7, <2>1 DEF EpAccepts
  <2>3. r = [q EXCEPT ![e] = Append(q[e], u)] BY <1>3, <2>2, OneChanges
  <2>4. ~\E f \in Holder : \E i \in DOMAIN q[f] : q[f][i] = u
    <3>1. \A f \in Ep : \A i \in DOMAIN q[f] : q[f][i] # u
      BY <1>3, <2>1 DEF EpAccepts, In
    <3>2. \A i \in DOMAIN q["dma"] : q["dma"][i] # u BY <1>1, <1>4
    <3> QED BY <1>1, <3>1, <3>2
  <2>5. /\ ~\E f \in Holder : \E i \in DOMAIN Queues[f] : Queues[f][i] = u
        /\ Queues' = [Queues EXCEPT ![e] = Append(Queues[e], u)]
    BY <1>2, <2>3, <2>4, Zenon
  <2>6. u \in Urb \cup Xfer OBVIOUS
  <2> QED BY <2>2, <2>5, <2>6, Zenon DEF PromiseStep
<1>8. CASE EpSame /\ \E u \in Xfer : DmaAccepts(u)
  <2>1. PICK u \in Xfer : DmaAccepts(u) BY <1>8
  <2>2. /\ "dma" \in Holder /\ r["dma"] = Append(q["dma"], u)
        /\ \A f \in Holder \ {"dma"} : r[f] = q[f]
    BY <1>1, <1>3, <1>8, <2>1 DEF DmaAccepts, EpSame
  <2>3. r = [q EXCEPT !["dma"] = Append(q["dma"], u)]
    BY <1>3, <2>2, OneChanges
  <2>4. ~\E f \in Holder : \E i \in DOMAIN q[f] : q[f][i] = u
    <3>1. \A f \in Ep : \A i \in DOMAIN q[f] : q[f][i] # u BY <1>1, <1>4
    <3>2. \A i \in DOMAIN q["dma"] : q["dma"][i] # u
      BY <1>3, <2>1 DEF DmaAccepts
    <3> QED BY <1>1, <3>1, <3>2
  <2>5. /\ ~\E f \in Holder : \E i \in DOMAIN Queues[f] : Queues[f][i] = u
        /\ Queues' = [Queues EXCEPT !["dma"] = Append(Queues["dma"], u)]
    BY <1>2, <2>3, <2>4, Zenon
  <2>6. u \in Urb \cup Xfer OBVIOUS
  <2> QED BY <2>2, <2>5, <2>6, Zenon DEF PromiseStep
<1>9. CASE EpSame /\ DmaReturns
  <2>1. /\ "dma" \in Holder /\ q["dma"] # <<>> /\ r["dma"] = Tail(q["dma"])
        /\ \A f \in Holder \ {"dma"} : r[f] = q[f]
    BY <1>1, <1>3, <1>9 DEF DmaReturns, EpSame
  <2>2. r = [q EXCEPT !["dma"] = Tail(q["dma"])] BY <1>3, <2>1, OneChanges
  <2> QED BY <1>2, <2>1, <2>2 DEF PromiseStep
<1> QED BY <1>5, <1>6, <1>7, <1>8, <1>9, StepIs DEF EpChanges

\* The transfers that a pipe accepts come back in their order, each of them once.
THEOREM TransfersComeBackInOrder == NoneAborted => (Spec => UrbQueueSpec)
<1> SUFFICES ASSUME NoneAborted PROVE Spec => UrbQueueSpec
  OBVIOUS
<1>1. Init => BothSafe BY BothSafeInit
<1>2. BothSafe /\ [Next]_vars => BothSafe' BY StepIs
<1>3. Init => Promise!Init
  <2> SUFFICES ASSUME Init PROVE Promise!Init
    OBVIOUS
  <2>1. \A e \in Ep : Queue(e) = <<>>
    BY NoPipeIsGood DEF Init, EpInit, Queue, Held
  <2>2. DmaQueue = <<>> BY DmaInitSafe DEF Init
  <2> QED BY <2>1, <2>2 DEF Promise!Init
<1>4. BothSafe /\ [Next]_vars => [Promise!Next]_Queues
  <2> SUFFICES ASSUME BothSafe, [Next]_vars PROVE [Promise!Next]_Queues
    OBVIOUS
  <2>1. PromiseStep BY PromiseKept
  <2> QED
    BY <2>1 DEF PromiseStep, Promise!Next, Promise!Accept, Promise!Return, Promise!Queued,
                Queues, Holder
<1> QED BY <1>1, <1>2, <1>3, <1>4, PTL DEF Spec, UrbQueueSpec, Promise!Spec, Queues, Holder

=============================================================================
