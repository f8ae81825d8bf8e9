---------------------------- MODULE HidSendProofs ----------------------------
(***************************************************************************)
(* For every size of the buffer and of the packets: a send of data is      *)
(* never refused as busy because of an empty report, the host reads the    *)
(* bytes in the order in which they were made, and a wait that returns 0   *)
(* has sent the bytes of its call.                                         *)
(***************************************************************************)
EXTENDS HidSend, SequenceTheorems, TLAPS

\* An empty report is loaded or dropped by the first interrupt: it is in the
\* driver only while that interrupt is pending, and main() does not run then.
ReportIsPending == left = EmptyReport => ifg

\* Outside the wait, data in the driver is what a wait has left behind.
LeftBehind == pc = "loop" /\ left > 0 => abandoned

Typed == /\ left \in Int /\ left >= EmptyReport /\ pc \in {"loop", "poll"}

IInv == Typed /\ ReportIsPending /\ LeftBehind /\ BusyOnlyAfterAbandon

LEMMA InitInv == Init => IInv
<1> SUFFICES ASSUME Init PROVE IInv
  OBVIOUS
<1>1. /\ left = 0 /\ pc = "loop" /\ result = 0
  BY DEF Init
<1>2. left \in Int /\ left >= EmptyReport /\ left # EmptyReport /\ ~(left > 0)
  BY <1>1 DEF EmptyReport
<1>3. pc \in {"loop", "poll"} /\ result # 3
  BY <1>1
<1> QED BY <1>2, <1>3 DEF IInv, Typed, ReportIsPending, LeftBehind, BusyOnlyAfterAbandon

\* Loading packets leaves less to send, and an empty report nothing.
LEMMA LoadCounts ==
  ASSUME IInv, LoadBuffers, left # 0
  PROVE  left' \in Nat /\ (left > 0 \/ left' = 0)
<1> DEFINE n1 == SmallerOf(Todo, Payload)
           n2 == IF full[Other(xy)] THEN 0 ELSE SmallerOf(Todo - n1, Payload)
<1>1. Todo \in Nat /\ (left > 0 \/ Todo = 0)
  BY DEF IInv, Typed, EmptyReport, Todo
<1>2. n1 \in Nat /\ n1 <= Todo
  BY <1>1, PayloadAssumption DEF SmallerOf
<1>3. n2 \in Nat /\ n2 <= Todo - n1
  BY <1>1, <1>2, PayloadAssumption DEF SmallerOf
<1>4. left' = Todo \/ left' = Todo - n1 - n2
  BY DEF LoadBuffers
<1> QED BY <1>1, <1>2, <1>3, <1>4

LEMMA ReturnInv ==
  ASSUME IInv, NEW r, Return(r), ~ifg, UNCHANGED <<hidVars, epVars, ifg>>,
         r = 3 => pc = "loop" /\ left # 0
  PROVE  IInv'
<1> USE DEF IInv, Typed, ReportIsPending, LeftBehind, BusyOnlyAfterAbandon,
            EmptyReport, Return, hidVars, epVars
<1>1. left # EmptyReport /\ (r = 3 => left > 0)
  OBVIOUS
<1>2. pc' = "loop" /\ abandoned' = (abandoned \/ left > 0) /\ result' = r /\ left' = left
  OBVIOUS
<1> QED BY <1>1, <1>2

LEMMA StepInv == ASSUME IInv, [Next]_vars PROVE IInv'
<1> USE PayloadAssumption
        DEF IInv, Typed, ReportIsPending, LeftBehind, BusyOnlyAfterAbandon, EmptyReport,
            hidVars, epVars, busVars, appVars
<1>1. ASSUME NEW n \in 1..BufSize, Send(n) PROVE IInv'
  <2>1. CASE CanSend /\ SendData(n) /\ pc' = "poll" /\ UNCHANGED <<result, abandoned>>
    BY <1>1, <2>1 DEF Send, SendData
  <2>2. CASE ~BusUp /\ Return(2) /\ UNCHANGED <<left, src, ifg>>
    BY <1>1, <2>2, ReturnInv DEF Send
  <2>3. CASE BusUp /\ left # 0 /\ Return(3) /\ UNCHANGED <<left, src, ifg>>
    BY <1>1, <2>3, ReturnInv DEF Send
  <2> QED BY <1>1, <2>1, <2>2, <2>3 DEF Send
<1>2. CASE Poll       BY <1>2, ReturnInv DEF Poll
<1>3. CASE Tick       BY <1>3 DEF Tick, SendData, CanSend
<1>4. CASE IepIsr
  <2>1. CASE left # 0
    BY <1>4, <2>1, LoadCounts DEF IepIsr
  <2>2. CASE left = 0
    BY <1>4, <2>2 DEF IepIsr
  <2> QED BY <2>1, <2>2
<1>5. CASE HostReads  BY <1>5 DEF HostReads
<1>6. CASE BusReset   BY <1>6 DEF BusReset, UsbReset
<1>7. CASE VbusOn     BY <1>7 DEF VbusOn, UsbReset
<1>8. CASE VbusOff    BY <1>8 DEF VbusOff
<1>9. CASE Enumerate  BY <1>9 DEF Enumerate
<1>10. CASE Suspend   BY <1>10 DEF Suspend
<1>11. CASE Resume    BY <1>11 DEF Resume
<1>12. CASE UNCHANGED vars
  BY <1>12 DEF vars
<1> QED BY <1>1, <1>2, <1>3, <1>4, <1>5, <1>6, <1>7, <1>8, <1>9, <1>10, <1>11, <1>12
        DEF Next, Bus

\* The invariant holds for every size of the caller's buffer and of the packets.
THEOREM SendInvariance == Spec => []IInv
  BY InitInv, StepInv, PTL DEF Spec

\* main() ignores the result of its sends, so a refused one would be lost: it is
\* refused as busy only after a wait was abandoned, never because of the tick's
\* empty report (UsbHid.c:271).
THEOREM NeverBusyByReport == Spec => []BusyOnlyAfterAbandon
<1>1. IInv => BusyOnlyAfterAbandon  BY DEF IInv
<1> QED BY <1>1, SendInvariance, PTL
-----------------------------------------------------------------------------
(* What the packets hold.                                                  *)

Values ==
  /\ buf \in [0..BufSize-1 -> Nat] /\ src \in Nat
  /\ left > 0 => src + left <= BufSize
  /\ xy \in Buf /\ hw \in Buf /\ full \in [Buf -> BOOLEAN]
  /\ pkt \in [Buf -> Seq(Nat)] /\ got \in Seq(Nat) /\ made \in Nat

\* The driver fills the buffers in the order in which the host empties them: it
\* goes on to the buffer the host reads when both are full or both are empty.
BuffersAlternate ==
  /\ full[xy] => full[Other(xy)]
  /\ hw = IF full[Other(xy)] /\ ~full[xy] THEN Other(xy) ELSE xy

\* A reset leaves nothing that the next configuration could send.
NothingLeft ==
  usb = "default" => left = 0 /\ \A b \in Buf : ~full[b]

\* During a wait the caller's buffer holds the last bytes that were made, and the
\* driver has the last ones of them still to load.
Size == made - buf[0] + 1
CallInBuffer ==
  pc = "poll" =>
    /\ Size \in 1..BufSize /\ Size <= made /\ left \in 0..Size
    /\ \A k \in 0..BufSize-1 : buf[k] = IF k < Size THEN made - Size + 1 + k ELSE Junk
    /\ left > 0 => src + left = Size

\* Those it has loaded are the last ones the endpoint has taken, unless the bus
\* has gone.
Ends(s, n, base) == Len(s) >= n /\ \A k \in 1..n : s[Len(s) - n + k] = base + k
CallSent == pc = "poll" /\ usb = "configured" => Ends(Sent, Size - left, made - Size)

\* Bytes in the order in which they were made, none of them later than top.
Ordered(s, top) ==
  /\ \A k \in 1..Len(s) : 0 < s[k] /\ s[k] <= top
  /\ \A k, m \in 1..Len(s) : k < m => s[k] < s[m]

Loaded == IF left > 0 THEN made - left ELSE made
SentOrdered == ~abandoned => Ordered(Sent, Loaded)

OrderInv == /\ IInv /\ Values /\ BuffersAlternate /\ NothingLeft
            /\ CallInBuffer /\ CallSent /\ SentOrdered

LEMMA Regroup ==
  \A s, t, c \in Seq(Nat) : s \o (t \o c) = (s \o t) \o c
BY ConcatAssociative

LEMMA OrderedGrows ==
  ASSUME NEW s \in Seq(Nat), NEW top \in Nat, Ordered(s, top),
         NEW c \in Seq(Nat), \A k \in 1..Len(c) : c[k] = top + k
  PROVE  Ordered(s \o c, top + Len(c))
<1> DEFINE t == s \o c
<1>1. t \in Seq(Nat) /\ Len(t) = Len(s) + Len(c)
  OBVIOUS
<1>2. /\ \A k \in 1..Len(s) : t[k] = s[k]
      /\ \A k \in Len(s)+1..Len(t) : t[k] = top + (k - Len(s))
  BY <1>1, ConcatProperties
<1> HIDE DEF t
<1>3. ASSUME NEW k \in 1..Len(t) PROVE 0 < t[k] /\ t[k] <= top + Len(c)
  <2>1. CASE k <= Len(s)
    <3>1. k \in 1..Len(s) /\ t[k] = s[k] /\ s[k] \in Nat
      BY <1>1, <1>2, <1>3, <2>1
    <3>2. 0 < s[k] /\ s[k] <= top
      BY <3>1 DEF Ordered
    <3> QED BY <3>1, <3>2
  <2>2. CASE k > Len(s)
    <3>1. k \in Len(s)+1..Len(t) /\ k - Len(s) \in 1..Len(c)
      BY <1>1, <1>3, <2>2
    <3>2. t[k] = top + (k - Len(s))
      BY <1>2, <3>1
    <3> QED BY <3>1, <3>2
  <2> QED BY <1>1, <1>3, <2>1, <2>2
<1>4. ASSUME NEW k \in 1..Len(t), NEW m \in 1..Len(t), k < m PROVE t[k] < t[m]
  <2>1. CASE m <= Len(s)
    <3>1. k \in 1..Len(s) /\ m \in 1..Len(s)
      BY <1>1, <1>4, <2>1
    <3>2. t[k] = s[k] /\ t[m] = s[m]
      BY <1>2, <3>1
    <3> QED BY <1>4, <3>1, <3>2 DEF Ordered
  <2>2. CASE k <= Len(s) /\ m > Len(s)
    <3>1. k \in 1..Len(s) /\ t[k] = s[k] /\ s[k] \in Nat
      BY <1>1, <1>2, <1>4, <2>2
    <3>2. s[k] <= top
      BY <3>1 DEF Ordered
    <3>3. m \in Len(s)+1..Len(t) /\ m - Len(s) >= 1
      BY <1>1, <1>4, <2>2
    <3>4. t[m] = top + (m - Len(s))
      BY <1>2, <3>3
    <3> QED BY <3>1, <3>2, <3>3, <3>4
  <2>3. CASE k > Len(s) /\ m > Len(s)
    <3>1. k \in Len(s)+1..Len(t) /\ m \in Len(s)+1..Len(t)
      BY <1>1, <1>4, <2>3
    <3>2. t[k] = top + (k - Len(s)) /\ t[m] = top + (m - Len(s))
      BY <1>2, <3>1
    <3> QED BY <1>4, <3>1, <3>2
  <2> QED BY <1>1, <1>4, <2>1, <2>2, <2>3
<1> QED BY <1>3, <1>4 DEF Ordered, t

LEMMA OrderedPart ==
  ASSUME NEW s \in Seq(Nat), NEW c \in Seq(Nat), NEW top \in Int, NEW higher \in Int,
         Ordered(s \o c, top), top <= higher
  PROVE  Ordered(s, higher)
<1> DEFINE t == s \o c
<1>1. t \in Seq(Nat) /\ Len(t) = Len(s) + Len(c) /\ \A k \in 1..Len(s) : t[k] = s[k]
  BY ConcatProperties
<1>2. Ordered(t, top)
  OBVIOUS
<1> HIDE DEF t
<1>3. ASSUME NEW k \in 1..Len(s) PROVE 0 < s[k] /\ s[k] <= higher
  <2>1. k \in 1..Len(t) /\ s[k] = t[k] /\ s[k] \in Nat
    BY <1>1, <1>3
  <2>2. 0 < t[k] /\ t[k] <= top
    BY <1>2, <2>1 DEF Ordered
  <2> QED BY <2>1, <2>2
<1>4. ASSUME NEW k \in 1..Len(s), NEW m \in 1..Len(s), k < m PROVE s[k] < s[m]
  <2>1. k \in 1..Len(t) /\ m \in 1..Len(t) /\ s[k] = t[k] /\ s[m] = t[m]
    BY <1>1, <1>4
  <2> QED BY <1>2, <1>4, <2>1 DEF Ordered
<1> QED BY <1>3, <1>4 DEF Ordered

LEMMA EndsGrows ==
  ASSUME NEW s \in Seq(Nat), NEW n \in Nat, NEW base \in Int, Ends(s, n, base),
         NEW c \in Seq(Nat), \A k \in 1..Len(c) : c[k] = base + n + k
  PROVE  Ends(s \o c, n + Len(c), base)
<1> DEFINE t == s \o c
           m == n + Len(c)
<1>1. t \in Seq(Nat) /\ Len(t) = Len(s) + Len(c) /\ m \in Nat /\ Len(t) - m = Len(s) - n
  OBVIOUS
<1>2. /\ \A k \in 1..Len(s) : t[k] = s[k]
      /\ \A k \in Len(s)+1..Len(t) : t[k] = c[k - Len(s)]
  BY <1>1, ConcatProperties
<1>3. Len(t) >= m
  BY <1>1 DEF Ends
<1> HIDE DEF t
<1>4. ASSUME NEW k \in 1..m PROVE t[Len(t) - m + k] = base + k
  <2>1. CASE k <= n
    <3>1. k \in 1..n /\ Len(s) - n + k \in 1..Len(s)
      BY <1>1, <1>4, <2>1 DEF Ends
    <3>2. s[Len(s) - n + k] = base + k
      BY <3>1 DEF Ends
    <3>3. t[Len(s) - n + k] = s[Len(s) - n + k]
      BY <1>2, <3>1
    <3> QED BY <1>1, <3>2, <3>3
  <2>2. CASE k > n
    <3>1. Len(s) - n + k \in Len(s)+1..Len(t) /\ k - n \in 1..Len(c)
      BY <1>1, <1>4, <2>2 DEF Ends
    <3>2. (Len(s) - n + k) - Len(s) = k - n
      BY <1>1, <1>4
    <3>3. t[Len(s) - n + k] = c[k - n]
      BY <1>2, <3>1, <3>2
    <3>4. c[k - n] = base + n + (k - n) /\ base + n + (k - n) = base + k
      BY <1>1, <1>4, <3>1
    <3> QED BY <1>1, <3>3, <3>4
  <2> QED BY <1>1, <1>4, <2>1, <2>2
<1> QED BY <1>3, <1>4 DEF Ends, t

LEMMA Buffers == \A b \in Buf : Other(b) \in Buf /\ Other(b) # b /\ Other(Other(b)) = b
BY DEF Buf, Other

LEMMA SentType ==
  ASSUME Values
  PROVE  /\ \A b \in Buf : Packet(b) \in Seq(Nat)
         /\ Packet(hw) \o Packet(Other(hw)) \in Seq(Nat)
         /\ Sent \in Seq(Nat)
<1>1. \A b \in Buf : Packet(b) \in Seq(Nat)
  BY DEF Values, Packet
<1>2. Packet(hw) \o Packet(Other(hw)) \in Seq(Nat)
  BY <1>1, Buffers DEF Values
<1>3. Sent \in Seq(Nat)
  BY <1>2 DEF Sent, Values
<1> QED BY <1>1, <1>2, <1>3

\* What an interrupt loads is the next bytes of the caller's buffer, and it goes
\* behind what the endpoint has.
LEMMA LoadSends ==
  ASSUME OrderInv, LoadBuffers, left # 0, UNCHANGED <<appVars, hw, busVars, got>>
  PROVE  /\ Values' /\ BuffersAlternate' /\ left' \in Nat
         /\ \E c \in Seq(Nat) :
              /\ usb = "configured" => Sent' = Sent \o c
              /\ usb # "configured" => Sent' = Sent
              /\ left > 0 => left' = left - Len(c) /\ (left' > 0 => src' = src + Len(c))
              /\ left <= 0 => left' = 0 /\ c = <<>>
              /\ \A k \in 1..Len(c) : src + k - 1 \in 0..BufSize-1 /\ c[k] = buf[src+k-1]
<1> DEFINE n1 == SmallerOf(Todo, Payload)
           n2 == IF full[Other(xy)] THEN 0 ELSE SmallerOf(Todo - n1, Payload)
           c1 == Chunk(src, n1)
           c2 == Chunk(src + n1, n2)
<1>1. /\ Values /\ xy \in Buf /\ Other(xy) \in Buf /\ Other(xy) # xy /\ src \in Nat
      /\ left \in Int /\ left >= EmptyReport /\ (left > 0 => src + left <= BufSize)
  BY Buffers DEF OrderInv, Values, IInv, Typed
<1>2. Todo \in Nat /\ (left > 0 => Todo = left) /\ (left <= 0 => Todo = 0)
  BY <1>1 DEF EmptyReport, Todo
<1>3. n1 \in Nat /\ n1 <= Todo /\ n2 \in Nat /\ n2 <= Todo - n1
  BY <1>2, PayloadAssumption DEF SmallerOf
<1>4. ASSUME NEW at \in Nat, NEW n \in Nat, n > 0 => at + n <= BufSize
      PROVE  /\ Chunk(at, n) \in Seq(Nat) /\ Len(Chunk(at, n)) = n
             /\ \A k \in 1..n : /\ at + k - 1 \in 0..BufSize-1
                                /\ Chunk(at, n)[k] = buf[at + k - 1]
  <2>1. ASSUME NEW k \in 1..n PROVE at + k - 1 \in 0..BufSize-1 /\ buf[at + k - 1] \in Nat
    BY <1>1, <1>4, <2>1, PayloadAssumption DEF Values
  <2>2. Chunk(at, n) = [k \in 1..n |-> buf[at + k - 1]]
    BY DEF Chunk
  <2>3. [k \in 1..n |-> buf[at + k - 1]] \in [1..n -> Nat]
    <3>1. \A k \in 1..n : buf[at + k - 1] \in Nat
      BY <2>1
    <3> QED BY <3>1
  <2>5. Chunk(at, n) \in Seq(Nat)
    <3>1. Chunk(at, n) \in [1..n -> Nat] /\ n \in Nat
      BY <1>4, <2>2, <2>3
    <3> QED BY <3>1, SeqDef
  <2>4. Len([k \in 1..n |-> buf[at + k - 1]]) = n
    BY <1>4
  <2> QED BY <2>1, <2>2, <2>4, <2>5
<1>5. /\ c1 \in Seq(Nat) /\ Len(c1) = n1
      /\ \A k \in 1..n1 : src + k - 1 \in 0..BufSize-1 /\ c1[k] = buf[src + k - 1]
  <2> HIDE DEF n1, n2
  <2>1. n1 > 0 => src + n1 <= BufSize
    BY <1>1, <1>2, <1>3, PayloadAssumption
  <2>2. n1 \in Nat /\ src \in Nat
    BY <1>1, <1>3
  <2> QED BY <1>4, <2>1, <2>2
<1>6. /\ c2 \in Seq(Nat) /\ Len(c2) = n2
      /\ \A k \in 1..n2 : src + n1 + k - 1 \in 0..BufSize-1 /\ c2[k] = buf[src + n1 + k - 1]
  <2> HIDE DEF n1, n2
  <2>1. src + n1 \in Nat /\ n2 \in Nat
    BY <1>1, <1>3
  <2>2. n2 > 0 => src + n1 + n2 <= BufSize
    <3>1. n1 + n2 <= Todo
      BY <1>2, <1>3
    <3>2. n2 > 0 => Todo = left /\ left > 0
      BY <1>1, <1>2, <1>3, <3>1
    <3> QED BY <1>1, <1>2, <1>3, <3>1, <3>2, PayloadAssumption
  <2> QED BY <1>4, <2>1, <2>2
<1>7. CASE full[xy]
  <2>1. left' = Todo /\ UNCHANGED <<src, xy, full, pkt>>
    BY <1>7 DEF LoadBuffers
  <2>2. Values' /\ left' \in Nat
    <3>1. buf' = buf /\ made' = made /\ hw' = hw /\ got' = got
      BY DEF appVars
    <3>2. left' > 0 => src' + left' <= BufSize
      BY <1>1, <1>2, <2>1
    <3> QED BY <1>1, <1>2, <2>1, <3>1, <3>2 DEF Values
  <2>5. BuffersAlternate' /\ Sent' = Sent
    BY <2>1 DEF BuffersAlternate, OrderInv, Sent, Packet, busVars
  <2>3. Sent \in Seq(Nat) /\ Sent \o <<>> = Sent
    BY <1>1, SentType, ConcatEmptySeq
  <2> DEFINE c == <<>>
  <2>4. c \in Seq(Nat) /\ Len(c) = 0 /\ c = <<>> /\ Sent \o c = Sent
    BY <2>3
  <2>6. \A k \in 1..Len(c) : src + k - 1 \in 0..BufSize-1 /\ c[k] = buf[src+k-1]
    BY <2>4
  <2>7. /\ left > 0 => left' = left - Len(c) /\ (left' > 0 => src' = src + Len(c))
        /\ left <= 0 => left' = 0
    BY <1>1, <1>2, <2>1, <2>4
  <2> HIDE DEF c
  <2> QED BY <2>2, <2>4, <2>5, <2>6, <2>7
<1>8. CASE ~full[xy]
  <2> DEFINE c == c1 \o c2
  <2>1. /\ left' = Todo - n1 - n2 /\ src' = src + n1 + n2
        /\ xy' = (IF n2 > 0 THEN xy ELSE Other(xy))
        /\ full' = [full EXCEPT ![xy] = TRUE, ![Other(xy)] = @ \/ n2 > 0]
        /\ pkt' = [pkt EXCEPT ![xy] = c1, ![Other(xy)] = IF n2 > 0 THEN c2 ELSE @]
    BY <1>8 DEF LoadBuffers, NextSource, NextBuffer
  <2>2. /\ c \in Seq(Nat) /\ Len(c) = n1 + n2
        /\ \A k \in 1..Len(c) : src + k - 1 \in 0..BufSize-1 /\ c[k] = buf[src+k-1]
    <3> HIDE DEF n1, n2, c1, c2
    <3>1. /\ c \in Seq(Nat) /\ Len(c) = n1 + n2
          /\ \A k \in 1..n1 + n2 : c[k] = IF k <= n1 THEN c1[k] ELSE c2[k - n1]
      <4>1. c1 \in Seq(Nat) /\ c2 \in Seq(Nat) /\ Len(c1) = n1 /\ Len(c2) = n2
        BY <1>5, <1>6
      <4> QED BY <4>1, ConcatProperties
    <3> HIDE DEF c
    <3>2. ASSUME NEW k \in 1..n1 + n2
          PROVE  src + k - 1 \in 0..BufSize-1 /\ c[k] = buf[src+k-1]
      <4>1. CASE k <= n1
        BY <1>3, <1>5, <3>1, <3>2, <4>1
      <4>2. CASE k > n1
        <5>1. k - n1 \in 1..n2 /\ src + n1 + (k - n1) - 1 = src + k - 1
          BY <1>1, <1>3, <3>2, <4>2
        <5> QED BY <1>3, <1>6, <3>1, <3>2, <4>2, <5>1
      <4> QED BY <1>3, <3>2, <4>1, <4>2
    <3> QED BY <3>1, <3>2
  <2>3. /\ full' \in [Buf -> BOOLEAN] /\ full'[xy] /\ (full'[Other(xy)] <=> full[Other(xy)] \/ n2 > 0)
        /\ pkt' \in [Buf -> Seq(Nat)] /\ pkt'[xy] = c1
        /\ pkt'[Other(xy)] = (IF n2 > 0 THEN c2 ELSE pkt[Other(xy)])
    <3> HIDE DEF n1, n2, c1, c2
    <3> QED BY <1>1, <1>5, <1>6, <2>1 DEF Values
  <2>4. Values' /\ left' \in Nat
    <3> HIDE DEF n1, n2, c1, c2
    <3>1. buf' = buf /\ made' = made /\ hw' = hw /\ got' = got
      BY DEF appVars
    <3>2. left' \in Nat /\ src' \in Nat /\ (left' > 0 => src' + left' <= BufSize)
      BY <1>1, <1>2, <1>3, <2>1
    <3>3. xy' \in Buf
      BY <1>1, <2>1
    <3> QED BY <1>1, <2>3, <3>1, <3>2, <3>3 DEF Values
  <2>5. BuffersAlternate'
    <3>1. n2 > 0 => ~full[Other(xy)]
      OBVIOUS
    <3> HIDE DEF n1, n2, c1, c2
    <3> QED BY <1>1, <1>8, <2>1, <2>3, <3>1, Buffers DEF BuffersAlternate, OrderInv
  <2>6. Packet(hw)' \o Packet(Other(hw))' = (Packet(hw) \o Packet(Other(hw))) \o c
    <3> HIDE DEF c, c1, c2
    <3>1. CASE full[Other(xy)]
      <4>1. n2 = 0 /\ hw = Other(xy) /\ Other(hw) = xy
        BY <1>8, <3>1, <1>1, Buffers DEF OrderInv, BuffersAlternate
      <4>2. /\ Packet(hw)' = pkt[hw] /\ Packet(hw) = pkt[hw]
            /\ Packet(Other(hw))' = c1 /\ Packet(Other(hw)) = <<>>
        BY <1>8, <2>3, <3>1, <4>1 DEF Packet
      <4>3. c = c1
        BY <1>5, <1>6, <4>1, ConcatEmptySeq, EmptySeq DEF c
      <4>4. pkt[hw] \in Seq(Nat)
        BY <1>1 DEF Values
      <4> QED BY <1>5, <4>2, <4>3, <4>4, ConcatEmptySeq
    <3>2. CASE ~full[Other(xy)]
      <4>1. hw = xy
        BY <1>8, <3>2, <1>1 DEF OrderInv, BuffersAlternate
      <4>2. /\ Packet(hw)' = c1 /\ Packet(hw) = <<>> /\ Packet(Other(hw)) = <<>>
            /\ Packet(Other(hw))' = IF n2 > 0 THEN c2 ELSE <<>>
        BY <1>8, <2>3, <3>2, <4>1 DEF Packet
      <4>3. (IF n2 > 0 THEN c2 ELSE <<>>) = c2
        BY <1>3, <1>6, EmptySeq
      <4>4. c \in Seq(Nat) /\ c = c1 \o c2
        BY <2>2 DEF c
      <4>5. <<>> \o <<>> = <<>> /\ <<>> \o c = c
        BY <4>4, ConcatEmptySeq
      <4> QED BY <4>2, <4>3, <4>4, <4>5
    <3> QED BY <3>1, <3>2
  <2>7. CASE usb = "configured"
    <3> HIDE DEF c
    <3>1. Sent' = got \o (Packet(hw)' \o Packet(Other(hw))') /\ Sent = got \o (Packet(hw) \o Packet(Other(hw)))
      BY <2>7 DEF Sent, busVars
    <3>2. got \in Seq(Nat) /\ Packet(hw) \o Packet(Other(hw)) \in Seq(Nat) /\ c \in Seq(Nat)
      BY <1>1, <2>2, SentType DEF Values
    <3>3. Sent' = Sent \o c
      <4> DEFINE p == Packet(hw) \o Packet(Other(hw))
      <4>1. p \in Seq(Nat) /\ Sent = got \o p /\ Sent' = got \o (p \o c)
        BY <2>6, <3>1, <3>2
      <4> HIDE DEF p
      <4>2. got \in Seq(Nat) /\ c \in Seq(Nat)
        BY <3>2
      <4>3. (got \o p) \o c = got \o (p \o c)
        BY <4>1, <4>2, Regroup
      <4> QED BY <4>1, <4>3
    <3>4. /\ left > 0 => left' = left - Len(c) /\ (left' > 0 => src' = src + Len(c))
          /\ left <= 0 => left' = 0 /\ c = <<>>
      <4> HIDE DEF n1, n2
      <4>1. Len(c) = n1 + n2
        BY <2>2 DEF n1, n2
      <4> QED BY <1>1, <1>2, <1>3, <2>1, <3>2, <4>1, EmptySeq
    <3> QED BY <2>2, <2>4, <2>5, <2>7, <3>3, <3>4
  <2>8. CASE usb # "configured"
    <3> HIDE DEF c
    <3>1. Sent' = Sent
      BY <2>8 DEF Sent, busVars
    <3>4. /\ left > 0 => left' = left - Len(c) /\ (left' > 0 => src' = src + Len(c))
          /\ left <= 0 => left' = 0 /\ c = <<>>
      <4> HIDE DEF n1, n2
      <4>1. Len(c) = n1 + n2
        BY <2>2 DEF n1, n2
      <4> QED BY <1>1, <1>2, <1>3, <2>1, <2>2, <4>1, EmptySeq
    <3> QED BY <2>2, <2>4, <2>5, <2>8, <3>1, <3>4
  <2> QED BY <2>7, <2>8
<1> QED BY <1>7, <1>8
-----------------------------------------------------------------------------
(* Every step keeps the order.                                             *)

LEMMA OrderedMore ==
  ASSUME NEW s \in Seq(Nat), NEW top \in Int, NEW higher \in Int,
         Ordered(s, top), top <= higher
  PROVE  Ordered(s, higher)
<1>1. s \o <<>> = s /\ <<>> \in Seq(Nat)
  BY ConcatEmptySeq
<1> QED BY <1>1, OrderedPart

LEMMA LoadedType ==
  ASSUME OrderInv
  PROVE  /\ left \in Int /\ left >= EmptyReport /\ made \in Nat
         /\ Loaded \in Int /\ Loaded <= made /\ (left <= 0 => Loaded = made)
BY DEF OrderInv, IInv, Typed, Values, Loaded

LEMMA InitOrder == Init => OrderInv
<1> SUFFICES ASSUME Init PROVE OrderInv
  OBVIOUS
<1>1. IInv
  BY InitInv
<1>2. Values
  BY PayloadAssumption DEF Init, Values, Buf, Junk
<1>3. BuffersAlternate /\ NothingLeft /\ CallInBuffer /\ CallSent
  BY DEF Init, BuffersAlternate, NothingLeft, CallInBuffer, CallSent, Buf, Other
<1>4. Sent = <<>>
  <2>1. got = <<>> /\ usb = "off"
    BY DEF Init
  <2> QED BY <2>1 DEF Sent
<1>5. SentOrdered
  BY <1>4 DEF SentOrdered, Ordered
<1> QED BY <1>1, <1>2, <1>3, <1>5 DEF OrderInv

\* A wait that ends, or a send that is refused.
LEMMA ReturnOrder ==
  ASSUME OrderInv, IInv', NEW r, Return(r), NEW n \in Nat, made' = made + n,
         UNCHANGED <<hidVars, epVars, busVars, got>>
  PROVE  OrderInv'
<1> USE DEF hidVars, epVars, busVars
<1>1. buf' = [i \in 0..BufSize-1 |-> Junk] /\ pc' = "loop"
  BY DEF Return
<1>2. buf' \in [0..BufSize-1 -> Nat]
  BY <1>1 DEF Junk
<1>3. made' \in Nat
  BY DEF OrderInv, Values
<1>4. Values'
  BY <1>2, <1>3 DEF OrderInv, Values
<1>5. BuffersAlternate' /\ NothingLeft' /\ CallInBuffer' /\ CallSent'
  BY <1>1 DEF OrderInv, BuffersAlternate, NothingLeft, CallInBuffer, CallSent
<1>6. SentOrdered'
  <2> SUFFICES ASSUME ~abandoned' PROVE Ordered(Sent', Loaded')
    BY DEF SentOrdered
  <2>1. ~abandoned /\ ~(left > 0)
    BY DEF Return
  <2>2. Ordered(Sent, Loaded) /\ Loaded = made /\ left <= 0
    BY <2>1, LoadedType DEF OrderInv, SentOrdered
  <2>3. Sent' = Sent /\ Sent \in Seq(Nat)
    BY SentType DEF Sent, Packet, OrderInv
  <2>4. Loaded' = made + n
    BY <2>2, LoadedType DEF Loaded
  <2> QED BY <2>2, <2>3, <2>4, OrderedMore, LoadedType
<1> QED BY <1>4, <1>5, <1>6 DEF OrderInv

\* A send that is accepted.
LEMMA StartOrder ==
  ASSUME OrderInv, IInv', NEW n \in 1..BufSize, Send(n), CanSend, SendData(n),
         pc' = "poll", UNCHANGED <<result, abandoned>>,
         buf' = [i \in 0..BufSize-1 |-> IF i < n THEN made + 1 + i ELSE Junk]
  PROVE  OrderInv'
<1>1. /\ left = 0 /\ left' = n /\ src' = 0 /\ made' = made + n /\ made \in Nat
      /\ UNCHANGED <<xy, full, pkt, hw, usb, susp, got>>
      /\ usb = "configured"
  BY DEF Send, CanSend, SendData, epVars, busVars, BusUp, OrderInv, Values
<1>2. buf' \in [0..BufSize-1 -> Nat]
  BY <1>1 DEF Junk
<1>3. Values'
  BY <1>1, <1>2 DEF OrderInv, Values
<1>4. BuffersAlternate' /\ NothingLeft'
  BY <1>1 DEF OrderInv, BuffersAlternate, NothingLeft
<1>5. Size' = n
  <2>1. 0 \in 0..BufSize-1 /\ 0 < n
    BY PayloadAssumption
  <2>2. buf'[0] = made + 1
    BY <1>1, <2>1
  <2> QED BY <1>1, <2>2 DEF Size
<1>6. Sent' = Sent /\ Sent \in Seq(Nat)
  BY <1>1, SentType DEF Sent, Packet, OrderInv
<1>7. CallInBuffer'
  <2>1. ASSUME NEW k \in 0..BufSize-1
        PROVE  buf'[k] = IF k < n THEN made' - n + 1 + k ELSE Junk
    BY <1>1, <2>1
  <2> QED BY <1>1, <1>5, <2>1 DEF CallInBuffer
<1>8. CallSent'
  <2>1. Size' - left' = 0
    BY <1>1, <1>5
  <2>2. Ends(Sent', 0, made' - Size')
    BY <1>6 DEF Ends
  <2> QED BY <2>1, <2>2 DEF CallSent
<1>9. SentOrdered'
  <2>1. Loaded' = made /\ Loaded = made
    BY <1>1 DEF Loaded
  <2> QED BY <1>6, <2>1 DEF OrderInv, SentOrdered
<1> QED BY <1>3, <1>4, <1>7, <1>8, <1>9 DEF OrderInv

\* The tick's empty report.
LEMMA TickOrder == ASSUME OrderInv, IInv', Tick PROVE OrderInv'
<1>1. /\ left = 0 /\ left' = EmptyReport /\ src' = 0 /\ pc = "loop"
      /\ UNCHANGED <<buf, pc, made, abandoned, xy, full, pkt, hw, usb, susp, got>>
      /\ usb = "configured"
  BY DEF Tick, CanSend, SendData, epVars, busVars, appVars, BusUp
<1>2. Values'
  BY <1>1 DEF OrderInv, Values, EmptyReport
<1>3. BuffersAlternate' /\ NothingLeft' /\ CallInBuffer' /\ CallSent'
  BY <1>1 DEF OrderInv, BuffersAlternate, NothingLeft, CallInBuffer, CallSent
<1>4. SentOrdered'
  <2>1. Sent' = Sent
    BY <1>1 DEF Sent, Packet
  <2>2. Loaded' = Loaded
    BY <1>1 DEF Loaded, EmptyReport
  <2> QED BY <1>1, <2>1, <2>2 DEF OrderInv, SentOrdered
<1> QED BY <1>2, <1>3, <1>4 DEF OrderInv

\* The interrupt that loads packets during a wait.
LEMMA LoadOrder ==
  ASSUME OrderInv, IInv', LoadBuffers, left # 0, UNCHANGED <<appVars, hw, busVars, got>>
  PROVE  OrderInv'
<1>1. /\ Values' /\ BuffersAlternate' /\ left' \in Nat
      /\ \E c \in Seq(Nat) :
           /\ usb = "configured" => Sent' = Sent \o c
           /\ usb # "configured" => Sent' = Sent
           /\ left > 0 => left' = left - Len(c) /\ (left' > 0 => src' = src + Len(c))
           /\ left <= 0 => left' = 0 /\ c = <<>>
           /\ \A k \in 1..Len(c) : src + k - 1 \in 0..BufSize-1 /\ c[k] = buf[src+k-1]
  BY LoadSends
<1>2. PICK c \in Seq(Nat) :
           /\ usb = "configured" => Sent' = Sent \o c
           /\ usb # "configured" => Sent' = Sent
           /\ left > 0 => left' = left - Len(c) /\ (left' > 0 => src' = src + Len(c))
           /\ left <= 0 => left' = 0 /\ c = <<>>
           /\ \A k \in 1..Len(c) : src + k - 1 \in 0..BufSize-1 /\ c[k] = buf[src+k-1]
  BY <1>1
<1>3. UNCHANGED <<buf, pc, made, abandoned, usb, got>>
  BY DEF appVars, busVars
<1>4. /\ left \in Int /\ left >= EmptyReport /\ made \in Nat /\ Len(c) \in Nat
      /\ src \in Nat /\ Sent \in Seq(Nat) /\ Size' = Size
  BY <1>2, <1>3, SentType, LoadedType DEF OrderInv, Values, Size
<1>5. NothingLeft'
  BY <1>3 DEF OrderInv, NothingLeft
<1>6. pc = "poll" => /\ left > 0 /\ Size \in Nat /\ left <= Size /\ src + left = Size
                     /\ \A k \in 0..BufSize-1 :
                          buf[k] = IF k < Size THEN made - Size + 1 + k ELSE Junk
  BY <1>4 DEF OrderInv, CallInBuffer
<1>7. CallInBuffer'
  <2> SUFFICES ASSUME pc = "poll" PROVE CallInBuffer'
    BY <1>3 DEF CallInBuffer
  <2>1. left' \in 0..Size /\ (left' > 0 => src' + left' = Size)
    BY <1>1, <1>2, <1>4, <1>6
  <2> QED BY <1>3, <1>4, <2>1 DEF OrderInv, CallInBuffer
\* The new bytes follow those that have been loaded before.
<1>8. ASSUME pc = "poll"
      PROVE  \A k \in 1..Len(c) : c[k] = made - left + k
  <2> SUFFICES ASSUME NEW k \in 1..Len(c) PROVE c[k] = made - left + k
    OBVIOUS
  <2>1. src + k - 1 \in 0..BufSize-1 /\ c[k] = buf[src+k-1]
    BY <1>2
  <2>2. k <= left
    BY <1>1, <1>2, <1>4, <1>6, <1>8
  <2>3. src + k - 1 < Size
    BY <1>4, <1>6, <1>8, <2>2
  <2>4. buf[src+k-1] = made - Size + 1 + (src + k - 1)
    BY <1>6, <1>8, <2>1, <2>3
  <2> QED BY <1>4, <1>6, <1>8, <2>1, <2>4
<1>9. CallSent'
  <2> SUFFICES ASSUME pc = "poll", usb = "configured"
               PROVE  Ends(Sent', Size - left', made - Size)
    BY <1>3, <1>4 DEF CallSent
  <2>1. Ends(Sent, Size - left, made - Size)
    BY DEF OrderInv, CallSent
  <2>2. Size - left \in Nat /\ made - Size \in Int
    BY <1>4, <1>6
  <2>3. \A k \in 1..Len(c) : c[k] = (made - Size) + (Size - left) + k
    BY <1>4, <1>6, <1>8
  <2>4. Ends(Sent \o c, (Size - left) + Len(c), made - Size)
    BY <1>4, <2>1, <2>2, <2>3, EndsGrows
  <2>5. (Size - left) + Len(c) = Size - left'
    BY <1>2, <1>4, <1>6
  <2> QED BY <1>2, <2>4, <2>5
<1>10. SentOrdered'
  <2> SUFFICES ASSUME ~abandoned PROVE Ordered(Sent', Loaded')
    BY <1>3 DEF SentOrdered
  <2>1. Ordered(Sent, Loaded)
    BY DEF OrderInv, SentOrdered
  <2>2. CASE left > 0
    <3>1. pc = "poll"
      BY <2>2 DEF OrderInv, IInv, Typed, LeftBehind
    <3>2. Loaded = made - left /\ Loaded' = made - left' /\ left' = left - Len(c)
      <4>1. left' \in Nat /\ made' = made /\ left' = left - Len(c)
        BY <1>1, <1>2, <1>3, <2>2
      <4>2. Loaded' = made - left'
        BY <1>4, <4>1 DEF Loaded
      <4> QED BY <2>2, <4>1, <4>2 DEF Loaded
    <3>3. made - left \in Nat
      BY <1>4, <1>6, <3>1 DEF OrderInv, CallInBuffer
    <3>4. Ordered(Sent \o c, (made - left) + Len(c))
      BY <1>4, <1>8, <2>1, <3>1, <3>2, <3>3, OrderedGrows
    <3>5. Loaded' = (made - left) + Len(c) /\ Loaded <= Loaded' /\ Loaded \in Int /\ Loaded' \in Int
      BY <1>4, <3>2
    <3>6. usb # "configured" => Ordered(Sent, Loaded')
      BY <1>4, <2>1, <3>5, OrderedMore
    <3> QED BY <1>2, <3>4, <3>5, <3>6
  <2>3. CASE left <= 0
    <3>1. Loaded' = Loaded /\ c = <<>>
      BY <1>2, <1>3, <1>4, <2>3 DEF Loaded
    <3>2. Sent' = Sent
      BY <1>2, <1>4, <3>1, ConcatEmptySeq
    <3> QED BY <2>1, <3>1, <3>2
  <2> QED BY <1>4, <2>2, <2>3
<1> QED BY <1>1, <1>5, <1>7, <1>9, <1>10 DEF OrderInv

\* What the host takes from the endpoint has been sent already.
LEMMA ReadOrder == ASSUME OrderInv, IInv', HostReads PROVE OrderInv'
<1>1. /\ full[hw] /\ usb = "configured" /\ usb' = usb
      /\ got' = got \o pkt[hw] /\ full' = [full EXCEPT ![hw] = FALSE] /\ hw' = Other(hw)
      /\ UNCHANGED <<buf, pc, made, abandoned, left, src, xy, pkt>>
  BY DEF HostReads, BusUp, appVars, hidVars, busVars
<1>2. /\ hw \in Buf /\ Other(hw) \in Buf /\ Other(hw) # hw /\ Other(Other(hw)) = hw
      /\ xy \in Buf /\ full \in [Buf -> BOOLEAN] /\ pkt[hw] \in Seq(Nat) /\ got \in Seq(Nat)
  BY Buffers DEF OrderInv, Values
<1>3. Values'
  <2>1. got' \in Seq(Nat) /\ full' \in [Buf -> BOOLEAN] /\ hw' \in Buf
    BY <1>1, <1>2
  <2> QED BY <1>1, <2>1 DEF OrderInv, Values
<1>4. BuffersAlternate' /\ NothingLeft'
  BY <1>1, <1>2, Buffers DEF OrderInv, BuffersAlternate, NothingLeft
<1>5. Sent' = Sent
  <2> DEFINE p == pkt[hw]
             q == Packet(Other(hw))
  <2>1. Packet(hw) = p /\ q \in Seq(Nat) /\ p \in Seq(Nat) /\ got \in Seq(Nat)
    BY <1>1, <1>2, SentType DEF Packet, OrderInv
  <2>2. Packet(hw)' = q /\ Packet(Other(hw))' = <<>>
    BY <1>1, <1>2 DEF Packet
  <2>3. Sent = got \o (p \o q) /\ Sent' = (got \o p) \o (q \o <<>>)
    BY <1>1, <2>1, <2>2 DEF Sent
  <2> HIDE DEF p, q
  <2>4. q \o <<>> = q /\ got \o (p \o q) = (got \o p) \o q
    BY <2>1, ConcatEmptySeq, Regroup
  <2> QED BY <2>3, <2>4
<1>6. CallInBuffer' /\ CallSent' /\ SentOrdered'
  BY <1>1, <1>5 DEF OrderInv, CallInBuffer, CallSent, SentOrdered, Size, Loaded
<1> QED BY <1>3, <1>4, <1>6 DEF OrderInv

\* Without a configuration only what the host has read counts.
LEMMA CutOrder ==
  ASSUME OrderInv, usb' # "configured", got' = got, Loaded' = Loaded \/ Loaded' = made,
         abandoned' = abandoned
  PROVE  SentOrdered'
<1> DEFINE rest == IF usb = "configured" THEN Packet(hw) \o Packet(Other(hw)) ELSE <<>>
<1>1. rest \in Seq(Nat) /\ got \in Seq(Nat)
  BY SentType DEF OrderInv, Values
<1>2. Sent = got \o rest
  BY DEF Sent
<1>3. Sent' = got
  BY <1>1, ConcatEmptySeq DEF Sent
<1>4. Loaded \in Int /\ Loaded' \in Int /\ Loaded <= Loaded'
  BY LoadedType
<1> HIDE DEF rest
<1>5. ASSUME ~abandoned PROVE Ordered(got, Loaded')
  <2>1. Ordered(got \o rest, Loaded)
    BY <1>2, <1>5 DEF OrderInv, SentOrdered
  <2> QED BY <1>1, <1>4, <2>1, OrderedPart
<1> QED BY <1>3, <1>5 DEF SentOrdered

LEMMA ResetOrder == ASSUME OrderInv, IInv', UsbReset PROVE OrderInv'
<1>1. /\ usb' = "default" /\ left' = 0 /\ src' = 0 /\ xy' = "X" /\ hw' = "X"
      /\ full' = [b \in Buf |-> FALSE]
      /\ UNCHANGED <<buf, pc, made, abandoned, pkt, got>>
  BY DEF UsbReset, appVars
<1>2. Values'
  BY <1>1 DEF OrderInv, Values, Buf
<1>3. BuffersAlternate' /\ NothingLeft'
  BY <1>1, Buffers DEF BuffersAlternate, NothingLeft, Buf
<1>4. CallInBuffer' /\ CallSent'
  <2>1. Size' = Size
    BY <1>1 DEF Size
  <2> QED BY <1>1, <2>1 DEF OrderInv, CallInBuffer, CallSent
<1>5. SentOrdered'
  <2>1. Loaded' = made
    BY <1>1 DEF Loaded
  <2> QED BY <1>1, <2>1, CutOrder
<1> QED BY <1>2, <1>3, <1>4, <1>5 DEF OrderInv

LEMMA OffOrder == ASSUME OrderInv, IInv', VbusOff PROVE OrderInv'
<1>1. usb' = "off" /\ UNCHANGED <<buf, pc, made, abandoned, left, src, xy, full, pkt, hw, got>>
  BY DEF VbusOff, appVars, hidVars, epVars
<1>2. Values' /\ BuffersAlternate' /\ NothingLeft' /\ CallInBuffer' /\ CallSent'
  BY <1>1 DEF OrderInv, Values, BuffersAlternate, NothingLeft, CallInBuffer, CallSent, Size
<1>3. SentOrdered'
  <2>1. Loaded' = Loaded
    BY <1>1 DEF Loaded
  <2> QED BY <1>1, <2>1, CutOrder
<1> QED BY <1>2, <1>3 DEF OrderInv

\* The buffers are empty when the device is configured: nothing stale is sent.
LEMMA EnumerateOrder == ASSUME OrderInv, IInv', Enumerate PROVE OrderInv'
<1>1. /\ usb = "default" /\ usb' = "configured" /\ pc = "loop"
      /\ UNCHANGED <<buf, pc, made, abandoned, left, src, xy, full, pkt, hw, got>>
  BY DEF Enumerate, appVars, hidVars, epVars
<1>2. Values' /\ BuffersAlternate' /\ NothingLeft' /\ CallInBuffer' /\ CallSent'
  BY <1>1 DEF OrderInv, Values, BuffersAlternate, NothingLeft, CallInBuffer, CallSent
<1>3. Sent' = Sent
  <2>1. hw \in Buf /\ Other(hw) \in Buf /\ ~full[hw] /\ ~full[Other(hw)]
    BY <1>1, Buffers DEF OrderInv, Values, NothingLeft
  <2>2. Packet(hw)' = <<>> /\ Packet(Other(hw))' = <<>>
    BY <1>1, <2>1 DEF Packet
  <2>3. <<>> \o <<>> = <<>>
    BY ConcatEmptySeq, EmptySeq
  <2> QED BY <1>1, <2>2, <2>3 DEF Sent
<1>4. SentOrdered'
  BY <1>1, <1>3 DEF OrderInv, SentOrdered, Loaded
<1> QED BY <1>2, <1>4 DEF OrderInv

LEMMA SameOrder ==
  ASSUME OrderInv, IInv', UNCHANGED <<appVars, hidVars, epVars, usb, got>>
  PROVE  OrderInv'
<1>1. /\ UNCHANGED <<buf, pc, made, abandoned, left, src, xy, full, pkt, hw, got, usb>>
  BY DEF appVars, hidVars, epVars
<1> QED BY <1>1 DEF OrderInv, Values, BuffersAlternate, NothingLeft, CallInBuffer, CallSent,
                    SentOrdered, Sent, Packet, Size, Loaded

LEMMA StepOrder == ASSUME OrderInv, [Next]_vars PROVE OrderInv'
<1>0. IInv'
  BY StepInv DEF OrderInv
<1>1. ASSUME NEW n \in 1..BufSize, Send(n) PROVE OrderInv'
  <2>1. made' = made + n /\ n \in Nat /\ UNCHANGED <<xy, epVars, busVars, got>>
    BY <1>1 DEF Send
  <2>2. CASE /\ CanSend /\ SendData(n) /\ pc' = "poll" /\ UNCHANGED <<result, abandoned>>
             /\ buf' = [i \in 0..BufSize-1 |-> IF i < n THEN made + 1 + i ELSE Junk]
    BY <1>0, <1>1, <2>2, StartOrder
  <2>3. CASE ~BusUp /\ Return(2) /\ UNCHANGED <<left, src, ifg>>
    BY <1>0, <2>1, <2>3, ReturnOrder DEF hidVars
  <2>4. CASE BusUp /\ left # 0 /\ Return(3) /\ UNCHANGED <<left, src, ifg>>
    BY <1>0, <2>1, <2>4, ReturnOrder DEF hidVars
  <2> QED BY <1>1, <2>2, <2>3, <2>4 DEF Send
<1>2. CASE Poll
  <2>1. UNCHANGED <<made, hidVars, epVars, busVars, got>> /\ (Return(2) \/ Return(0))
    BY <1>2 DEF Poll
  <2>2. 0 \in Nat /\ made' = made + 0
    BY <2>1 DEF OrderInv, Values
  <2> QED BY <1>0, <2>1, <2>2, ReturnOrder
<1>3. CASE Tick
  BY <1>0, <1>3, TickOrder
<1>4. CASE IepIsr
  <2>1. CASE left # 0
    BY <1>0, <1>4, <2>1, LoadOrder DEF IepIsr
  <2>2. CASE left = 0
    BY <1>0, <1>4, <2>2, SameOrder DEF IepIsr, epVars, busVars
  <2> QED BY <2>1, <2>2
<1>5. CASE HostReads
  BY <1>0, <1>5, ReadOrder
<1>6. CASE BusReset \/ VbusOn
  BY <1>0, <1>6, ResetOrder DEF BusReset, VbusOn
<1>7. CASE VbusOff
  BY <1>0, <1>7, OffOrder
<1>8. CASE Enumerate
  BY <1>0, <1>8, EnumerateOrder
<1>9. CASE Suspend \/ Resume \/ UNCHANGED vars
  BY <1>0, <1>9, SameOrder DEF Suspend, Resume, vars, busVars
<1> QED BY <1>1, <1>2, <1>3, <1>4, <1>5, <1>6, <1>7, <1>8, <1>9 DEF Next, Bus

\* The same for every step of the specification.
THEOREM OrderInvariance == Spec => []OrderInv
  BY InitOrder, StepOrder, PTL DEF Spec

\* Unless a wait was abandoned, the host gets the bytes in the order in which the
\* application made them, each once and none from a buffer's stale contents
\* (HidToHostFromBuffer, UsbHid.c:318, with its double buffering and resets).
THEOREM BytesInOrder == Spec => []InOrder
<1>1. OrderInv => InOrder
  <2> SUFFICES ASSUME OrderInv, ~abandoned, NEW i \in 1..Len(Sent), NEW j \in 1..Len(Sent), i < j
               PROVE  0 < Sent[i] /\ Sent[i] < Sent[j]
    BY DEF InOrder
  <2> QED BY DEF OrderInv, SentOrdered, Ordered
<1> QED BY <1>1, OrderInvariance, PTL

\* A wait that ends with 0 has sent the bytes of its call (usbConstructs.c, "it
\* succeeded"): they are the last the endpoint has taken, complete and in order.
THEOREM SuccessMeansSent == Spec => ZeroMeansSent
<1> DEFINE A == pc = "poll" /\ pc' = "loop" /\ result' = 0
                => \A i \in 0..BufSize-1 : buf[i] # Junk =>
                     LET n == made - buf[0]
                     IN  Len(Sent) > n /\ Sent[Len(Sent) - n + i] = buf[i]
<1>1. ASSUME OrderInv, [Next]_vars PROVE [A]_vars
  <2> SUFFICES ASSUME Next, pc = "poll", pc' = "loop", result' = 0
               PROVE  A
    BY <1>1
  <2>1. left = 0 /\ usb = "configured"
    <3>1. Poll
      BY DEF Next, Bus, Send, Tick, IepIsr, HostReads, BusReset, VbusOn, VbusOff, Enumerate,
             Suspend, Resume, UsbReset, appVars
    <3> QED BY <3>1 DEF Poll, Return, SendDone, BusGone, BusUp
  <2>2. ASSUME NEW i \in 0..BufSize-1, buf[i] # Junk
        PROVE  LET n == made - buf[0]
               IN  Len(Sent) > n /\ Sent[Len(Sent) - n + i] = buf[i]
    <3>1. /\ Size \in Nat /\ i < Size /\ buf[i] = made - Size + 1 + i /\ made \in Nat
          /\ buf[0] \in Nat /\ Sent \in Seq(Nat)
      <4>1. 0 \in 0..BufSize-1
        BY PayloadAssumption
      <4>2. buf[0] \in Nat /\ made \in Nat /\ Sent \in Seq(Nat)
        BY <1>1, <4>1, SentType DEF OrderInv, Values
      <4>3. Size \in 1..BufSize /\ buf[i] = IF i < Size THEN made - Size + 1 + i ELSE Junk
        BY <1>1, <2>2 DEF OrderInv, CallInBuffer
      <4>4. i < Size
        BY <2>2, <4>3
      <4> QED BY <4>2, <4>3, <4>4
    <3>2. Ends(Sent, Size, made - Size)
      BY <1>1, <2>1, <3>1 DEF OrderInv, CallSent
    <3>3. Len(Sent) >= Size /\ i + 1 \in 1..Size /\ Sent[Len(Sent) - Size + (i + 1)] = made - Size + (i + 1)
      <4>1. i + 1 \in 1..Size
        BY <2>2, <3>1
      <4> QED BY <3>2, <4>1 DEF Ends
    <3>4. made - buf[0] = Size - 1
      BY <3>1 DEF Size
    <3>5. Len(Sent) - Size + (i + 1) = Len(Sent) - (Size - 1) + i
      BY <3>1
    <3>6. Sent[Len(Sent) - (Size - 1) + i] = buf[i] /\ Len(Sent) > Size - 1
      BY <3>1, <3>3, <3>5
    <3> QED BY <3>4, <3>6
  <2> QED BY <2>2
<1> HIDE DEF A
<1>3. Spec => [][A]_vars
  BY <1>1, OrderInvariance, PTL DEF Spec
<1> QED BY <1>3 DEF A, ZeroMeansSent
=============================================================================
