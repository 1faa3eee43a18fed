--------------------------- MODULE KeyPathProofs ---------------------------
(***************************************************************************)
(* Proofs about KeyPath for every set of keys, queue limit, wiring and set *)
(* of guests.                                                              *)
(***************************************************************************)
EXTENDS KeyPath, Pic8259Lemmas, SequenceTheorems, TLAPS

----------------------------------------------------------------------------
(* The controller's output buffer.                                          *)

(* Nothing waits behind an empty output buffer (NothingHeldBack).           *)
Well(k) ==
  /\ k \in Controller
  /\ ~Full(k) => k.ctrl = 0
  /\ ~k.config.auxOff => k.hostAux = <<>>
  /\ ~k.config.auxOff /\ ~Full(k) => k.aux = 0

(* What no byte that moves between the queues changes.                      *)
Same(k, e) ==
  /\ e.a20 = k.a20 /\ e.reset = k.reset
  /\ e.config = k.config /\ e.hostAux = k.hostAux

(* A byte in the output buffer stays there.                                 *)
Unread(k, e) == Full(k) => e.out = k.out /\ e.fromAux = k.fromAux

(* The keys in the controller stay: the scancodes wait, and only a byte     *)
(* that is no key comes in the place of another that is none.               *)
KeepsKeys(k, e) ==
  /\ e.scan = k.scan
  /\ e.out # k.out => k.out \notin Makes /\ e.out \notin Makes

(* A queue is looked at when the buffer is empty, and gives its byte or is  *)
(* left as it is.                                                           *)
Flushed(k, e) ==
  /\ e \in Controller
  /\ Same(k, e)
  /\ Full(k) \/ ~Full(e) => e = k

LEMMA ByteTypes ==
  /\ NoByte \notin Bytes /\ Mouse \notin Makes
  /\ Makes \subseteq KeyBytes /\ KeyBytes \subseteq Bytes
  /\ {Reply, Stray, Mouse, Quiet} \subseteq Bytes
  /\ {Reply, Stray, Mouse, Quiet, NoByte} \cap Makes = {}
BY I8042Assumption
   DEF Bytes, KeyBytes, NoByte, Mouse, Reply, Stray, Quiet, BreakPrefix

LEMMA Pushed ==
  ASSUME NEW k \in Controller, NEW b \in Bytes
  PROVE  /\ PushOutput(k, b) \in Controller
         /\ Same(k, PushOutput(k, b)) /\ Full(PushOutput(k, b))
         /\ PushOutput(k, b).ctrl = k.ctrl
         /\ ~PushOutput(k, b).fromAux
         /\ PushOutput(k, b).out = b /\ PushOutput(k, b).scan = k.scan
BY ByteTypes DEF PushOutput, Controller, Same, Full

LEMMA Presented ==
  ASSUME NEW k \in Controller, NEW b \in Bytes
  PROVE  /\ PresentKbd(k, b) \in Controller
         /\ Same(k, PresentKbd(k, b)) /\ Full(PresentKbd(k, b))
         /\ PresentKbd(k, b).ctrl = k.ctrl
         /\ PresentKbd(k, b).scan = k.scan /\ PresentKbd(k, b).resp = k.resp
         /\ PresentKbd(k, b).out = b
<1> DEFINE p == PushOutput(k, b)
<1>1. p \in Controller /\ Same(k, p) /\ Full(p) /\ p.ctrl = k.ctrl
  BY Pushed
<1>2. p.scan = k.scan /\ p.resp = k.resp /\ p.out = b
  BY DEF PushOutput, Controller
<1> HIDE DEF p
<1>3. Looks(b) \in {Reply, Stray}
  BY DEF Looks
<1>4. PresentKbd(k, b) = [p EXCEPT !.last = Looks(b)]
  BY DEF PresentKbd, p
<1> QED BY <1>1, <1>2, <1>3, <1>4 DEF Controller, Same, Full

LEMMA FlushCtrlWorks ==
  ASSUME NEW k \in Controller
  PROVE  /\ Flushed(k, FlushCtrl(k)) /\ KeepsKeys(k, FlushCtrl(k))
         /\ ~Full(FlushCtrl(k)) => k.ctrl = 0
<1>1. CASE Full(k) \/ k.ctrl = 0
  BY <1>1 DEF FlushCtrl, Flushed, Same, KeepsKeys
<1>2. CASE ~(Full(k) \/ k.ctrl = 0)
  <2> DEFINE p == PushOutput(k, Stray)
  <2>1. /\ p \in Controller /\ Same(k, p) /\ Full(p) /\ p.ctrl = k.ctrl
        /\ p.out = Stray /\ p.scan = k.scan
    BY ByteTypes, Pushed
  <2>2. FlushCtrl(k) = [p EXCEPT !.ctrl = p.ctrl - 1]
    BY <1>2 DEF FlushCtrl
  <2> HIDE DEF p
  <2>3. p.ctrl - 1 \in 0 .. DumpLen
    BY <1>2, <2>1, I8042Assumption DEF Controller
  <2>4. /\ FlushCtrl(k) \in Controller /\ Same(p, FlushCtrl(k))
        /\ Full(FlushCtrl(k))
    BY <2>1, <2>2, <2>3 DEF Controller, Same, Full
  <2>5. FlushCtrl(k).out = Stray /\ FlushCtrl(k).scan = k.scan
    BY <2>1, <2>2 DEF Controller
  <2>6. KeepsKeys(k, FlushCtrl(k))
    BY <1>2, <2>5, ByteTypes DEF KeepsKeys, Full
  <2> QED BY <1>2, <2>1, <2>4, <2>6 DEF Flushed, Same
<1> QED BY <1>1, <1>2

LEMMA FlushRespWorks ==
  ASSUME NEW k \in Controller
  PROVE  Flushed(k, FlushResp(k)) /\ KeepsKeys(k, FlushResp(k))
<1>1. CASE Full(k) \/ k.config.kbdOff \/ k.resp = <<>>
  BY <1>1 DEF FlushResp, Flushed, Same, KeepsKeys
<1>2. CASE ~(Full(k) \/ k.config.kbdOff \/ k.resp = <<>>)
  <2>1. k.resp \in Seq({Reply, Stray}) /\ k.resp # <<>>
    BY <1>2 DEF Controller
  <2>2. /\ Head(k.resp) \in {Reply, Stray}
        /\ Head(k.resp) \in Bytes /\ Tail(k.resp) \in Seq({Reply, Stray})
    BY <2>1, ByteTypes, HeadTailProperties
  <2> DEFINE p == PresentKbd(k, Head(k.resp))
  <2>3. /\ p \in Controller /\ Same(k, p) /\ Full(p) /\ p.resp = k.resp
        /\ p.out = Head(k.resp) /\ p.scan = k.scan
    BY <2>2, Presented
  <2>4. FlushResp(k) = [p EXCEPT !.resp = Tail(k.resp)]
    BY <1>2, <2>3 DEF FlushResp
  <2> HIDE DEF p
  <2>5. /\ FlushResp(k) \in Controller /\ Same(p, FlushResp(k))
        /\ Full(FlushResp(k))
    BY <2>2, <2>3, <2>4 DEF Controller, Same, Full
  <2>6. FlushResp(k).out = Head(k.resp) /\ FlushResp(k).scan = k.scan
    BY <2>3, <2>4 DEF Controller
  <2>7. KeepsKeys(k, FlushResp(k))
    BY <1>2, <2>2, <2>6, ByteTypes DEF KeepsKeys, Full
  <2> QED BY <1>2, <2>3, <2>5, <2>7 DEF Flushed, Same
<1> QED BY <1>1, <1>2

LEMMA FlushScanWorks ==
  ASSUME NEW k \in Controller
  PROVE  /\ Flushed(k, FlushScan(k))
         /\ \/ FlushScan(k) = k
            \/ /\ ~Full(k) /\ k.scan # <<>>
               /\ FlushScan(k).out = Head(k.scan)
               /\ FlushScan(k).scan = Tail(k.scan)
<1>1. CASE Full(k) \/ k.config.kbdOff \/ k.scan = <<>>
  BY <1>1 DEF FlushScan, Flushed, Same
<1>2. CASE ~(Full(k) \/ k.config.kbdOff \/ k.scan = <<>>)
  <2>1. k.scan \in Seq(KeyBytes) /\ k.scan # <<>>
    BY <1>2 DEF Controller
  <2>2. Head(k.scan) \in Bytes /\ Tail(k.scan) \in Seq(KeyBytes)
    BY <2>1, ByteTypes, HeadTailProperties
  <2> DEFINE p == PresentKbd(k, Head(k.scan))
  <2>3. /\ p \in Controller /\ Same(k, p) /\ Full(p) /\ p.scan = k.scan
        /\ p.out = Head(k.scan)
    BY <2>2, Presented
  <2>4. FlushScan(k) = [p EXCEPT !.scan = Tail(k.scan)]
    BY <1>2, <2>3 DEF FlushScan
  <2> HIDE DEF p
  <2>5. /\ FlushScan(k) \in Controller /\ Same(p, FlushScan(k))
        /\ Full(FlushScan(k))
    BY <2>2, <2>3, <2>4 DEF Controller, Same, Full
  <2>6. FlushScan(k).out = Head(k.scan) /\ FlushScan(k).scan = Tail(k.scan)
    BY <2>3, <2>4 DEF Controller
  <2> QED BY <1>2, <2>3, <2>5, <2>6 DEF Flushed, Same
<1> QED BY <1>1, <1>2

LEMMA FlushAuxWorks ==
  ASSUME NEW k \in Controller
  PROVE  /\ Flushed(k, FlushAux(k)) /\ KeepsKeys(k, FlushAux(k))
         /\ ~Full(FlushAux(k)) => k.config.auxOff \/ k.aux = 0
         /\ ~Full(k) => FlushAux(k) = k \/ FlushAux(k).fromAux
<1>1. CASE Full(k) \/ k.config.auxOff \/ k.aux = 0
  BY <1>1 DEF FlushAux, Flushed, Same, KeepsKeys
<1>2. CASE ~(Full(k) \/ k.config.auxOff \/ k.aux = 0)
  <2>1. FlushAux(k)
          = [k EXCEPT !.out = Mouse, !.fromAux = TRUE, !.aux = k.aux - 1]
    BY <1>2 DEF FlushAux
  <2>2. k.aux - 1 \in 0 .. AuxCap
    BY <1>2, I8042Assumption DEF Controller
  <2> DEFINE e == FlushAux(k)
  <2> HIDE DEF e
  <2>3. Mouse \in Bytes /\ Mouse # NoByte /\ {Mouse, NoByte} \cap Makes = {}
    BY ByteTypes
  <2>4. e \in Controller
    BY <2>1, <2>2, <2>3 DEF Controller, e
  <2>5. e.fromAux /\ e.out = Mouse /\ Same(k, e) /\ e.scan = k.scan
    BY <2>1 DEF Controller, Same, e
  <2>6. KeepsKeys(k, e)
    BY <1>2, <2>3, <2>5 DEF KeepsKeys, Full
  <2> QED BY <1>2, <2>3, <2>4, <2>5, <2>6 DEF Flushed, Full, e
<1> QED BY <1>1, <1>2

LEMMA FlushedWell ==
  ASSUME NEW k, Well(k), NEW e, Flushed(k, e)
  PROVE  Well(e) /\ Same(k, e) /\ Unread(k, e)
BY DEF Well, Flushed, Same, Unread

(* What a command, a byte or a key makes of the controller: nothing is held *)
(* back, the A20 gate and a byte somebody has still to read stay.           *)
Moves(k, e) == Well(e) /\ e.a20 = k.a20 /\ Unread(k, e)

LEMMA MovesFlushed ==
  ASSUME NEW k, NEW m, Well(m), m.a20 = k.a20, Unread(k, m), Full(k) => Full(m),
         NEW e, Flushed(m, e)
  PROVE  Moves(k, e)
<1>1. Well(e) /\ Same(m, e) /\ Unread(m, e)
  BY FlushedWell
<1> QED BY <1>1 DEF Moves, Same, Unread

LEMMA TakeWell ==
  ASSUME NEW k, Well(k)
  PROVE  /\ Well(TakeOutput(k)) /\ Same(k, TakeOutput(k))
<1> DEFINE k0 == [k EXCEPT !.out = NoByte, !.fromAux = FALSE]
           k1 == FlushCtrl(k0)
           k2 == FlushResp(k1)
           k3 == FlushScan(k2)
           k4 == FlushAux(k3)
<1>1. k0 \in Controller /\ Same(k, k0) /\ ~Full(k0)
  BY DEF Well, Controller, Same, Full
<1> HIDE DEF k0
<1>2. Flushed(k0, k1) /\ (~Full(k1) => k0.ctrl = 0)
  BY <1>1, FlushCtrlWorks
<1> HIDE DEF k1
<1>3. Flushed(k1, k2)
  BY <1>2, FlushRespWorks DEF Flushed
<1> HIDE DEF k2
<1>4. Flushed(k2, k3)
  BY <1>3, FlushScanWorks DEF Flushed
<1> HIDE DEF k3
<1>5. Flushed(k3, k4) /\ (~Full(k4) => k3.config.auxOff \/ k3.aux = 0)
  BY <1>4, FlushAuxWorks DEF Flushed
<1> HIDE DEF k4
<1>6. Same(k, k4) /\ k4 \in Controller
  BY <1>1, <1>2, <1>3, <1>4, <1>5 DEF Flushed, Same
<1>7. ~Full(k4) => k4 = k3 /\ k3 = k2 /\ k2 = k1 /\ k1 = k0
  BY <1>2, <1>3, <1>4, <1>5 DEF Flushed
<1>8. Well(k4)
  BY <1>2, <1>5, <1>6, <1>7 DEF Well, Same
<1>9. k4 = TakeOutput(k)
  BY DEF TakeOutput, k0, k1, k2, k3, k4
<1> QED BY <1>6, <1>8, <1>9

LEMMA PushWell ==
  ASSUME NEW k, Well(k), NEW b \in Bytes
  PROVE  /\ Well(PushOutput(k, b)) /\ Same(k, PushOutput(k, b))
         /\ Well(PresentKbd(k, b)) /\ Same(k, PresentKbd(k, b))
BY Pushed, Presented DEF Well, Same

----------------------------------------------------------------------------
(* The devices.                                                             *)

LEMMA RespMoves ==
  ASSUME NEW k, Well(k), NEW bytes \in Seq({Reply, Stray})
  PROVE  Moves(k, BeginResp(k, bytes)) /\ KeepsKeys(k, BeginResp(k, bytes))
<1> DEFINE m == [k EXCEPT !.resp = bytes]
<1>1. /\ m \in Controller /\ Same(k, m) /\ m.out = k.out
      /\ m.ctrl = k.ctrl /\ m.aux = k.aux /\ m.scan = k.scan
  BY DEF Well, Controller, Same
<1>2. m.fromAux = k.fromAux
  BY DEF Well, Controller
<1> HIDE DEF m
<1>3. Well(m) /\ Unread(k, m) /\ (Full(k) => Full(m)) /\ m.a20 = k.a20
  BY <1>1, <1>2 DEF Well, Same, Unread, Full
<1>4. Flushed(m, FlushResp(m)) /\ KeepsKeys(m, FlushResp(m))
  BY <1>1, FlushRespWorks
<1>5. Moves(k, FlushResp(m)) /\ KeepsKeys(k, FlushResp(m))
  BY <1>1, <1>3, <1>4, MovesFlushed DEF KeepsKeys
<1> QED BY <1>5 DEF BeginResp, m

LEMMA WellItself ==
  ASSUME NEW k, Well(k)
  PROVE  Moves(k, k) /\ KeepsKeys(k, k)
BY DEF Moves, Unread, KeepsKeys

(* A change of the devices' own state, and of the mouse's queue if aux.     *)
Aside(k, m) ==
  /\ m \in Controller
  /\ Same(k, m)
  /\ m.out = k.out /\ m.fromAux = k.fromAux /\ m.ctrl = k.ctrl
  /\ m.scan = k.scan

LEMMA AsideWell ==
  ASSUME NEW k, Well(k), NEW m, Aside(k, m), m.aux = k.aux
  PROVE  Moves(k, m) /\ KeepsKeys(k, m) /\ (Full(k) => Full(m))
BY DEF Aside, Well, Same, Moves, Unread, Full, KeepsKeys

LEMMA KbdByteMoves ==
  ASSUME NEW k, Well(k), NEW c
  PROVE  Moves(k, KbdByte(k, c)) /\ KeepsKeys(k, KbdByte(k, c))
<1> DEFINE Tuned(m) == Aside(k, m) /\ m.aux = k.aux
           Good(e) == Moves(k, e) /\ KeepsKeys(k, e)
<1>1. ASSUME NEW m, Tuned(m), NEW bytes \in Seq({Reply, Stray})
      PROVE  Good(BeginResp(m, bytes))
  <2>1. Moves(k, m) /\ KeepsKeys(k, m) /\ (Full(k) => Full(m))
    BY <1>1, AsideWell
  <2>2. Moves(m, BeginResp(m, bytes)) /\ KeepsKeys(m, BeginResp(m, bytes))
    BY <1>1, <2>1, RespMoves DEF Moves
  <2>3. KeepsKeys(k, BeginResp(m, bytes))
    BY <2>1, <2>2 DEF KeepsKeys
  <2>4. Moves(k, BeginResp(m, bytes))
    BY <2>1, <2>2 DEF Moves, Unread
  <2> QED BY <2>3, <2>4
<1>2. \A p \in {"none", "value", "set"} : Tuned([k EXCEPT !.kbdParam = p])
  BY DEF Well, Controller, Same, Aside
<1>3. \A b \in BOOLEAN : Tuned([k EXCEPT !.scanning = b])
  BY DEF Well, Controller, Same, Aside
<1>4. Tuned(KbdDefaults(k))
  BY DEF KbdDefaults, Well, Controller, Same, Aside
<1>5. Tuned(k) /\ k.last \in {Reply, Stray}
  BY DEF Well, Controller, Same, Aside
<1>6. /\ <<Reply>> \in Seq({Reply, Stray})
      /\ <<k.last>> \in Seq({Reply, Stray})
      /\ <<Reply, Stray>> \in Seq({Reply, Stray})
      /\ <<Reply, Reply>> \in Seq({Reply, Stray})
      /\ <<Reply, Reply, Reply>> \in Seq({Reply, Stray})
  BY <1>5
<1>7. \A m : Tuned(m) => Good(m)
  BY AsideWell
<1> HIDE DEF Tuned, Good
<1>8. Good(KbdByte(k, c))
  <2>1. CASE k.kbdParam # "none"
    <3> DEFINE done == [k EXCEPT !.kbdParam = "none"]
    <3>1. Tuned(done)
      BY <1>2
    <3> HIDE DEF done
    <3>2. KbdByte(k, c) \in {BeginResp(done, <<Reply>>),
                             BeginResp(done, <<Reply, Stray>>), done}
      BY <2>1 DEF KbdByte, KbdParamByte, done
    <3> QED BY <1>1, <1>6, <1>7, <3>1, <3>2
  <2>2. CASE k.kbdParam = "none"
    <3>1. KbdByte(k, c) \in
            {BeginResp(KbdDefaults(k), <<Reply, Reply>>),
             BeginResp(KbdDefaults(k), <<Reply>>),
             BeginResp(k, <<Reply, Reply, Reply>>),
             BeginResp([k EXCEPT !.scanning = TRUE], <<Reply>>),
             BeginResp([k EXCEPT !.scanning = FALSE], <<Reply>>),
             BeginResp([k EXCEPT !.kbdParam = "value"], <<Reply>>),
             BeginResp([k EXCEPT !.kbdParam = "set"], <<Reply>>),
             BeginResp(k, <<k.last>>), BeginResp(k, <<Reply>>), k}
      BY <2>2 DEF KbdByte
    <3>2. /\ Good(BeginResp(KbdDefaults(k), <<Reply, Reply>>))
          /\ Good(BeginResp(KbdDefaults(k), <<Reply>>))
          /\ Good(BeginResp(k, <<Reply, Reply, Reply>>))
          /\ Good(BeginResp(k, <<k.last>>))
          /\ Good(BeginResp(k, <<Reply>>))
          /\ Good(k)
      BY <1>1, <1>4, <1>5, <1>6, <1>7
    <3>3. /\ Good(BeginResp([k EXCEPT !.scanning = TRUE], <<Reply>>))
          /\ Good(BeginResp([k EXCEPT !.scanning = FALSE], <<Reply>>))
      BY <1>1, <1>3, <1>6
    <3>4. /\ Good(BeginResp([k EXCEPT !.kbdParam = "value"], <<Reply>>))
          /\ Good(BeginResp([k EXCEPT !.kbdParam = "set"], <<Reply>>))
      BY <1>1, <1>2, <1>6
    <3> QED BY <3>1, <3>2, <3>3, <3>4, Zenon
  <2> QED BY <2>1, <2>2
<1> QED BY <1>8 DEF Good

(* Well but for mouse bytes that nothing has looked at yet.                 *)
Fair(k) ==
  /\ k \in Controller
  /\ ~Full(k) => k.ctrl = 0
  /\ ~k.config.auxOff => k.hostAux = <<>>

(* The mouse's answer, and what it is made of.                              *)
Answers(k, e) ==
  /\ Fair(e) /\ Unread(k, e)
  /\ e.a20 = k.a20 /\ e.config = k.config /\ e.hostAux = k.hostAux
  /\ KeepsKeys(k, e)
  /\ Full(k) => Full(e)
  /\ Well(e) \/ e = k

LEMMA MouseAnswers ==
  ASSUME NEW k, Fair(k), NEW m, Aside(k, m), NEW n \in 0 .. AuxCap
  PROVE  Answers(k, BeginMouse(m, n))
<1> DEFINE q == [m EXCEPT !.aux = n]
           e == FlushAux(q)
<1>1. /\ q \in Controller /\ Same(k, q) /\ q.out = k.out /\ q.ctrl = k.ctrl
      /\ q.aux = n /\ q.scan = k.scan
  BY DEF Aside, Controller, Same
<1>2. q.fromAux = k.fromAux
  BY DEF Aside, Controller
<1> HIDE DEF q
<1>3. /\ Flushed(q, e) /\ KeepsKeys(q, e)
      /\ ~Full(e) => q.config.auxOff \/ q.aux = 0
  BY <1>1, FlushAuxWorks
<1> HIDE DEF e
<1>4. Fair(e) /\ Same(k, e) /\ Unread(k, e) /\ (Full(k) => Full(e))
  BY <1>1, <1>2, <1>3 DEF Fair, Flushed, Same, Unread, Full
<1>5. ~e.config.auxOff /\ ~Full(e) => e.aux = 0
  BY <1>1, <1>3, <1>4 DEF Flushed, Same
<1>6. Well(e)
  BY <1>4, <1>5 DEF Fair, Well
<1>7. KeepsKeys(k, e)
  BY <1>1, <1>3 DEF KeepsKeys
<1> QED BY <1>4, <1>6, <1>7 DEF Answers, Same, BeginMouse, e, q

LEMMA MouseByteAnswers ==
  ASSUME NEW k, Fair(k), NEW c
  PROVE  Answers(k, MouseByte(k, c))
<1>1. \A b \in BOOLEAN : /\ Aside(k, [k EXCEPT !.mouseParam = b])
                         /\ Aside(k, [k EXCEPT !.reporting = b])
                         /\ Aside(k, [k EXCEPT !.wrap = b])
  <2> TAKE b \in BOOLEAN
  <2>1. Aside(k, [k EXCEPT !.mouseParam = b])
    BY ZenonT(60) DEF Fair, Controller, Same, Aside
  <2>2. Aside(k, [k EXCEPT !.reporting = b])
    BY ZenonT(60) DEF Fair, Controller, Same, Aside
  <2>3. Aside(k, [k EXCEPT !.wrap = b])
    BY ZenonT(60) DEF Fair, Controller, Same, Aside
  <2> QED BY <2>1, <2>2, <2>3
<1>2. Aside(k, MouseDefaults(k)) /\ Aside(k, k)
  BY DEF Fair, Controller, Same, Aside, MouseDefaults
<1>3. /\ 1 \in 0 .. AuxCap /\ 2 \in 0 .. AuxCap /\ 3 \in 0 .. AuxCap
      /\ MouseStatusLen \in 0 .. AuxCap
  BY I8042Assumption DEF MouseStatusLen
<1>4. \A m : Aside(k, m) => /\ Answers(k, BeginMouse(m, 1))
                            /\ Answers(k, BeginMouse(m, 2))
                            /\ Answers(k, BeginMouse(m, 3))
                            /\ Answers(k, BeginMouse(m, MouseStatusLen))
  BY <1>3, MouseAnswers
<1>5. Answers(k, k)
  BY DEF Answers, Unread, KeepsKeys
<1>6. MouseByte(k, c) \in
        {BeginMouse(k, 1), BeginMouse([k EXCEPT !.mouseParam = FALSE], 1),
         BeginMouse(MouseDefaults(k), 3), BeginMouse(MouseDefaults(k), 1),
         BeginMouse(k, 2), BeginMouse(k, MouseStatusLen),
         BeginMouse([k EXCEPT !.reporting = TRUE], 1),
         BeginMouse([k EXCEPT !.reporting = FALSE], 1),
         BeginMouse([k EXCEPT !.mouseParam = TRUE], 1),
         BeginMouse([k EXCEPT !.wrap = TRUE], 1),
         BeginMouse([k EXCEPT !.wrap = FALSE], 1), k}
  BY DEF MouseByte
<1>7. /\ Answers(k, BeginMouse([k EXCEPT !.mouseParam = FALSE], 1))
      /\ Answers(k, BeginMouse([k EXCEPT !.mouseParam = TRUE], 1))
      /\ Answers(k, BeginMouse([k EXCEPT !.reporting = FALSE], 1))
      /\ Answers(k, BeginMouse([k EXCEPT !.reporting = TRUE], 1))
      /\ Answers(k, BeginMouse([k EXCEPT !.wrap = FALSE], 1))
      /\ Answers(k, BeginMouse([k EXCEPT !.wrap = TRUE], 1))
  BY <1>1, <1>4
<1>8. /\ Answers(k, BeginMouse(k, 1)) /\ Answers(k, BeginMouse(k, 2))
      /\ Answers(k, BeginMouse(k, MouseStatusLen))
      /\ Answers(k, BeginMouse(MouseDefaults(k), 3))
      /\ Answers(k, BeginMouse(MouseDefaults(k), 1))
  BY <1>2, <1>4
<1> QED BY <1>5, <1>6, <1>7, <1>8, Zenon

LEMMA MouseByteMoves ==
  ASSUME NEW k, Well(k), NEW c
  PROVE  Moves(k, MouseByte(k, c)) /\ KeepsKeys(k, MouseByte(k, c))
<1>1. Fair(k)
  BY DEF Well, Fair
<1> QED BY <1>1, MouseByteAnswers DEF Answers, Moves

(* on_aux_clock_enabled: the bytes the mouse missed reach it one by one.    *)
Feeds(k, g, m) ==
  g = [n \in 0 .. m |->
         IF n = 0 THEN [k EXCEPT !.config.auxOff = FALSE, !.hostAux = <<>>]
         ELSE MouseByte(g[n - 1], k.hostAux[n])]

LEMMA FeedsExists ==
  ASSUME NEW k, NEW N \in Nat
  PROVE  \E g : Feeds(k, g, N)
<1> DEFINE k0 == [k EXCEPT !.config.auxOff = FALSE, !.hostAux = <<>>]
           T == {m \in 0 .. N : ~\E g : Feeds(k, g, m)}
<1> HIDE DEF k0
<1> SUFFICES ASSUME T # {}
             PROVE  FALSE
  <2>1. N \in 0 .. N
    OBVIOUS
  <2> QED BY <2>1
<1>1. T \subseteq Nat
  OBVIOUS
<1>2. PICK m \in T : \A n \in T : m <= n
  <2> HIDE DEF T
  <2> QED BY <1>1, LeastNatural
<1>3. m \in 0 .. N /\ ~\E g : Feeds(k, g, m)
  BY <1>2
<1>4. CASE m = 0
  <2> DEFINE g == [n \in 0 .. 0 |-> k0]
  <2>1. g = [n \in 0 .. 0 |-> IF n = 0 THEN k0
                              ELSE MouseByte(g[n - 1], k.hostAux[n])]
    OBVIOUS
  <2> HIDE DEF g
  <2> QED BY <1>3, <1>4, <2>1 DEF Feeds, k0
<1>5. CASE m # 0
  <2>1. m - 1 \in 0 .. N /\ m - 1 \notin T
    BY <1>2, <1>3, <1>5
  <2>2. PICK f : Feeds(k, f, m - 1)
    BY <2>1
  <2> DEFINE h == [n \in 0 .. m |-> IF n = m THEN MouseByte(f[m - 1], k.hostAux[m])
                                             ELSE f[n]]
  <2>3. \A n \in 0 .. m - 1 :
          f[n] = IF n = 0 THEN k0 ELSE MouseByte(f[n - 1], k.hostAux[n])
    BY <2>2 DEF Feeds, k0
  <2>4. ASSUME NEW n \in 0 .. m
        PROVE  h[n] = IF n = 0 THEN k0 ELSE MouseByte(h[n - 1], k.hostAux[n])
    <3>1. CASE n = m
      <4>1. n # 0 /\ n - 1 \in 0 .. m /\ n - 1 # m
        BY <1>3, <1>5, <3>1
      <4>2. h[n - 1] = f[m - 1] /\ h[n] = MouseByte(f[m - 1], k.hostAux[m])
        BY <3>1, <4>1
      <4> QED BY <3>1, <4>1, <4>2
    <3>2. CASE n # m
      <4>1. n \in 0 .. m - 1 /\ h[n] = f[n]
        BY <1>3, <3>2
      <4>2. CASE n = 0
        BY <2>3, <4>1, <4>2
      <4>3. CASE n # 0
        <5>1. n - 1 \in 0 .. m /\ n - 1 # m
          BY <1>3, <3>2, <4>3
        <5>2. h[n - 1] = f[n - 1]
          BY <5>1
        <5> HIDE DEF h
        <5> QED BY <2>3, <4>1, <4>3, <5>2
      <4> QED BY <4>2, <4>3
    <3> QED BY <3>1, <3>2
  <2>5. h = [n \in 0 .. m |-> IF n = 0 THEN k0
                              ELSE MouseByte(h[n - 1], k.hostAux[n])]
    <3>1. h = [n \in 0 .. m |-> h[n]]
      OBVIOUS
    <3> HIDE DEF h
    <3> QED BY <2>4, <3>1
  <2> HIDE DEF h
  <2> QED BY <1>3, <2>5 DEF Feeds, k0
<1> QED BY <1>4, <1>5

LEMMA EnableAuxMoves ==
  ASSUME NEW k, k \in Controller, ~Full(k) => k.ctrl = 0
  PROVE  Moves(k, EnableAux(k)) /\ KeepsKeys(k, EnableAux(k))
<1> DEFINE N == Len(k.hostAux)
           fed == CHOOSE g : Feeds(k, g, N)
           k0 == [k EXCEPT !.config.auxOff = FALSE, !.hostAux = <<>>]
           Good(e) == /\ Fair(e) /\ Unread(k, e) /\ e.a20 = k.a20
                      /\ KeepsKeys(k, e)
                      /\ Full(k) => Full(e)
<1>1. N \in Nat
  BY DEF Controller
<1>2. EnableAux(k) = FlushAux(fed[N])
  BY DEF EnableAux, Feeds
<1>3. Feeds(k, fed, N)
  BY <1>1, FeedsExists
<1> HIDE DEF fed
<1>4. \A n \in 0 .. N : fed[n] = IF n = 0 THEN k0
                                 ELSE MouseByte(fed[n - 1], k.hostAux[n])
  BY <1>3 DEF Feeds
<1>5. Good(k0)
  <2>1. k0 \in Controller
    <3> DEFINE config == [k.config EXCEPT !.auxOff = FALSE]
    <3>1. config \in Config
      BY DEF Controller, Config
    <3>2. k0 = [k EXCEPT !.config = config, !.hostAux = <<>>]
      BY DEF Controller
    <3>3. <<>> \in Seq(MouseCommands)
      OBVIOUS
    <3> HIDE DEF config, k0
    <3> QED BY <3>1, <3>2, <3>3 DEF Controller
  <2>2. k0.out = k.out /\ k0.fromAux = k.fromAux /\ k0.hostAux = <<>>
    BY DEF Controller
  <2>3. k0.a20 = k.a20 /\ k0.ctrl = k.ctrl /\ k0.scan = k.scan
    BY DEF Controller
  <2> HIDE DEF k0
  <2> QED BY <2>1, <2>2, <2>3 DEF Fair, Unread, Full, KeepsKeys
<1> HIDE DEF k0, Good, N
<1>6. ASSUME NEW e, Good(e), NEW c
      PROVE  Good(MouseByte(e, c))
  <2>1. Answers(e, MouseByte(e, c))
    BY <1>6, MouseByteAnswers DEF Good
  <2>2. KeepsKeys(k, MouseByte(e, c))
    BY <1>6, <2>1 DEF Good, Answers, KeepsKeys
  <2> QED BY <1>6, <2>1, <2>2 DEF Good, Answers, Unread
<1>7. Good(fed[N])
  <2> DEFINE T == {m \in 0 .. N : ~Good(fed[m])}
  <2> SUFFICES ASSUME T # {}
               PROVE  FALSE
    <3>1. N \in 0 .. N
      BY <1>1
    <3> QED BY <3>1
  <2>1. PICK m \in T : \A n \in T : m <= n
    <3>1. T \subseteq Nat
      OBVIOUS
    <3> HIDE DEF T
    <3> QED BY <3>1, LeastNatural
  <2>2. m \in 0 .. N /\ ~Good(fed[m])
    BY <2>1
  <2>3. CASE m = 0
    BY <1>4, <1>5, <2>2, <2>3
  <2>4. CASE m # 0
    <3>1. m - 1 \in 0 .. N /\ m - 1 \notin T
      BY <1>1, <2>1, <2>2, <2>4
    <3>2. Good(fed[m - 1])
      BY <3>1
    <3>3. fed[m] = MouseByte(fed[m - 1], k.hostAux[m])
      BY <1>4, <2>2, <2>4
    <3> QED BY <1>6, <2>2, <3>2, <3>3
  <2> QED BY <2>3, <2>4
<1> DEFINE f == fed[N]
           e == FlushAux(f)
<1> HIDE DEF f
<1>8. Good(f)
  BY <1>7 DEF f
<1>9. /\ Flushed(f, e) /\ KeepsKeys(f, e)
      /\ ~Full(e) => f.config.auxOff \/ f.aux = 0
  BY <1>8, FlushAuxWorks DEF Good, Fair
<1> HIDE DEF e
<1>10. Well(e)
  BY <1>8, <1>9 DEF Good, Fair, Flushed, Same, Well
<1>11. e.a20 = k.a20 /\ Unread(k, e)
  BY <1>8, <1>9 DEF Good, Flushed, Same, Unread
<1>12. KeepsKeys(k, e)
  BY <1>8, <1>9 DEF Good, KeepsKeys
<1> QED BY <1>2, <1>10, <1>11, <1>12 DEF Moves, e, f

(* A key, a break or a prefix from the keyboard.                            *)
LEMMA ScanMoves ==
  ASSUME NEW k, Well(k), NEW b \in DeviceBytes
  PROVE  /\ Moves(k, InjectScancode(k, b))
         /\ InjectScancode(k, b).config = k.config
<1> DEFINE seen == [k EXCEPT !.breakNext = k.config.translate /\ b = BreakPrefix]
           h == HostByte(k, b)
           more == [seen EXCEPT !.scan = Append(seen.scan, h)]
<1>1. Aside(k, seen) /\ seen.aux = k.aux
  BY DEF Well, Controller, Same, Aside
<1>2. Moves(k, seen) /\ (Full(k) => Full(seen)) /\ seen.config = k.config
  BY <1>1, AsideWell DEF Aside, Same
<1>3. seen.scan \in Seq(KeyBytes)
  BY <1>1 DEF Aside, Controller
<1>4. Full(seen) => Full(k)
  BY <1>1 DEF Aside, Full
<1> HIDE DEF seen
<1>5. CASE k.config.kbdOff \/ ~k.scanning
  BY <1>5, WellItself DEF InjectScancode
<1>6. CASE ~(k.config.kbdOff \/ ~k.scanning) /\ h = NoByte
  <2>1. InjectScancode(k, b) = seen
    BY <1>6 DEF InjectScancode, seen
  <2> QED BY <1>2, <2>1
<1>7. CASE ~(k.config.kbdOff \/ ~k.scanning) /\ h # NoByte
  <2>1. InjectScancode(k, b) = QueueScan(seen, h)
    BY <1>7 DEF InjectScancode, seen
  <2>2. h \in KeyBytes
    BY <1>7 DEF HostByte, DeviceBytes, KeyBytes
  <2> HIDE DEF h
  <2>3. CASE ~Full(seen) /\ seen.scan = <<>>
    <3>1. QueueScan(seen, h) = PresentKbd(seen, h)
      BY <2>3 DEF QueueScan
    <3>2. Well(PresentKbd(seen, h)) /\ Same(seen, PresentKbd(seen, h))
      BY <1>2, <2>2, ByteTypes, PushWell DEF Moves
    <3>3. ~Full(k)
      BY <1>2, <2>3
    <3> QED BY <1>2, <2>1, <3>1, <3>2, <3>3 DEF Moves, Same, Unread
  <2>4. CASE ~(~Full(seen) /\ seen.scan = <<>>) /\ Len(seen.scan) >= ScanCap
    <3>1. QueueScan(seen, h) = seen
      BY <2>4 DEF QueueScan
    <3> QED BY <1>2, <2>1, <3>1
  <2>5. CASE ~(~Full(seen) /\ seen.scan = <<>>) /\ ~(Len(seen.scan) >= ScanCap)
    <3>1. QueueScan(seen, h) = FlushScan(more)
      BY <2>5 DEF QueueScan
    <3>2. Append(seen.scan, h) \in Seq(KeyBytes)
      BY <1>3, <2>2, AppendProperties
    <3>3. /\ more \in Controller /\ Same(seen, more)
          /\ more.out = seen.out /\ more.fromAux = seen.fromAux
          /\ more.ctrl = seen.ctrl /\ more.aux = seen.aux
      BY <1>1, <3>2 DEF Aside, Controller, Same
    <3> HIDE DEF more
    <3>4. Moves(seen, more) /\ (Full(seen) => Full(more)) /\ Same(seen, more)
      BY <1>2, <3>3 DEF Moves, Well, Same, Unread, Full
    <3>5. Flushed(more, FlushScan(more))
      BY <3>4, FlushScanWorks DEF Moves, Well
    <3>6. Moves(seen, FlushScan(more))
      BY <3>4, <3>5, MovesFlushed DEF Moves
    <3>7. Moves(k, FlushScan(more))
      BY <1>2, <3>6 DEF Moves, Unread
    <3>8. FlushScan(more).config = k.config
      BY <1>2, <3>4, <3>5 DEF Flushed, Same
    <3> QED BY <2>1, <3>1, <3>7, <3>8
  <2> QED BY <2>3, <2>4, <2>5
<1> QED BY <1>5, <1>6, <1>7

(* Packets from the mouse; they never bring a byte of the keyboard up.      *)
LEMMA PacketMoves ==
  ASSUME NEW k, Well(k)
  PROVE  /\ Moves(k, InjectMousePacket(k))
         /\ KeepsKeys(k, InjectMousePacket(k))
         /\ InjectMousePacket(k).config = k.config
         /\ KeyFull(InjectMousePacket(k)) => KeyFull(k)
<1> DEFINE m == [k EXCEPT !.aux = k.aux + MousePacketLen]
           e == FlushAux(m)
<1>1. CASE ~k.reporting \/ k.aux + MousePacketLen > AuxCap
  BY <1>1, WellItself DEF InjectMousePacket
<1>2. CASE ~(~k.reporting \/ k.aux + MousePacketLen > AuxCap)
  <2>1. k.aux + MousePacketLen \in 0 .. AuxCap
    BY <1>2, I8042Assumption DEF Well, Controller, MousePacketLen
  <2>2. Aside(k, m) /\ Fair(k)
    BY <2>1 DEF Aside, Well, Fair, Controller, Same
  <2>3. InjectMousePacket(k) = e /\ BeginMouse(k, k.aux + MousePacketLen) = e
    BY <1>2 DEF InjectMousePacket, BeginMouse
  <2>4. Aside(k, k)
    BY <2>2 DEF Aside, Same, Fair
  <2>5. Answers(k, BeginMouse(k, k.aux + MousePacketLen))
    BY <2>1, <2>2, <2>4, MouseAnswers
  <2>6. Answers(k, e)
    BY <2>3, <2>5
  <2> HIDE DEF m
  <2>7. ~Full(m) => e = m \/ e.fromAux
    BY <2>2, FlushAuxWorks DEF Aside
  <2> HIDE DEF e
  <2>8. KeyFull(e) => KeyFull(k)
    <3>1. Full(k) <=> Full(m)
      BY <2>2 DEF Aside, Full
    <3>2. CASE Full(k)
      BY <2>6, <3>2 DEF Answers, Unread, KeyFull
    <3>3. CASE ~Full(k)
      BY <2>7, <3>1, <3>3 DEF KeyFull
    <3> QED BY <3>2, <3>3
  <2> QED BY <2>3, <2>6, <2>8 DEF Answers, Moves, Well
<1> QED BY <1>1, <1>2

LEMMA AuxByteWell ==
  ASSUME NEW k, Well(k)
  PROVE  /\ Well(InjectAuxByte(k)) /\ Same(k, InjectAuxByte(k))
         /\ KeyFull(InjectAuxByte(k)) => InjectAuxByte(k) = k
<1> DEFINE e == [k EXCEPT !.out = Mouse, !.fromAux = TRUE]
<1>1. CASE k.config.auxOff
  BY <1>1 DEF InjectAuxByte, Same
<1>2. CASE ~k.config.auxOff
  <2>1. Mouse \in Bytes /\ Mouse # NoByte
    BY ByteTypes
  <2>2. e \in Controller
    BY <2>1 DEF Well, Controller
  <2>3. Same(k, e) /\ e.out = Mouse
    BY DEF Well, Controller, Same
  <2>4. e.fromAux
    BY DEF Well, Controller
  <2>5. InjectAuxByte(k) = e
    BY <1>2 DEF InjectAuxByte
  <2> HIDE DEF e
  <2> QED BY <2>1, <2>2, <2>3, <2>4, <2>5 DEF Well, Same, Full, KeyFull
<1> QED BY <1>1, <1>2

----------------------------------------------------------------------------
(* The guest's ports.                                                       *)

LEMMA DumpMoves ==
  ASSUME NEW k, Well(k)
  PROVE  Moves(k, BeginDump(k)) /\ KeepsKeys(k, BeginDump(k))
<1> DEFINE m == [k EXCEPT !.ctrl = DumpLen]
           e == FlushCtrl(m)
<1>1. DumpLen \in 0 .. DumpLen /\ DumpLen # 0
  BY I8042Assumption
<1>2. m \in Controller /\ Same(k, m) /\ m.ctrl = DumpLen /\ m.out = k.out
      /\ m.aux = k.aux /\ m.scan = k.scan
  BY <1>1 DEF Well, Controller, Same
<1>3. m.fromAux = k.fromAux
  BY DEF Well, Controller
<1> HIDE DEF m
<1>4. Flushed(m, e) /\ (~Full(e) => m.ctrl = 0) /\ KeepsKeys(m, e)
  BY <1>2, FlushCtrlWorks
<1> HIDE DEF e
<1>5. Full(e) /\ e \in Controller /\ Same(k, e) /\ Unread(k, e)
  BY <1>1, <1>2, <1>3, <1>4 DEF Flushed, Same, Unread, Full
<1>6. Moves(k, e)
  BY <1>5 DEF Moves, Well, Same
<1>7. KeepsKeys(k, e)
  BY <1>2, <1>4 DEF KeepsKeys
<1> QED BY <1>6, <1>7 DEF BeginDump, e, m

(* Only a command that is answered at once overwrites an unread byte.       *)
LEMMA CommandMoves ==
  ASSUME NEW k, Well(k), NEW c \in Commands
  PROVE  /\ Well(Command(k, c)) /\ Command(k, c).a20 = k.a20
         /\ c # "readNow" => /\ Unread(k, Command(k, c))
                             /\ KeepsKeys(k, Command(k, c))
<1>1. CASE c = "readNow"
  BY <1>1, ByteTypes, PushWell DEF Command, Same
<1>2. CASE c = "dump"
  BY <1>2, DumpMoves DEF Command, Moves
<1>3. CASE c = "enableAux"
  BY <1>3, EnableAuxMoves DEF Command, Moves, Well
<1>4. CASE c \in {"writeConfig", "writeOutPort", "writeAux"}
  <2>1. \A p \in PendingWrites : /\ Moves(k, [k EXCEPT !.pending = p])
                                 /\ KeepsKeys(k, [k EXCEPT !.pending = p])
    <3> TAKE p \in PendingWrites
    <3> DEFINE m == [k EXCEPT !.pending = p]
    <3>1. Aside(k, m) /\ m.aux = k.aux
      BY DEF Aside, Well, Controller, Same
    <3> HIDE DEF m
    <3>2. Moves(k, m) /\ KeepsKeys(k, m)
      BY <3>1, AsideWell
    <3> QED BY <3>2 DEF m
  <2>2. \E p \in PendingWrites : Command(k, c) = [k EXCEPT !.pending = p]
    BY <1>4 DEF Command, PendingWrites
  <2> QED BY <2>1, <2>2 DEF Moves
<1>5. CASE c = "pulseReset"
  <2> DEFINE m == [k EXCEPT !.reset = TRUE]
  <2>1. m \in Controller
    BY DEF Well, Controller
  <2>2. /\ m.a20 = k.a20 /\ m.config = k.config /\ m.hostAux = k.hostAux
        /\ m.out = k.out /\ m.fromAux = k.fromAux /\ m.ctrl = k.ctrl
        /\ m.aux = k.aux /\ m.scan = k.scan
    BY DEF Well, Controller
  <2>3. Command(k, c) = m
    BY <1>5 DEF Command
  <2> HIDE DEF m
  <2> QED BY <2>1, <2>2, <2>3 DEF Well, Full, Unread, KeepsKeys
<1>6. CASE c = "disableAux"
  <2> DEFINE config == [k.config EXCEPT !.auxOff = TRUE]
             m == [k EXCEPT !.config = config]
  <2>1. config \in Config /\ config.auxOff
    BY DEF Well, Controller, Config
  <2>2. Command(k, c) = m
    BY <1>6 DEF Command, Well, Controller
  <2> HIDE DEF config
  <2>3. m \in Controller
    BY <2>1 DEF Well, Controller
  <2>4. /\ m.a20 = k.a20 /\ m.config = config /\ m.scan = k.scan
        /\ m.out = k.out /\ m.fromAux = k.fromAux /\ m.ctrl = k.ctrl
    BY DEF Well, Controller
  <2> HIDE DEF m
  <2> QED BY <2>1, <2>2, <2>3, <2>4 DEF Well, Full, Unread, KeepsKeys
<1>7. CASE c \in {"disableKbd", "enableKbd"}
  <2> DEFINE off == c = "disableKbd"
             config == [k.config EXCEPT !.kbdOff = off]
             m == [k EXCEPT !.config = config]
  <2>1. config \in Config /\ (config.auxOff <=> k.config.auxOff)
    BY DEF Well, Controller, Config
  <2>2. Command(k, c) = m \/ Command(k, c) = FlushResp(m)
    BY <1>7 DEF Command, Well, Controller
  <2> HIDE DEF config
  <2>3. m \in Controller
    BY <2>1 DEF Well, Controller
  <2>4. /\ m.a20 = k.a20 /\ m.config = config /\ m.hostAux = k.hostAux
        /\ m.out = k.out /\ m.fromAux = k.fromAux /\ m.ctrl = k.ctrl
        /\ m.aux = k.aux /\ m.scan = k.scan
    BY DEF Well, Controller
  <2> HIDE DEF m
  <2>5. Well(m) /\ Unread(k, m) /\ (Full(k) => Full(m))
    BY <2>1, <2>3, <2>4 DEF Well, Full, Unread
  <2>6. Flushed(m, FlushResp(m)) /\ KeepsKeys(m, FlushResp(m))
    BY <2>3, FlushRespWorks
  <2>7. Moves(k, FlushResp(m)) /\ Moves(k, m)
    BY <2>4, <2>5, <2>6, MovesFlushed DEF Moves
  <2>8. KeepsKeys(k, FlushResp(m)) /\ KeepsKeys(k, m)
    BY <2>4, <2>6 DEF KeepsKeys
  <2> QED BY <1>7, <2>2, <2>7, <2>8 DEF Moves
<1> QED BY <1>1, <1>2, <1>3, <1>4, <1>5, <1>6, <1>7 DEF Commands

(* A store lets the mouse's clock on, and what waited for it go, like the   *)
(* command does.                                                            *)
LEMMA ConfigMoves ==
  ASSUME NEW k, Well(k), NEW config \in Config
  PROVE  /\ Moves(k, StoreConfig(k, config))
         /\ KeepsKeys(k, StoreConfig(k, config))
<1> DEFINE m == [k EXCEPT !.config = config, !.pending = "none"]
<1>1. m \in Controller
  BY DEF Well, Controller, PendingWrites
<1>2. /\ m.a20 = k.a20 /\ m.config = config /\ m.hostAux = k.hostAux
      /\ m.out = k.out /\ m.ctrl = k.ctrl /\ m.aux = k.aux
      /\ m.scan = k.scan
  BY DEF Well, Controller
<1>3. m.fromAux = k.fromAux
  BY DEF Well, Controller
<1>4. /\ k.config.auxOff /\ ~config.auxOff => StoreConfig(k, config) = EnableAux(m)
      /\ ~(k.config.auxOff /\ ~config.auxOff) => StoreConfig(k, config) = m
  BY DEF StoreConfig
<1> HIDE DEF m
<1>5. CASE k.config.auxOff /\ ~config.auxOff
  <2>1. ~Full(m) => m.ctrl = 0
    BY <1>2 DEF Well, Full
  <2>2. Moves(m, EnableAux(m)) /\ KeepsKeys(m, EnableAux(m))
    BY <1>1, <2>1, EnableAuxMoves
  <2>3. KeepsKeys(k, EnableAux(m))
    BY <1>2, <2>2 DEF KeepsKeys
  <2> QED BY <1>2, <1>3, <1>4, <1>5, <2>2, <2>3 DEF Moves, Unread, Full
<1>6. CASE ~(k.config.auxOff /\ ~config.auxOff)
  <2>1. Well(m)
    BY <1>1, <1>2, <1>6 DEF Well, Full
  <2> QED BY <1>2, <1>3, <1>4, <1>6, <2>1 DEF Moves, Unread, KeepsKeys
<1> QED BY <1>5, <1>6

(* The stores that set the A20 gate.                                        *)
LEMMA GateStoresWell ==
  ASSUME NEW k, Well(k), NEW a20 \in BOOLEAN, NEW resetLine \in BOOLEAN
  PROVE  /\ Well(StoreOutPort(k, a20, resetLine))
         /\ Unread(k, StoreOutPort(k, a20, resetLine))
         /\ KeepsKeys(k, StoreOutPort(k, a20, resetLine))
         /\ KeepsKeys(k, FastGate(k, a20))
         /\ Well(FastGate(k, a20)) /\ Unread(k, FastGate(k, a20))
         /\ FastGate(k, a20).a20 = a20
<1> DEFINE m == [k EXCEPT !.a20 = a20]
           n == StoreOutPort(k, a20, resetLine)
<1>1. m \in Controller /\ m.a20 = a20
  BY DEF Well, Controller
<1>2. /\ m.config = k.config /\ m.hostAux = k.hostAux
      /\ m.out = k.out /\ m.ctrl = k.ctrl /\ m.aux = k.aux
      /\ m.scan = k.scan
  BY DEF Well, Controller
<1>3. m.fromAux = k.fromAux
  BY DEF Well, Controller
<1>4. (k.reset \/ resetLine) \in BOOLEAN
  BY DEF Well, Controller
<1>5. n = [k EXCEPT !.a20 = a20, !.reset = k.reset \/ resetLine,
                    !.pending = "none"]
  BY DEF StoreOutPort
<1> HIDE DEF n
<1>6. n \in Controller
  BY ZenonT(60), <1>4, <1>5 DEF Well, Controller, PendingWrites
<1>7. /\ n.config = k.config /\ n.hostAux = k.hostAux
      /\ n.out = k.out /\ n.ctrl = k.ctrl /\ n.aux = k.aux
      /\ n.scan = k.scan
  BY <1>5 DEF Well, Controller
<1>8. n.fromAux = k.fromAux
  BY <1>5 DEF Well, Controller
<1>9. m = FastGate(k, a20)
  BY DEF FastGate
<1> HIDE DEF m
<1>10. Well(m) /\ Unread(k, m) /\ KeepsKeys(k, m)
  BY <1>1, <1>2, <1>3 DEF Well, Full, Unread, KeepsKeys
<1>11. Well(n) /\ Unread(k, n) /\ KeepsKeys(k, n)
  BY <1>6, <1>7, <1>8 DEF Well, Full, Unread, KeepsKeys
<1> QED BY <1>1, <1>9, <1>10, <1>11 DEF n

(* A byte for the mouse: it answers, or its byte waits for its clock.       *)
LEMMA StoreAuxMoves ==
  ASSUME NEW k, Well(k), NEW c \in MouseCommands
  PROVE  Moves(k, StoreAux(k, c)) /\ KeepsKeys(k, StoreAux(k, c))
<1> DEFINE stored == [k EXCEPT !.pending = "none"]
           held == [stored EXCEPT !.hostAux = Append(stored.hostAux, c)]
<1>1. Aside(k, stored) /\ stored.aux = k.aux
  BY DEF Aside, Well, Controller, Same, PendingWrites
<1> HIDE DEF stored
<1>2. Moves(k, stored) /\ KeepsKeys(k, stored) /\ (Full(k) => Full(stored))
  BY <1>1, AsideWell
<1>3. StoreAux(k, c) = IF ~k.config.auxOff THEN MouseByte(stored, c)
                       ELSE IF Len(k.hostAux) >= HostAuxCap THEN stored
                       ELSE held
  BY DEF StoreAux, stored
<1>4. CASE ~k.config.auxOff
  <2>1. /\ Moves(stored, MouseByte(stored, c))
        /\ KeepsKeys(stored, MouseByte(stored, c))
    BY <1>2, MouseByteMoves DEF Moves
  <2>2. KeepsKeys(k, MouseByte(stored, c))
    BY <1>2, <2>1 DEF KeepsKeys
  <2> QED BY <1>2, <1>3, <1>4, <2>1, <2>2 DEF Moves, Unread
<1>5. CASE k.config.auxOff /\ Len(k.hostAux) >= HostAuxCap
  BY <1>2, <1>3, <1>5
<1>6. CASE k.config.auxOff /\ ~(Len(k.hostAux) >= HostAuxCap)
  <2>1. stored.hostAux \in Seq(MouseCommands)
    BY <1>1 DEF Aside, Controller
  <2>2. Append(stored.hostAux, c) \in Seq(MouseCommands)
    BY <2>1, AppendProperties
  <2>3. held \in Controller
    BY <1>1, <2>2 DEF Aside, Controller
  <2>4. /\ held.a20 = k.a20 /\ held.config = k.config
        /\ held.out = k.out /\ held.ctrl = k.ctrl
        /\ held.fromAux = k.fromAux /\ held.scan = k.scan
    BY <1>1 DEF Aside, Same, Controller
  <2>5. StoreAux(k, c) = held
    BY <1>3, <1>6
  <2> HIDE DEF held
  <2>6. Well(held) /\ Unread(k, held) /\ KeepsKeys(k, held)
    BY <1>6, <2>3, <2>4 DEF Well, Full, Unread, KeepsKeys
  <2> QED BY <2>4, <2>5, <2>6 DEF Moves
<1> QED BY <1>4, <1>5, <1>6

----------------------------------------------------------------------------
(* The interrupt lines.                                                     *)

(* How the guest leaves the pair: edge inputs, fully nested, no chip on the *)
(* master's keyboard input.  A pair out of reset is so too.                 *)
Plain(c) ==
  /\ Sound(c)
  /\ ~c.levelTriggered /\ c.elcr = {} /\ ~c.autoEoi
  /\ ~c.specialMask /\ ~c.specialFullyNested

PlainPair(d) ==
  /\ d \in Pair
  /\ Plain(d.master) /\ Plain(d.slave)
  /\ CascadeActive(d) => d.slave.slaveId # Irq1

SameRole(c, e) ==
  /\ e.isMaster = c.isMaster /\ e.initialized = c.initialized
  /\ e.single = c.single
  /\ e.slaveMask = c.slaveMask /\ e.slaveId = c.slaveId

(* The keyboard's request is latched, or its pin is still to rise.          *)
Asks(d) == Irq1 \notin d.master.pins \/ Irq1 \in d.master.irr

LEMMA PlainIsEdge ==
  ASSUME NEW c, Plain(c)
  PROVE  \A ir : ~IsLevel(c, ir)
BY DEF Plain, IsLevel

LEMMA LinePlain ==
  ASSUME NEW c, Plain(c), NEW ir \in IR, NEW high \in BOOLEAN
  PROVE  LET e == SetLine(c, ir, high)
         IN  /\ Plain(e) /\ SameRole(c, e)
             /\ e.isr = c.isr
             /\ e.pins \ {ir} = c.pins \ {ir} /\ e.irr \ {ir} = c.irr \ {ir}
             /\ high => ir \in e.pins
             /\ ~high => ir \notin e.pins
             /\ high /\ (ir \in c.irr \/ ir \notin c.pins) => ir \in e.irr
<1> DEFINE e == SetLine(c, ir, high)
<1>1. Sound(c) /\ ~IsLevel(c, ir)
  BY PlainIsEdge DEF Plain
<1>2. Sound(e) /\ Relatched(c, e)
  <2>1. CASE high
    <3>1. e = SetLine(c, ir, TRUE)
      BY <2>1 DEF SetLine
    <3>2. Raised(c, ir, e)
      BY <1>1, <3>1, RaiseSound
    <3> QED BY <3>2 DEF Raised
  <2>2. CASE ~high
    <3>1. e = SetLine(c, ir, FALSE)
      BY <2>2 DEF SetLine
    <3>2. Lowered(c, ir, e)
      BY <1>1, <3>1, LowerSound
    <3> QED BY <3>2 DEF Lowered
  <2> QED BY <2>1, <2>2
<1>3. /\ e.pins \ {ir} = c.pins \ {ir} /\ e.irr \ {ir} = c.irr \ {ir}
      /\ high => ir \in e.pins
      /\ ~high => ir \notin e.pins
      /\ high /\ (ir \in c.irr \/ ir \notin c.pins) => ir \in e.irr
  BY <1>1 DEF SetLine, Sound, Chip
<1> HIDE DEF e
<1>4. /\ e.initialized = c.initialized /\ e.single = c.single
      /\ e.levelTriggered = c.levelTriggered /\ e.elcr = c.elcr
      /\ e.autoEoi = c.autoEoi /\ e.specialMask = c.specialMask
      /\ e.specialFullyNested = c.specialFullyNested
      /\ e.isr = c.isr /\ SameRole(c, e)
  BY <1>1, <1>2 DEF Relatched, Sound, Chip, SameRole
<1>5. Plain(e)
  BY <1>2, <1>4 DEF Plain
<1> QED BY <1>3, <1>4, <1>5 DEF e

(* An acknowledge that does not put the keyboard in service leaves its      *)
(* request.                                                                 *)
LEMMA AckPlain ==
  ASSUME NEW c, Plain(c), NEW ir \in Requests(c)
  PROVE  LET e == AckIr(c, ir)
         IN  /\ Plain(e) /\ SameRole(c, e)
             /\ e.pins = c.pins
             /\ \A i \in c.irr \cap c.pins : i \in e.irr \/ i \in e.isr \ c.isr
<1> DEFINE e == AckIr(c, ir)
<1>1. Sound(c) /\ ~c.autoEoi
  BY DEF Plain
<1>2. ir \in IR /\ ir \notin c.isr
  BY <1>1, RequestsType, RequestOutranks DEF Plain
<1>3. Acked(c, ir, e)
  BY <1>1, <1>2, AckIrSound
<1> HIDE DEF e
<1>4. /\ e.isr = IF Spurious(c, ir) THEN c.isr ELSE c.isr \cup {ir}
      /\ c.irr \ {ir} \subseteq e.irr
      /\ Sound(e)
      /\ e = [c EXCEPT !.irr = e.irr, !.isr = e.isr, !.lowest = e.lowest]
  BY <1>1, <1>3 DEF Acked
<1>5. /\ e.initialized = c.initialized /\ e.single = c.single
      /\ e.levelTriggered = c.levelTriggered /\ e.elcr = c.elcr
      /\ e.autoEoi = c.autoEoi /\ e.specialMask = c.specialMask
      /\ e.specialFullyNested = c.specialFullyNested
      /\ e.pins = c.pins /\ SameRole(c, e)
  BY <1>1, <1>4 DEF Sound, Chip, SameRole
<1>6. Plain(e)
  BY <1>4, <1>5 DEF Plain
<1>7. ASSUME NEW i \in c.irr \cap c.pins
      PROVE  i \in e.irr \/ i \in e.isr \ c.isr
  <2>1. CASE i # ir
    BY <1>4, <2>1
  <2>2. CASE i = ir
    <3>1. ~Spurious(c, ir)
      BY <2>2 DEF Spurious
    <3> QED BY <1>2, <1>4, <2>2, <3>1
  <2> QED BY <2>1, <2>2
<1> QED BY <1>5, <1>6, <1>7 DEF e

LEMMA EoiPlain ==
  ASSUME NEW c, Plain(c)
  PROVE  LET e == NonSpecificEoi(c, FALSE)
         IN  /\ Plain(e) /\ SameRole(c, e)
             /\ e.pins = c.pins /\ e.irr = c.irr
<1> DEFINE e == NonSpecificEoi(c, FALSE)
           ir == Highest(c, c.isr)
<1>1. Sound(c) /\ ~c.specialMask
  BY DEF Plain
<1>2. CASE c.isr = {}
  <2>1. e = c
    BY <1>1, <1>2, EoiEndsHighest
  <2> QED BY <2>1 DEF SameRole
<1>3. CASE c.isr # {}
  <2>1. ir \in c.isr /\ e = [c EXCEPT !.isr = c.isr \ {ir}]
    BY <1>1, <1>3, EoiEndsHighest
  <2> HIDE DEF e, ir
  <2>2. /\ e \in Chip /\ e.phase = c.phase
        /\ e.initialized = c.initialized /\ e.single = c.single
        /\ e.levelTriggered = c.levelTriggered /\ e.elcr = c.elcr
        /\ e.autoEoi = c.autoEoi /\ e.specialMask = c.specialMask
        /\ e.specialFullyNested = c.specialFullyNested
        /\ e.pins = c.pins /\ e.irr = c.irr /\ SameRole(c, e)
    BY <1>1, <2>1 DEF Sound, Chip, SameRole
  <2>3. \A i : IsLevel(e, i) <=> IsLevel(c, i)
    BY <2>2 DEF IsLevel
  <2>4. Sound(e)
    BY <1>1, <2>2, <2>3 DEF Sound
  <2>5. Plain(e)
    BY <2>2, <2>4 DEF Plain
  <2> QED BY <2>2, <2>5 DEF e
<1> QED BY <1>2, <1>3

----------------------------------------------------------------------------
(* The pair.                                                                *)

LEMMA LineTypes == Irq1 \in IR /\ Irq12 \in IR /\ Cascade \in IR /\ Irq1 # Cascade
BY KeyPathAssumption

LEMMA PairPlain ==
  ASSUME NEW b, PlainPair(b), NEW m, Plain(m), SameRole(b.master, m),
         NEW s, Plain(s), SameRole(b.slave, s),
         NEW d, d = [master |-> m, slave |-> s]
  PROVE  /\ PlainPair(d) /\ d.master = m /\ d.slave = s
         /\ CascadeActive(d) <=> CascadeActive(b)
         /\ d.master.initialized = b.master.initialized
<1>1. d \in Pair /\ d.master = m /\ d.slave = s
  BY DEF Plain, Sound, Pair
<1>2. CascadeActive(d) <=> CascadeActive(b)
  BY <1>1 DEF CascadeActive, SameRole
<1> QED BY <1>1, <1>2 DEF PlainPair, SameRole

LEMMA PairShape ==
  ASSUME NEW b, PlainPair(b)
  PROVE  /\ b = [master |-> b.master, slave |-> b.slave]
         /\ \A m : [b EXCEPT !.master = m] = [master |-> m, slave |-> b.slave]
         /\ \A s : [b EXCEPT !.slave = s] = [master |-> b.master, slave |-> s]
         /\ Plain(b.master) /\ SameRole(b.master, b.master)
         /\ Plain(b.slave) /\ SameRole(b.slave, b.slave)
BY DEF PlainPair, Pair, SameRole

(* d is b with other pins and requests, and the keyboard's input as it was. *)
Apart(b, d) ==
  /\ PlainPair(d)
  /\ d.master.initialized = b.master.initialized
  /\ d.master.isr = b.master.isr
  /\ Irq1 \in d.master.pins <=> Irq1 \in b.master.pins
  /\ Irq1 \in d.master.irr <=> Irq1 \in b.master.irr

LEMMA SyncApart ==
  ASSUME NEW b, PlainPair(b)
  PROVE  Apart(b, SyncCascade(b))
<1> DEFINE high == IntPending(b.slave)
           ir == b.slave.slaveId
           m == SetLine(b.master, ir, high)
<1>1. CASE ~CascadeActive(b)
  BY <1>1 DEF SyncCascade, Apart
<1>2. CASE CascadeActive(b)
  <2>1. SyncCascade(b) = [b EXCEPT !.master = m]
    BY <1>2 DEF SyncCascade
  <2>2. high \in BOOLEAN
    BY DEF IntPending
  <2>3. ir \in IR /\ ir # Irq1
    BY <1>2 DEF PlainPair, Pair, Chip
  <2>4. Plain(b.master)
    BY DEF PlainPair
  <2> HIDE DEF high, ir
  <2>5. /\ Plain(m) /\ SameRole(b.master, m) /\ m.isr = b.master.isr
        /\ m.pins \ {ir} = b.master.pins \ {ir}
        /\ m.irr \ {ir} = b.master.irr \ {ir}
    BY <2>2, <2>3, <2>4, LinePlain
  <2> HIDE DEF m
  <2>6. SyncCascade(b) = [master |-> m, slave |-> b.slave]
    BY <2>1, PairShape
  <2>7. /\ PlainPair(SyncCascade(b)) /\ SyncCascade(b).master = m
        /\ SyncCascade(b).master.initialized = b.master.initialized
    BY <2>5, <2>6, PairShape, PairPlain
  <2> QED BY <2>3, <2>5, <2>7 DEF Apart
<1> QED BY <1>1, <1>2

LEMMA SlaveLineApart ==
  ASSUME NEW b, PlainPair(b), NEW ir \in IR, NEW high \in BOOLEAN
  PROVE  Apart(b, SetSlaveLine(b, ir, high))
<1> DEFINE s == SetLine(b.slave, ir, high)
           d == [b EXCEPT !.slave = s]
<1>1. Plain(s) /\ SameRole(b.slave, s)
  BY LinePlain DEF PlainPair
<1> HIDE DEF s
<1>2. d = [master |-> b.master, slave |-> s]
  BY PairShape
<1> HIDE DEF d
<1>3. PlainPair(d) /\ d.master = b.master
  BY <1>1, <1>2, PairShape, PairPlain
<1>4. Apart(d, SyncCascade(d))
  BY <1>3, SyncApart
<1>5. SetSlaveLine(b, ir, high) = SyncCascade(d)
  BY DEF SetSlaveLine, d, s
<1> QED BY <1>3, <1>4, <1>5 DEF Apart

(* The keyboard's own line: its rise is latched.                            *)
LEMMA MasterLinePlain ==
  ASSUME NEW b, PlainPair(b), NEW high \in BOOLEAN
  PROVE  LET d == SetMasterLine(b, Irq1, high)
         IN  /\ PlainPair(d) /\ d.master.isr = b.master.isr
             /\ d.master.initialized = b.master.initialized
             /\ Irq1 \in d.master.pins <=> high
             /\ ~high \/ Asks(b) => Asks(d)
<1> DEFINE m == SetLine(b.master, Irq1, high)
           d == SetMasterLine(b, Irq1, high)
<1>1. /\ Plain(m) /\ SameRole(b.master, m) /\ m.isr = b.master.isr
      /\ high => Irq1 \in m.pins
      /\ ~high => Irq1 \notin m.pins
      /\ /\ high
         /\ Irq1 \in b.master.irr \/ Irq1 \notin b.master.pins
         => Irq1 \in m.irr
  BY LineTypes, LinePlain DEF PlainPair
<1> HIDE DEF m
<1>2. d = [b EXCEPT !.master = m]
  BY DEF SetMasterLine, m
<1> HIDE DEF d
<1>3. d = [master |-> m, slave |-> b.slave]
  BY <1>2, PairShape
<1>4. /\ PlainPair(d) /\ d.master = m
      /\ d.master.initialized = b.master.initialized
  BY <1>1, <1>3, PairShape, PairPlain
<1>5. Irq1 \in m.pins <=> high
  BY <1>1
<1>6. Asks(b) /\ high => Irq1 \in m.irr
  BY <1>1 DEF Asks
<1>7. ~high \/ Asks(b) => Asks(d)
  BY <1>4, <1>5, <1>6 DEF Asks
<1> QED BY <1>1, <1>4, <1>5, <1>7 DEF d

(* What is done to the pair between two steps: the keyboard's request can   *)
(* only go by being put in service.                                         *)
Steady(b, d) ==
  /\ PlainPair(d)
  /\ d.master.initialized = b.master.initialized
  /\ Asks(b) => Asks(d) \/ Irq1 \in d.master.isr \ b.master.isr

LEMMA ApartSteady ==
  ASSUME NEW b, NEW d, Apart(b, d)
  PROVE  Steady(b, d)
BY DEF Apart, Steady, Asks

LEMMA AckSteady ==
  ASSUME NEW b, PlainPair(b)
  PROVE  Steady(b, AckSynced(b))
<1> DEFINE ir == Highest(b.master, Requests(b.master))
           m == AckIr(b.master, ir)
           s == SlaveAck(b.slave)
           d == [master |-> m, slave |-> s]
<1>1. CASE ~IntPending(b.master)
  BY <1>1 DEF AckSynced, Steady
<1>2. CASE IntPending(b.master)
  <2>1. ir \in Requests(b.master)
    <3>1. Requests(b.master) # {} /\ Requests(b.master) \subseteq IR
      BY <1>2, RequestsType DEF IntPending, PlainPair, Plain
    <3>2. b.master.lowest \in IR
      BY DEF PlainPair, Pair, Chip
    <3> QED BY <3>1, <3>2, HighestIsMember
  <2>2. AckSynced(b) = IF CascadeInput(b.master, ir) THEN SyncCascade(d)
                       ELSE [b EXCEPT !.master = m]
    BY <1>2 DEF AckSynced
  <2>3. Plain(b.master) /\ Plain(b.slave)
    BY DEF PlainPair
  <2>4. /\ Plain(m) /\ SameRole(b.master, m)
        /\ m.pins = b.master.pins
        /\ \A i \in b.master.irr \cap b.master.pins :
             i \in m.irr \/ i \in m.isr \ b.master.isr
    BY <2>1, <2>3, AckPlain
  <2>5. Plain(s) /\ SameRole(b.slave, s)
    <3> DEFINE i == Highest(b.slave, Requests(b.slave))
    <3>1. CASE ~IntPending(b.slave)
      BY <2>3, <3>1 DEF SlaveAck, SameRole
    <3>2. CASE IntPending(b.slave)
      <4>1. Requests(b.slave) # {} /\ Requests(b.slave) \subseteq IR
        BY <3>2, RequestsType DEF IntPending, PlainPair, Plain
      <4>2. b.slave.lowest \in IR
        BY DEF PlainPair, Pair, Chip
      <4>3. i \in Requests(b.slave)
        BY <4>1, <4>2, HighestIsMember
      <4> HIDE DEF i
      <4>4. Plain(AckIr(b.slave, i)) /\ SameRole(b.slave, AckIr(b.slave, i))
        BY <2>3, <4>3, AckPlain
      <4>5. s = AckIr(b.slave, i)
        BY <3>2 DEF SlaveAck, i
      <4> QED BY <4>4, <4>5
    <3> QED BY <3>1, <3>2
  <2> HIDE DEF m, s, ir
  <2>6. ASSUME NEW e, PlainPair(e), e.master = m,
               e.master.initialized = b.master.initialized
        PROVE  Steady(b, e)
    BY <2>4, <2>6 DEF Steady, Asks
  <2>7. CASE CascadeInput(b.master, ir)
    <3>1. /\ PlainPair(d) /\ d.master = m
          /\ d.master.initialized = b.master.initialized
      BY <2>4, <2>5, PairPlain
    <3>2. Steady(b, d)
      BY <2>6, <3>1
    <3> HIDE DEF d
    <3>3. Apart(d, SyncCascade(d))
      BY <3>1, SyncApart
    <3>4. Steady(b, SyncCascade(d))
      BY <3>2, <3>3 DEF Steady, Apart, Asks
    <3> QED BY <2>2, <2>7, <3>4
  <2>8. CASE ~CascadeInput(b.master, ir)
    <3> DEFINE e == [b EXCEPT !.master = m]
    <3>1. e = [master |-> m, slave |-> b.slave]
      BY PairShape
    <3> HIDE DEF e
    <3>2. /\ PlainPair(e) /\ e.master = m
          /\ e.master.initialized = b.master.initialized
      BY <2>4, <3>1, PairShape, PairPlain
    <3>3. Steady(b, e)
      BY <2>6, <3>2
    <3> QED BY <2>2, <2>8, <3>3 DEF e
  <2> QED BY <2>7, <2>8
<1> QED BY <1>1, <1>2

(* A poll: a request that goes was acknowledged, and a line it finds low    *)
(* has its rise before it.                                                  *)
LEMMA PolledSteady ==
  ASSUME PlainPair(pic)
  PROVE  /\ PlainPair(Polled)
         /\ Polled.master.initialized = pic.master.initialized
         /\ (Irq1Line(kbd) => Asks(pic)) => Asks(Polled) \/ Irq1Acked
<1> DEFINE b == SyncIrq1(pic, kbd)
           d == SetSlaveLine(b, Irq12, Irq12Line(kbd))
           e == SyncCascade(d)
           f == AckSynced(e)
<1>1. Irq1Line(kbd) \in BOOLEAN /\ Irq12Line(kbd) \in BOOLEAN
  BY DEF Irq1Line, Irq12Line, Full
<1>2. /\ PlainPair(b) /\ b.master.isr = pic.master.isr
      /\ b.master.initialized = pic.master.initialized
      /\ ~Irq1Line(kbd) \/ Asks(pic) => Asks(b)
  BY <1>1, MasterLinePlain DEF SyncIrq1
<1> HIDE DEF b
<1>3. Apart(b, d)
  BY <1>1, <1>2, LineTypes, SlaveLineApart
<1> HIDE DEF d
<1>4. Apart(d, e)
  BY <1>3, SyncApart DEF Apart
<1> HIDE DEF e
<1>5. Steady(e, f)
  BY <1>4, AckSteady DEF Apart
<1> HIDE DEF f
<1>6. Polled = f
  BY DEF Polled, Acknowledge, b, d, e, f
<1>7. PlainPair(f) /\ f.master.initialized = pic.master.initialized
  BY <1>2, <1>3, <1>4, <1>5 DEF Apart, Steady
<1>8. e.master.isr = pic.master.isr /\ (Asks(b) => Asks(e))
  BY <1>2, <1>3, <1>4 DEF Apart, Asks
<1>9. Asks(e) => Asks(f) \/ Irq1 \in f.master.isr \ pic.master.isr
  BY <1>5, <1>8 DEF Steady
<1>10. (Irq1Line(kbd) => Asks(pic)) => Asks(b)
  BY <1>2
<1> QED BY <1>6, <1>7, <1>8, <1>9, <1>10 DEF Irq1Acked

(* A device's wrapper pulses the line, so that a rise is always seen.       *)
LEMMA PulseAsks ==
  ASSUME PlainPair(pic), NEW k
  PROVE  LET d == PulseIrq1(pic, kbd, k)
         IN  /\ PlainPair(d)
             /\ d.master.initialized = pic.master.initialized
             /\ /\ Irq1Line(k)
                /\ Irq1Line(kbd) => Asks(pic)
                => Asks(d)
<1> DEFINE d == PulseIrq1(pic, kbd, k)
           b == SetMasterLine(pic, Irq1, FALSE)
<1>1. Irq1Line(k) \in BOOLEAN
  BY DEF Irq1Line, Full
<1>2. CASE ~Irq1Line(kbd) /\ Irq1Line(k)
  <2>1. d = SetMasterLine(b, Irq1, TRUE)
    BY <1>2 DEF PulseIrq1
  <2>2. /\ PlainPair(b) /\ b.master.initialized = pic.master.initialized
        /\ Irq1 \in b.master.pins <=> FALSE
    BY MasterLinePlain
  <2> HIDE DEF b
  <2>3. Asks(b)
    BY <2>2 DEF Asks
  <2>4. /\ PlainPair(SetMasterLine(b, Irq1, TRUE))
        /\ SetMasterLine(b, Irq1, TRUE).master.initialized
             = b.master.initialized
        /\ Asks(b) => Asks(SetMasterLine(b, Irq1, TRUE))
    BY <2>2, MasterLinePlain
  <2> QED BY <2>1, <2>2, <2>3, <2>4
<1>3. CASE ~(~Irq1Line(kbd) /\ Irq1Line(k))
  <2>1. d = SetMasterLine(pic, Irq1, Irq1Line(k))
    BY <1>3 DEF PulseIrq1, SyncIrq1
  <2>2. /\ PlainPair(SetMasterLine(pic, Irq1, Irq1Line(k)))
        /\ SetMasterLine(pic, Irq1, Irq1Line(k)).master.initialized
             = pic.master.initialized
        /\ Asks(pic) => Asks(SetMasterLine(pic, Irq1, Irq1Line(k)))
    BY <1>1, MasterLinePlain
  <2> QED BY <1>3, <2>1, <2>2
<1> QED BY <1>2, <1>3

LEMMA PulseAuxApart ==
  ASSUME PlainPair(pic), NEW k
  PROVE  Apart(pic, PulseIrq12(pic, kbd, k))
<1> DEFINE b == SetSlaveLine(pic, Irq12, FALSE)
<1>1. Irq12Line(k) \in BOOLEAN /\ Irq12 \in IR
  BY LineTypes DEF Irq12Line, Full
<1>2. Apart(pic, b)
  BY <1>1, SlaveLineApart
<1>3. Apart(pic, SetSlaveLine(pic, Irq12, Irq12Line(k)))
  BY <1>1, SlaveLineApart
<1> HIDE DEF b
<1>4. Apart(b, SetSlaveLine(b, Irq12, TRUE))
  BY <1>1, <1>2, SlaveLineApart DEF Apart
<1>5. Apart(pic, SetSlaveLine(b, Irq12, TRUE))
  BY <1>2, <1>4 DEF Apart
<1> QED BY <1>3, <1>5 DEF PulseIrq12, b

(* An EOI to either chip.                                                   *)
LEMMA EoiAsks ==
  ASSUME NEW b, PlainPair(b), NEW chip \in {"master", "slave"}
  PROVE  LET d == SyncCascade([b EXCEPT ![chip] = Ocw2(@, "eoi", 0)])
         IN  /\ PlainPair(d)
             /\ d.master.initialized = b.master.initialized
             /\ Asks(b) => Asks(d)
<1> DEFINE m == NonSpecificEoi(b.master, FALSE)
           s == NonSpecificEoi(b.slave, FALSE)
           e == [b EXCEPT ![chip] = Ocw2(@, "eoi", 0)]
<1>1. /\ Plain(m) /\ SameRole(b.master, m)
      /\ m.pins = b.master.pins /\ m.irr = b.master.irr
  BY EoiPlain DEF PlainPair
<1>2. Plain(s) /\ SameRole(b.slave, s)
  BY EoiPlain DEF PlainPair
<1>3. e = [b EXCEPT ![chip] = NonSpecificEoi(b[chip], FALSE)]
  BY DEF Ocw2
<1>4. \/ e = [master |-> m, slave |-> b.slave]
      \/ e = [master |-> b.master, slave |-> s]
  <2>1. CASE chip = "master"
    <3>1. e = [b EXCEPT !.master = m]
      BY <1>3, <2>1
    <3> QED BY <3>1, PairShape
  <2>2. CASE chip = "slave"
    <3>1. e = [b EXCEPT !.slave = s]
      BY <1>3, <2>2
    <3> QED BY <3>1, PairShape
  <2> QED BY <2>1, <2>2
<1> HIDE DEF m, s, e
<1>5. /\ PlainPair(e) /\ e.master.initialized = b.master.initialized
      /\ e.master \in {b.master, m}
  BY <1>1, <1>2, <1>4, PairShape, PairPlain
<1>6. Asks(b) => Asks(e)
  BY <1>1, <1>5 DEF Asks
<1>7. Apart(e, SyncCascade(e))
  BY <1>5, SyncApart
<1>8. /\ PlainPair(SyncCascade(e))
      /\ SyncCascade(e).master.initialized = b.master.initialized
      /\ Asks(b) => Asks(SyncCascade(e))
  BY <1>5, <1>6, <1>7 DEF Apart, Asks
<1> QED BY <1>8 DEF e

----------------------------------------------------------------------------
(* The inductive invariant.                                                 *)

(* The BIOS keyboard buffer is untouched, or both its ends are in use.      *)
RingInv ==
  /\ ring \in Ring
  /\ ring.head = 0 <=> ring.tail = 0

KInv ==
  /\ Well(kbd)
  /\ PlainPair(pic)
  /\ RingInv
  /\ typeahead \in 0 .. HostCap
  /\ A20Agrees
  /\ guest \in Guests
  /\ arrival \in Arrivals
  /\ FreshKeyRequests

LEMMA ResetWell == Well(ResetController) /\ ~Full(ResetController)
<1>1. <<>> \in Seq({Reply, Stray}) /\ <<>> \in Seq(KeyBytes)
      /\ <<>> \in Seq(MouseCommands)
  OBVIOUS
<1>2. 0 \in 0 .. DumpLen /\ 0 \in 0 .. AuxCap
  BY I8042Assumption
<1>3. ResetController \in Controller
  BY <1>1, <1>2 DEF ResetController, Controller, Config, PendingWrites
<1> QED BY <1>3 DEF ResetController, Well, Full

LEMMA ResetPlain ==
  ASSUME NEW b \in BOOLEAN
  PROVE  /\ Plain(ResetRole(b)) /\ ResetRole(b).initialized = FALSE
         /\ Plain(Programmed(ResetRole(b), Cascade))
         /\ ~b => Programmed(ResetRole(b), Cascade).slaveId = Cascade
<1>1. Plain(ResetRole(b)) /\ ResetRole(b).initialized = FALSE
  <2> DEFINE r == ResetRole(b)
  <2>1. Sound(r)
    BY ResetSound
  <2>2. /\ r.levelTriggered = FALSE /\ r.elcr = {} /\ r.autoEoi = FALSE
        /\ r.specialMask = FALSE /\ r.specialFullyNested = FALSE
        /\ r.initialized = FALSE
    BY DEF ResetRole
  <2> HIDE DEF r
  <2>3. Plain(r) /\ r.initialized = FALSE
    BY <2>1, <2>2 DEF Plain
  <2> QED BY <2>3 DEF r
<1> DEFINE c == Programmed(ResetRole(b), Cascade)
<1>2. /\ Sound(c)
      /\ ~c.levelTriggered /\ c.elcr = {}
      /\ ~c.specialMask /\ ~c.autoEoi /\ ~c.specialFullyNested
      /\ ~b => c.slaveId = Cascade
  BY LineTypes, ProgrammedFresh
<1> HIDE DEF c
<1>3. Plain(c)
  BY <1>2 DEF Plain
<1> QED BY <1>1, <1>2, <1>3 DEF c

LEMMA ResetPairPlain == PlainPair(ResetPair)
<1> DEFINE m == ResetRole(TRUE)
           s == ResetRole(FALSE)
<1>1. Plain(m) /\ Plain(s) /\ m.initialized = FALSE
  BY ResetPlain
<1>2. ResetPair = [master |-> m, slave |-> s]
  BY DEF ResetPair
<1> HIDE DEF m, s
<1> QED BY <1>1, <1>2 DEF PlainPair, Plain, Sound, Pair, CascadeActive

LEMMA BlankRingType == BlankRing \in Ring
BY KeyPathAssumption DEF BlankRing, Ring, Word

LEMMA InitKInv == Init => KInv
<1> SUFFICES ASSUME Init
             PROVE  KInv
  OBVIOUS
<1>1. kbd = ResetController
  BY DEF Init
<1>2. PlainPair(pic)
  <2>1. CASE "irq" \notin guest
    <3>1. pic = ResetPair
      BY <2>1 DEF Init
    <3> QED BY <3>1, ResetPairPlain
  <2>2. CASE "irq" \in guest
    <3> DEFINE m == Programmed(ResetRole(TRUE), Cascade)
               s == Programmed(ResetRole(FALSE), Cascade)
    <3>1. Plain(m)
      BY ResetPlain
    <3>2. Plain(s) /\ s.slaveId = Cascade
      BY ResetPlain
    <3>3. pic = [master |-> m, slave |-> s]
      BY <2>2 DEF Init
    <3> HIDE DEF m, s
    <3> QED BY <3>1, <3>2, <3>3, LineTypes DEF PlainPair, Plain, Sound, Pair
  <2> QED BY <2>1, <2>2
<1>3. RingInv
  BY BlankRingType DEF Init, RingInv, BlankRing
<1>4. typeahead \in 0 .. HostCap /\ guest \in Guests
  BY KeyPathAssumption DEF Init
<1>5. A20Agrees
  <2>1. ResetController.a20 = TRUE
    BY DEF ResetController
  <2> QED BY <1>1, <2>1 DEF A20Agrees, Init
<1>6. arrival = "none"
  BY DEF Init
<1>7. FreshKeyRequests /\ arrival \in Arrivals
  BY <1>6 DEF FreshKeyRequests, Arrivals
<1> QED BY <1>1, <1>2, <1>3, <1>4, <1>5, <1>7, ResetWell DEF KInv

----------------------------------------------------------------------------
(* The steps.                                                               *)

LEMMA MachineResetInv ==
  ASSUME KInv, MachineReset
  PROVE  KInv'
<1>1. kbd' = ResetController /\ pic' = ResetPair
  BY DEF MachineReset
<1>2. Well(kbd)' /\ PlainPair(pic)'
  BY <1>1, ResetWell, ResetPairPlain
<1>3. ring' = ring /\ guest' = guest
  BY DEF MachineReset
<1>4. RingInv' /\ (guest \in Guests)'
  BY <1>3 DEF KInv, RingInv
<1>5. (typeahead \in 0 .. HostCap)'
  BY KeyPathAssumption DEF MachineReset
<1>6. A20Agrees'
  BY DEF MachineReset, A20Agrees
<1>7. arrival' = "none"
  BY DEF MachineReset
<1>8. FreshKeyRequests' /\ (arrival \in Arrivals)'
  BY <1>7 DEF FreshKeyRequests, Arrivals
<1> QED BY <1>2, <1>4, <1>5, <1>6, <1>8 DEF KInv

(* What a step leaves in the controller, the pair and the gates.            *)
LEMMA LeavesInv ==
  ASSUME KInv, Well(kbd'), PlainPair(pic'), A20Agrees',
         UNCHANGED <<ring, typeahead, guest>>, arrival' \in Arrivals,
         /\ arrival' = "fresh" /\ Irq1Line(kbd') /\ pic'.master.initialized
         => Asks(pic')
  PROVE  KInv'
<1>1. RingInv'
  BY DEF KInv, RingInv
<1>2. FreshKeyRequests'
  BY DEF FreshKeyRequests, Asks
<1> QED BY <1>1, <1>2 DEF KInv

LEMMA RetireInv ==
  ASSUME KInv, NEW k, NEW d, NEW g, NEW resets, NEW arrived,
         Retire(k, d, g, resets, arrived), Well(k), PlainPair(d),
         g = [port92 |-> k.a20, mem |-> k.a20], arrived \in Arrivals,
         arrived = "fresh" /\ d.master.initialized => Asks(d)
  PROVE  KInv'
<1>1. CASE k.reset \/ resets
  BY <1>1, MachineResetInv DEF Retire
<1>2. CASE ~(k.reset \/ resets)
  <2>1. /\ kbd' = k /\ pic' = d /\ gates' = g /\ arrival' = arrived
        /\ UNCHANGED <<ring, typeahead, guest>>
    BY <1>2 DEF Retire
  <2>2. A20Agrees'
    BY <2>1 DEF A20Agrees
  <2> QED BY <2>1, <2>2, LeavesInv
<1> QED BY <1>1, <1>2

(* After the poll a key that was fresh and is so still has its request.     *)
LEMMA KeptFresh ==
  ASSUME KInv
  PROVE  /\ PlainPair(Polled)
         /\ Kept \in Arrivals
         /\ Kept = "fresh" /\ Polled.master.initialized => Asks(Polled)
<1>1. /\ PlainPair(Polled)
      /\ Polled.master.initialized = pic.master.initialized
      /\ (Irq1Line(kbd) => Asks(pic)) => Asks(Polled) \/ Irq1Acked
  BY PolledSteady DEF KInv
<1>2. Kept \in Arrivals
  BY DEF Kept, KInv, Arrivals
<1>3. Kept = "fresh" => arrival = "fresh" /\ ~Irq1Acked
  BY DEF Kept
<1>4. arrival = "fresh" /\ pic.master.initialized => (Irq1Line(kbd) => Asks(pic))
  BY DEF KInv, FreshKeyRequests, Asks
<1> QED BY <1>1, <1>2, <1>3, <1>4

LEMMA WriteControllerInv ==
  ASSUME KInv, NEW k, Well(k), WriteController(k)
  PROVE  KInv'
<1> DEFINE arrived == IF ~KeyFull(k) THEN "none"
                      ELSE IF KeyFull(kbd) THEN Kept ELSE "answer"
           g == [port92 |-> k.a20, mem |-> k.a20]
<1>1. Retire(k, Polled, g, FALSE, arrived)
  BY DEF WriteController
<1>2. arrived \in {"none", "answer", Kept}
  OBVIOUS
<1> HIDE DEF arrived
<1>3. arrived \in Arrivals
  BY <1>2, KeptFresh DEF Arrivals
<1>4. arrived = "fresh" => Kept = "fresh"
  BY <1>2
<1>5. arrived = "fresh" /\ Polled.master.initialized => Asks(Polled)
  BY <1>4, KeptFresh
<1>6. PlainPair(Polled)
  BY KeptFresh
<1> QED BY <1>1, <1>3, <1>5, <1>6, RetireInv

(* An instruction that leaves the controller's gate as it was.              *)
LEMMA GatesKept ==
  ASSUME KInv, NEW k, k.a20 = kbd.a20
  PROVE  gates = [port92 |-> k.a20, mem |-> k.a20]
BY DEF KInv, A20Agrees

LEMMA ComputeInv ==
  ASSUME KInv, Compute \/ WriteCf9
  PROVE  KInv'
<1>1. PICK resets \in BOOLEAN : Retire(kbd, Polled, gates, resets, Kept)
  BY DEF Compute, WriteCf9
<1>2. Well(kbd) /\ gates = [port92 |-> kbd.a20, mem |-> kbd.a20]
  BY GatesKept DEF KInv
<1> QED BY <1>1, <1>2, KeptFresh, RetireInv

LEMMA ReadDataInv ==
  ASSUME KInv, ReadData
  PROVE  KInv'
<1> DEFINE k == TakeOutput(kbd)
           arrived == IF KeyFull(k) THEN "next" ELSE "none"
<1>1. Retire(k, Polled, gates, FALSE, arrived)
  BY DEF ReadData
<1>2. Well(k) /\ k.a20 = kbd.a20
  BY TakeWell DEF KInv, Same
<1> HIDE DEF k
<1>3. gates = [port92 |-> k.a20, mem |-> k.a20]
  BY <1>2, GatesKept
<1>4. arrived \in {"next", "none"}
  OBVIOUS
<1> HIDE DEF arrived
<1>5. arrived \in Arrivals /\ arrived # "fresh"
  BY <1>4 DEF Arrivals
<1> QED BY <1>1, <1>2, <1>3, <1>5, KeptFresh, RetireInv

LEMMA WriteCommandInv ==
  ASSUME KInv, WriteCommand
  PROVE  KInv'
<1>1. PICK c \in Commands : WriteController(Command(kbd, c))
  BY DEF WriteCommand
<1>2. Well(Command(kbd, c))
  BY CommandMoves DEF KInv
<1> QED BY <1>1, <1>2, WriteControllerInv

(* What a byte to the data port makes of the controller.                    *)
LEMMA WriteDataStores ==
  ASSUME Well(kbd), WriteData
  PROVE  \E k : /\ Well(k) /\ Unread(kbd, k) /\ KeepsKeys(kbd, k)
               /\ WriteController(k)
<1>1. CASE \E config \in ConfigStores : WriteController(StoreConfig(kbd, config))
  <2>1. PICK config \in ConfigStores : WriteController(StoreConfig(kbd, config))
    BY <1>1
  <2>2. config \in Config
    BY KeyPathAssumption
  <2>3. /\ Moves(kbd, StoreConfig(kbd, config))
        /\ KeepsKeys(kbd, StoreConfig(kbd, config))
    BY <2>2, ConfigMoves
  <2> QED BY <2>1, <2>3 DEF Moves
<1>2. CASE \E a20, resetLine \in BOOLEAN :
             WriteController(StoreOutPort(kbd, a20, resetLine))
  BY <1>2, GateStoresWell
<1>3. CASE \E c \in MouseStores : WriteController(StoreAux(kbd, c))
  <2>1. PICK c \in MouseStores : WriteController(StoreAux(kbd, c))
    BY <1>3
  <2>2. c \in MouseCommands
    BY KeyPathAssumption
  <2>3. Moves(kbd, StoreAux(kbd, c)) /\ KeepsKeys(kbd, StoreAux(kbd, c))
    BY <2>2, StoreAuxMoves
  <2> QED BY <2>1, <2>3 DEF Moves
<1>4. CASE \E c \in KbdCommands : WriteController(KbdByte(kbd, c))
  BY <1>4, KbdByteMoves DEF Moves
<1> QED BY <1>1, <1>2, <1>3, <1>4 DEF WriteData

LEMMA WriteDataInv ==
  ASSUME KInv, WriteData
  PROVE  KInv'
<1>1. PICK k : Well(k) /\ WriteController(k)
  BY WriteDataStores DEF KInv
<1> QED BY <1>1, WriteControllerInv

LEMMA WritePort92Inv ==
  ASSUME KInv, WritePort92
  PROVE  KInv'
<1>1. PICK a20 \in BOOLEAN, resets \in BOOLEAN :
        Retire(FastGate(kbd, a20), Polled, [port92 |-> a20, mem |-> a20],
               resets, Kept)
  BY DEF WritePort92
<1>2. Well(FastGate(kbd, a20)) /\ FastGate(kbd, a20).a20 = a20
  BY GateStoresWell DEF KInv
<1> QED BY <1>1, <1>2, KeptFresh, RetireInv

LEMMA EndOfInterruptInv ==
  ASSUME KInv, EndOfInterrupt
  PROVE  KInv'
<1>1. PICK chip \in {"master", "slave"} :
        Retire(kbd, SyncCascade([Polled EXCEPT ![chip] = Ocw2(@, "eoi", 0)]),
               gates, FALSE, Kept)
  BY DEF EndOfInterrupt
<1> DEFINE d == SyncCascade([Polled EXCEPT ![chip] = Ocw2(@, "eoi", 0)])
<1>2. Well(kbd) /\ gates = [port92 |-> kbd.a20, mem |-> kbd.a20]
  BY GatesKept DEF KInv
<1>3. /\ PlainPair(d)
      /\ d.master.initialized = Polled.master.initialized
      /\ Asks(Polled) => Asks(d)
  BY KeptFresh, EoiAsks
<1>4. Retire(kbd, d, gates, FALSE, Kept)
  BY <1>1
<1> HIDE DEF d
<1>5. Kept = "fresh" /\ d.master.initialized => Asks(d)
  BY <1>3, KeptFresh
<1> QED BY <1>2, <1>3, <1>4, <1>5, KeptFresh, RetireInv

(* The host's side.                                                         *)
LEMMA DeviceInv ==
  ASSUME KInv, NEW k, NEW d, Device(k, d), Well(k), k.a20 = kbd.a20,
         PlainPair(d), d.master.initialized = pic.master.initialized,
         /\ Irq1Line(k)
         /\ Irq1Line(kbd) => arrival = "fresh"
         /\ Irq1Line(kbd) => Asks(pic)
         => Asks(d)
  PROVE  KInv'
<1>1. /\ kbd' = k /\ pic' = d
      /\ UNCHANGED <<ring, typeahead, gates, guest>>
  BY DEF Device
<1>2. arrival' = IF ~KeyFull(k) THEN "none"
                 ELSE IF KeyFull(kbd) THEN arrival ELSE "fresh"
  BY DEF Device
<1>3. arrival' \in Arrivals
  BY <1>2 DEF KInv, Arrivals
<1>4. A20Agrees'
  BY <1>1 DEF KInv, A20Agrees
<1>5. ASSUME arrival' = "fresh", Irq1Line(k), d.master.initialized
      PROVE  Asks(d)
  <2>1. CASE KeyFull(kbd)
    <3>1. arrival = "fresh"
      BY <1>2, <1>5, <2>1
    <3>2. Irq1Line(kbd) => Asks(pic)
      BY <1>5, <3>1 DEF KInv, FreshKeyRequests, Asks
    <3> QED BY <1>5, <3>1, <3>2
  <2>2. CASE ~KeyFull(kbd)
    <3>1. ~Irq1Line(kbd)
      BY <2>2 DEF Irq1Line, KeyFull
    <3> QED BY <1>5, <3>1
  <2> QED BY <2>1, <2>2
<1> QED BY <1>1, <1>3, <1>4, <1>5, LeavesInv

LEMMA InjectKeyInv ==
  ASSUME KInv, InjectKey
  PROVE  KInv'
<1>1. PICK b \in DeviceBytes :
        Device(InjectScancode(kbd, b),
               PulseIrq1(pic, kbd, InjectScancode(kbd, b)))
  BY DEF InjectKey, DeviceBytes, KeyBytes
<1> DEFINE k == InjectScancode(kbd, b)
           d == PulseIrq1(pic, kbd, k)
<1>2. Well(k) /\ k.a20 = kbd.a20
  BY ScanMoves DEF KInv, Moves
<1>3. Device(k, d)
  BY <1>1
<1> HIDE DEF k
<1>4. /\ PlainPair(d) /\ d.master.initialized = pic.master.initialized
      /\ /\ Irq1Line(k)
         /\ Irq1Line(kbd) => Asks(pic)
         => Asks(d)
  BY PulseAsks DEF KInv
<1> HIDE DEF d
<1> QED BY <1>2, <1>3, <1>4, DeviceInv

LEMMA MoveMouseInv ==
  ASSUME KInv, MoveMouse
  PROVE  KInv'
<1> DEFINE k == InjectMousePacket(kbd)
<1>1. Device(k, pic)
  BY DEF MoveMouse
<1>2. /\ Well(k) /\ k.a20 = kbd.a20 /\ k.config = kbd.config
      /\ KeyFull(k) => KeyFull(kbd)
  BY PacketMoves DEF KInv, Moves
<1> HIDE DEF k
<1>3. Irq1Line(k) => Irq1Line(kbd)
  BY <1>2 DEF Irq1Line, KeyFull
<1>4. PlainPair(pic)
  BY DEF KInv
<1> QED BY <1>1, <1>2, <1>3, <1>4, DeviceInv

LEMMA ForceMouseByteInv ==
  ASSUME KInv, ForceMouseByte
  PROVE  KInv'
<1> DEFINE k == InjectAuxByte(kbd)
           d == PulseIrq12(pic, kbd, k)
<1>1. Device(k, d)
  BY DEF ForceMouseByte
<1>2. /\ Well(k) /\ k.a20 = kbd.a20
      /\ KeyFull(k) => k = kbd
  BY AuxByteWell DEF KInv, Same
<1> HIDE DEF k
<1>3. Apart(pic, d)
  BY PulseAuxApart DEF KInv
<1> HIDE DEF d
<1>4. Irq1Line(k) => Irq1Line(kbd)
  BY <1>2 DEF Irq1Line, KeyFull
<1>5. /\ PlainPair(d) /\ d.master.initialized = pic.master.initialized
      /\ Asks(pic) => Asks(d)
  BY <1>3 DEF Apart, Asks
<1> QED BY <1>1, <1>2, <1>4, <1>5, DeviceInv

LEMMA ForceKbdByteInv ==
  ASSUME KInv, ForceKbdByte
  PROVE  KInv'
<1> DEFINE k == PresentKbd(kbd, Stray)
           d == PulseIrq1(pic, kbd, k)
<1>1. Device(k, d)
  BY DEF ForceKbdByte
<1>2. Well(k) /\ k.a20 = kbd.a20
  BY ByteTypes, PushWell DEF KInv, Same
<1> HIDE DEF k
<1>3. /\ PlainPair(d) /\ d.master.initialized = pic.master.initialized
      /\ /\ Irq1Line(k)
         /\ Irq1Line(kbd) => Asks(pic)
         => Asks(d)
  BY PulseAsks DEF KInv
<1> HIDE DEF d
<1> QED BY <1>1, <1>2, <1>3, DeviceInv

----------------------------------------------------------------------------
(* The BIOS keyboard buffer.                                                *)

RingOk(r) == r \in Ring /\ (r.head = 0 <=> r.tail = 0)

LEMMA AdvanceType ==
  ASSUME NEW n \in 1 .. RingSlots
  PROVE  Advance(n) \in 1 .. RingSlots
BY KeyPathAssumption DEF Advance

LEMMA EnsureRingType ==
  ASSUME NEW r, RingOk(r)
  PROVE  LET e == EnsureRing(r)
         IN  e \in Ring /\ e.head \in 1 .. RingSlots /\ e.tail \in 1 .. RingSlots
<1> DEFINE e == EnsureRing(r)
<1>1. 1 \in 0 .. RingSlots /\ 1 \in 1 .. RingSlots
  BY KeyPathAssumption
<1>2. CASE r.head = 0
  <2>1. e = [r EXCEPT !.head = 1, !.tail = 1]
    BY <1>2 DEF EnsureRing, RingOk
  <2> QED BY <1>1, <2>1 DEF RingOk, Ring
<1>3. CASE r.head # 0
  <2>1. e = r
    BY <1>3 DEF EnsureRing
  <2>2. r.head \in 0 .. RingSlots /\ r.tail \in 0 .. RingSlots
    BY DEF RingOk, Ring
  <2> QED BY <1>3, <2>1, <2>2, KeyPathAssumption DEF RingOk
<1> QED BY <1>2, <1>3

LEMMA EnqueuedType ==
  ASSUME NEW r, RingOk(r), NEW word \in Word
  PROVE  RingOk(Enqueued(EnsureRing(r), word))
<1> DEFINE e == EnsureRing(r)
           slots == [e.slots EXCEPT ![e.tail] = word]
           f == [e EXCEPT !.slots = slots, !.tail = Advance(e.tail)]
<1>1. e \in Ring /\ e.head \in 1 .. RingSlots /\ e.tail \in 1 .. RingSlots
  BY EnsureRingType
<1> HIDE DEF e
<1>2. e.head # 0 /\ e.tail # 0
  BY <1>1, KeyPathAssumption
<1>3. Advance(e.tail) \in 0 .. RingSlots /\ Advance(e.tail) # 0
  BY <1>1, AdvanceType, KeyPathAssumption
<1>4. slots \in [1 .. RingSlots -> Word]
  BY <1>1 DEF Ring
<1>5. Enqueued(e, word) \in {e, f}
  BY DEF Enqueued
<1> HIDE DEF slots
<1>6. f \in Ring /\ f.head = e.head /\ f.tail = Advance(e.tail)
  BY <1>1, <1>3, <1>4 DEF Ring
<1> HIDE DEF f
<1>7. RingOk(f) /\ RingOk(e)
  BY <1>1, <1>2, <1>3, <1>6 DEF RingOk
<1> QED BY <1>5, <1>7 DEF e

LEMMA DequeuedType ==
  ASSUME NEW r, RingOk(r)
  PROVE  RingOk(Dequeued(r))
<1> DEFINE e == [r EXCEPT !.head = Advance(r.head)]
<1>1. CASE r.head = r.tail
  BY <1>1 DEF Dequeued
<1>2. CASE r.head # r.tail
  <2>1. r.head # 0 /\ r.tail # 0
    BY <1>2 DEF RingOk
  <2>2. r.head \in 1 .. RingSlots
    <3>1. r.head \in 0 .. RingSlots
      BY DEF RingOk, Ring
    <3> QED BY <2>1, <3>1, KeyPathAssumption
  <2>3. Advance(r.head) \in 0 .. RingSlots /\ Advance(r.head) # 0
    BY <2>2, AdvanceType, KeyPathAssumption
  <2>4. Dequeued(r) = e
    BY <1>2 DEF Dequeued
  <2>5. e \in Ring /\ e.head = Advance(r.head) /\ e.tail = r.tail
    BY <2>3 DEF RingOk, Ring
  <2> HIDE DEF e
  <2> QED BY <2>1, <2>3, <2>4, <2>5 DEF RingOk
<1> QED BY <1>1, <1>2

(* The host's service reads a byte of the keyboard and buffers a key.       *)
LEMMA ServiceIrq1Inv ==
  ASSUME KInv, ServiceIrq1
  PROVE  KInv'
<1> DEFINE k == TakeOutput(kbd)
           high == Irq1Line(k)
           d == SetMasterLine(pic, Irq1, high)
<1>1. kbd' = k /\ pic' = d
  BY DEF ServiceIrq1, SyncIrq1
<1>2. Well(k) /\ k.a20 = kbd.a20
  BY TakeWell DEF KInv, Same
<1>3. high \in BOOLEAN
  BY DEF Irq1Line, Full
<1> HIDE DEF k, high
<1>4. PlainPair(d)
  BY <1>3, MasterLinePlain DEF KInv
<1> HIDE DEF d
<1>5. ring' = ring \/ \E word \in Word : ring' = Enqueued(EnsureRing(ring), word)
  BY DEF ServiceIrq1
<1>6. RingOk(ring')
  BY <1>5, EnqueuedType DEF KInv, RingInv, RingOk
<1>7. UNCHANGED <<typeahead, gates, guest>>
  BY DEF ServiceIrq1
<1>8. arrival' \in {"next", "none"}
  BY DEF ServiceIrq1
<1>9. FreshKeyRequests' /\ (arrival \in Arrivals)'
  BY <1>8 DEF FreshKeyRequests, Arrivals
<1>10. A20Agrees'
  BY <1>1, <1>2, <1>7 DEF KInv, A20Agrees
<1>11. RingInv'
  BY <1>6 DEF RingInv, RingOk
<1> QED BY <1>1, <1>2, <1>4, <1>7, <1>9, <1>10, <1>11 DEF KInv

LEMMA BufferInv ==
  ASSUME KInv, RingInject \/ PushKey \/ GetKey
  PROVE  KInv'
<1>1. UNCHANGED <<kbd, pic, gates, guest, arrival>>
  BY DEF RingInject, PushKey, GetKey
<1>2. ring' \in {ring, Enqueued(EnsureRing(ring), Stray), Dequeued(ring)}
  BY DEF RingInject, PushKey, GetKey
<1>3. RingOk(ring')
  BY <1>2, EnqueuedType, DequeuedType DEF KInv, RingInv, RingOk, Word
<1>4. typeahead' \in 0 .. HostCap
  <2>1. typeahead \in 0 .. HostCap /\ HostCap \in Nat
    BY KeyPathAssumption DEF KInv
  <2>2. \/ typeahead' = typeahead
        \/ typeahead < HostCap /\ typeahead' = typeahead + 1
        \/ typeahead > 0 /\ typeahead' = typeahead - 1
    BY DEF RingInject, PushKey, GetKey
  <2> QED BY <2>1, <2>2
<1>5. Well(kbd)' /\ PlainPair(pic)'
  BY <1>1 DEF KInv
<1>6. A20Agrees' /\ FreshKeyRequests'
  BY <1>1 DEF KInv, A20Agrees, FreshKeyRequests
<1>7. RingInv'
  BY <1>3 DEF RingInv, RingOk
<1> QED BY <1>1, <1>4, <1>5, <1>6, <1>7 DEF KInv

LEMMA Inductive == KInv /\ [Next]_vars => KInv'
<1> SUFFICES ASSUME KInv, [Next]_vars
             PROVE  KInv'
  OBVIOUS
<1>1. CASE UNCHANGED vars
  <2>1. UNCHANGED <<kbd, pic, ring, typeahead, gates, guest, arrival>>
    BY <1>1 DEF vars
  <2>2. Well(kbd)' /\ PlainPair(pic)' /\ RingInv'
    BY <2>1 DEF KInv, RingInv
  <2>3. A20Agrees' /\ FreshKeyRequests'
    BY <2>1 DEF KInv, A20Agrees, FreshKeyRequests
  <2> QED BY <2>1, <2>2, <2>3 DEF KInv
<1>2. CASE Compute \/ WriteCf9
  BY <1>2, ComputeInv
<1>3. CASE ReadData
  BY <1>3, ReadDataInv
<1>4. CASE WriteCommand
  BY <1>4, WriteCommandInv
<1>5. CASE WriteData
  BY <1>5, WriteDataInv
<1>6. CASE WritePort92
  BY <1>6, WritePort92Inv
<1>7. CASE EndOfInterrupt
  BY <1>7, EndOfInterruptInv
<1>8. CASE InjectKey
  BY <1>8, InjectKeyInv
<1>9. CASE MoveMouse
  BY <1>9, MoveMouseInv
<1>10. CASE ForceMouseByte
  BY <1>10, ForceMouseByteInv
<1>11. CASE ForceKbdByte
  BY <1>11, ForceKbdByteInv
<1>12. CASE ServiceIrq1
  BY <1>12, ServiceIrq1Inv
<1>13. CASE RingInject \/ PushKey \/ GetKey
  BY <1>13, BufferInv
<1>14. CASE MachineReset
  BY <1>14, MachineResetInv
<1> QED BY <1>1, <1>2, <1>3, <1>4, <1>5, <1>6, <1>7, <1>8, <1>9, <1>10,
           <1>11, <1>12, <1>13, <1>14 DEF Next

LEMMA Invariant == Spec => []KInv
BY InitKInv, Inductive, PTL DEF Spec

----------------------------------------------------------------------------
(* The theorems.                                                            *)

(* Every variable keeps the range the code's types and queue limits give    *)
(* it: in no run does a queue of i8042.rs or the BIOS keyboard buffer of    *)
(* bda_kbd.rs leave its bounds.                                             *)
THEOREM TypesKept == Spec => []TypeOK
<1>1. KInv => TypeOK
  <2> SUFFICES ASSUME KInv
               PROVE  TypeOK
    OBVIOUS
  <2>1. kbd \in Controller /\ pic \in Pair /\ ring \in Ring
    BY DEF KInv, Well, PlainPair, RingInv
  <2>2. gates \in [port92 : BOOLEAN, mem : BOOLEAN]
    <3>1. kbd.a20 \in BOOLEAN
      BY <2>1 DEF Controller
    <3> QED BY <3>1 DEF KInv, A20Agrees
  <2> QED BY <2>1, <2>2 DEF KInv, TypeOK
<1> QED BY <1>1, Invariant, PTL

(* Nothing waits behind an empty output buffer: a reader of port 60h that   *)
(* sees OBF clear misses no dump byte, and no mouse byte while the mouse's  *)
(* clock runs.                                                              *)
THEOREM NothingWaits == Spec => []NothingHeldBack
<1>1. KInv => NothingHeldBack
  BY DEF KInv, Well, NothingHeldBack
<1> QED BY <1>1, Invariant, PTL

(* The controller's output port, port 92h and the memory map always have    *)
(* the same A20 gate, whichever of the three writes was the last.           *)
THEOREM A20IsOne == Spec => []A20Agrees
<1>1. KInv => A20Agrees
  BY DEF KInv
<1> QED BY <1>1, Invariant, PTL

(* A key that found the output buffer empty raises IRQ1 even when no poll   *)
(* saw the line low before it (the pulse of inject_scancode's wrapper): it  *)
(* is latched, or still to rise, until it is acknowledged.                  *)
THEOREM FreshKeysRequest == Spec => []FreshKeyRequests
<1>1. KInv => FreshKeyRequests
  BY DEF KInv
<1> QED BY <1>1, Invariant, PTL

LEMMA RetireReads ==
  ASSUME NEW k, NEW d, NEW g, NEW resets, NEW arrived,
         Retire(k, d, g, resets, arrived)
  PROVE  kbd' = k \/ kbd' = ResetController
BY DEF Retire, MachineReset

LEMMA UnreadStep ==
  ASSUME KInv, Next, "barge" \notin guest, kbd.out \in Makes
  PROVE  \/ kbd'.out = kbd.out
         \/ kbd' = TakeOutput(kbd)
         \/ kbd' = ResetController
<1> DEFINE Waits == \/ kbd'.out = kbd.out
                    \/ kbd' = TakeOutput(kbd)
                    \/ kbd' = ResetController
<1>1. Full(kbd) /\ kbd.out # Mouse
  BY ByteTypes DEF Full
<1>2. Well(kbd)
  BY DEF KInv
<1>3. ASSUME NEW k, Unread(kbd, k), kbd' = k \/ kbd' = ResetController
      PROVE  Waits
  BY <1>1, <1>3 DEF Unread
<1>4. ASSUME NEW k, Unread(kbd, k), WriteController(k)
      PROVE  Waits
  BY <1>3, <1>4, RetireReads DEF WriteController
<1>5. Unread(kbd, kbd)
  BY DEF Unread
<1>6. CASE Compute \/ WriteCf9 \/ EndOfInterrupt
  BY <1>3, <1>5, <1>6, RetireReads DEF Compute, WriteCf9, EndOfInterrupt
<1>7. CASE ReadData
  BY <1>7, RetireReads DEF ReadData
<1>8. CASE WriteCommand
  <2>1. PICK c \in Commands : Gives(c) /\ WriteController(Command(kbd, c))
    BY <1>8 DEF WriteCommand
  <2>2. c # "readNow"
    BY <1>1, <2>1 DEF Gives, Full
  <2>3. Unread(kbd, Command(kbd, c))
    BY <1>2, <2>2, CommandMoves
  <2> QED BY <1>4, <2>1, <2>3
<1>9. CASE WriteData
  BY <1>2, <1>4, <1>9, WriteDataStores
<1>10. CASE WritePort92
  <2>1. PICK a20 \in BOOLEAN :
          kbd' = FastGate(kbd, a20) \/ kbd' = ResetController
    BY <1>10, RetireReads DEF WritePort92
  <2>2. Unread(kbd, FastGate(kbd, a20))
    BY <1>2, GateStoresWell
  <2> QED BY <1>3, <2>1, <2>2
<1>11. CASE InjectKey
  <2>1. PICK b \in DeviceBytes : kbd' = InjectScancode(kbd, b)
    BY <1>11 DEF InjectKey, Device, DeviceBytes, KeyBytes
  <2>2. Unread(kbd, InjectScancode(kbd, b))
    BY <1>2, ScanMoves DEF Moves
  <2> QED BY <1>3, <2>1, <2>2
<1>12. CASE MoveMouse
  <2>1. kbd' = InjectMousePacket(kbd)
    BY <1>12 DEF MoveMouse, Device
  <2>2. Unread(kbd, InjectMousePacket(kbd))
    BY <1>2, PacketMoves DEF Moves
  <2> QED BY <1>3, <2>1, <2>2
<1>13. CASE ForceMouseByte \/ ForceKbdByte
  BY <1>13 DEF ForceMouseByte, ForceKbdByte
<1>14. CASE ServiceIrq1
  BY <1>14 DEF ServiceIrq1
<1>15. CASE RingInject \/ PushKey \/ GetKey
  BY <1>15 DEF RingInject, PushKey, GetKey
<1>16. CASE MachineReset
  BY <1>16 DEF MachineReset
<1> QED BY <1>6, <1>7, <1>8, <1>9, <1>10, <1>11, <1>12, <1>13, <1>14, <1>15,
           <1>16 DEF Next

(* A key in the output buffer stays until it is read or the machine is      *)
(* reset, unless the guest gives commands without looking at the buffer     *)
(* (push_output overwrites it then).                                        *)
THEOREM UnreadKeysWait == Spec => UnreadKeyWaits
<1>1. KInv /\ [Next]_vars =>
        [ "barge" \notin guest /\ kbd.out \in Makes
          => \/ kbd'.out = kbd.out
             \/ kbd' = TakeOutput(kbd)
             \/ kbd' = ResetController ]_vars
  BY UnreadStep
<1> QED BY <1>1, Invariant, PTL DEF Spec, UnreadKeyWaits
----------------------------------------------------------------------------
(* The keys among the bytes of a queue.                                     *)

(* What holds of 0 and passes from every number to the next holds up to N.  *)
LEMMA UpFromZero ==
  ASSUME NEW N \in Nat, NEW S, 0 \in S,
         \A n \in 0 .. N - 1 : n \in S => n + 1 \in S
  PROVE  \A n \in 0 .. N : n \in S
<1> DEFINE T == {n \in 0 .. N : n \notin S}
<1> SUFFICES ASSUME T # {}
             PROVE  FALSE
  OBVIOUS
<1>1. PICK m \in T : \A n \in T : m <= n
  <2>1. T \subseteq Nat
    OBVIOUS
  <2> HIDE DEF T
  <2> QED BY <2>1, LeastNatural
<1>2. m \in 0 .. N /\ m \notin S /\ m # 0
  BY <1>1
<1>3. m - 1 \in 0 .. N - 1 /\ m - 1 \notin T /\ (m - 1) + 1 = m
  BY <1>1, <1>2
<1>4. m - 1 \in S
  BY <1>3
<1> QED BY <1>2, <1>3, <1>4

(* The bytes the queues hold, and an empty output buffer.                   *)
Shown == Bytes \cup {NoByte}

(* The recursive function of Keys, on the first m bytes.                    *)
Filters(s, g, m) ==
  g = [n \in 0 .. m |->
         IF n = 0 THEN <<>>
         ELSE IF s[n] \in Makes THEN Append(g[n - 1], s[n])
         ELSE g[n - 1]]

LEMMA FiltersExists ==
  ASSUME NEW s, NEW N \in Nat
  PROVE  \E g : Filters(s, g, N)
<1> DEFINE More(x, n) == IF s[n] \in Makes THEN Append(x, s[n]) ELSE x
           S == {m \in 0 .. N : \E g : Filters(s, g, m)}
<1>1. ASSUME NEW g, NEW m \in Nat
      PROVE  Filters(s, g, m) <=>
               g = [n \in 0 .. m |-> IF n = 0 THEN <<>> ELSE More(g[n - 1], n)]
  BY DEF Filters
<1> HIDE DEF More
<1>2. 0 \in S
  <2> DEFINE g == [n \in 0 .. 0 |-> <<>>]
  <2>1. g = [n \in 0 .. 0 |-> IF n = 0 THEN <<>> ELSE More(g[n - 1], n)]
    OBVIOUS
  <2> HIDE DEF g
  <2>2. Filters(s, g, 0)
    BY <1>1, <2>1
  <2> QED BY <2>2
<1>3. ASSUME NEW m \in 0 .. N - 1, m \in S
      PROVE  m + 1 \in S
  <2>1. PICK f : Filters(s, f, m)
    BY <1>3
  <2>2. f = [n \in 0 .. m |-> IF n = 0 THEN <<>> ELSE More(f[n - 1], n)]
    BY <1>1, <2>1
  <2> DEFINE h == [n \in 0 .. m + 1 |->
                     IF n = m + 1 THEN More(f[m], m + 1) ELSE f[n]]
  <2>3. ASSUME NEW n \in 0 .. m + 1
        PROVE  h[n] = IF n = 0 THEN <<>> ELSE More(h[n - 1], n)
    <3>1. CASE n = m + 1
      <4>1. n # 0 /\ n - 1 = m /\ m \in 0 .. m + 1 /\ m # m + 1
        BY <3>1
      <4>2. h[n - 1] = f[m] /\ h[n] = More(f[m], m + 1)
        BY <3>1, <4>1
      <4> QED BY <3>1, <4>1, <4>2
    <3>2. CASE n # m + 1
      <4>1. n \in 0 .. m /\ h[n] = f[n]
        BY <3>2
      <4>2. f[n] = IF n = 0 THEN <<>> ELSE More(f[n - 1], n)
        BY <2>2, <4>1
      <4>3. n # 0 => h[n - 1] = f[n - 1]
        BY <4>1
      <4> HIDE DEF h
      <4> QED BY <4>1, <4>2, <4>3
    <3> QED BY <3>1, <3>2
  <2>4. h = [n \in 0 .. m + 1 |-> IF n = 0 THEN <<>> ELSE More(h[n - 1], n)]
    <3>1. h = [n \in 0 .. m + 1 |-> h[n]]
      OBVIOUS
    <3> HIDE DEF h
    <3> QED BY <2>3, <3>1
  <2> HIDE DEF h
  <2>5. Filters(s, h, m + 1)
    BY <1>1, <2>4
  <2> QED BY <2>5
<1>4. \A n \in 0 .. N : n \in S
  <2> HIDE DEF S
  <2> QED BY <1>2, <1>3, UpFromZero
<1> QED BY <1>4

KeysUpTo(s) == CHOOSE g : Filters(s, g, Len(s))

LEMMA KeysSteps ==
  ASSUME NEW s \in Seq(Shown)
  PROVE  /\ Keys(s) = KeysUpTo(s)[Len(s)]
         /\ KeysUpTo(s)[0] = <<>>
         /\ \A n \in 1 .. Len(s) :
              KeysUpTo(s)[n] = IF s[n] \in Makes
                               THEN Append(KeysUpTo(s)[n - 1], s[n])
                               ELSE KeysUpTo(s)[n - 1]
<1> DEFINE N == Len(s)
           g == KeysUpTo(s)
<1>1. N \in Nat
  BY LenProperties
<1>2. Keys(s) = g[N]
  BY DEF Keys, KeysUpTo, Filters
<1>3. Filters(s, g, N)
  BY <1>1, FiltersExists DEF KeysUpTo
<1> HIDE DEF N, g
<1>4. \A n \in 0 .. N : g[n] = IF n = 0 THEN <<>>
                               ELSE IF s[n] \in Makes THEN Append(g[n - 1], s[n])
                               ELSE g[n - 1]
  BY <1>3 DEF Filters
<1>5. g[0] = <<>>
  BY <1>1, <1>4
<1>6. \A n \in 1 .. N : g[n] = IF s[n] \in Makes THEN Append(g[n - 1], s[n])
                               ELSE g[n - 1]
  BY <1>1, <1>4
<1> QED BY <1>2, <1>5, <1>6 DEF N, g

LEMMA KeysTypes ==
  ASSUME NEW s \in Seq(Shown)
  PROVE  \A n \in 0 .. Len(s) :
           KeysUpTo(s)[n] \in Seq(Makes) /\ Len(KeysUpTo(s)[n]) <= n
<1> DEFINE g == KeysUpTo(s)
           S == {n \in 0 .. Len(s) : g[n] \in Seq(Makes) /\ Len(g[n]) <= n}
<1>1. Len(s) \in Nat
  BY LenProperties
<1>2. /\ g[0] = <<>>
      /\ \A n \in 1 .. Len(s) :
           g[n] = IF s[n] \in Makes THEN Append(g[n - 1], s[n]) ELSE g[n - 1]
  BY KeysSteps
<1> HIDE DEF g
<1>3. 0 \in S
  <2>1. <<>> \in Seq(Makes) /\ Len(<<>>) = 0
    BY EmptySeq
  <2>2. g[0] \in Seq(Makes) /\ Len(g[0]) <= 0
    BY <1>2, <2>1
  <2> QED BY <1>1, <2>2
<1>4. ASSUME NEW n \in 0 .. Len(s) - 1, n \in S
      PROVE  n + 1 \in S
  <2>1. n + 1 \in 1 .. Len(s) /\ (n + 1) - 1 = n
    BY <1>1
  <2>2. g[n + 1] = IF s[n + 1] \in Makes THEN Append(g[n], s[n + 1]) ELSE g[n]
    BY <1>2, <2>1
  <2>3. g[n] \in Seq(Makes) /\ Len(g[n]) <= n /\ Len(g[n]) \in Nat
    BY <1>4, LenProperties
  <2>4. g[n + 1] \in Seq(Makes) /\ Len(g[n + 1]) <= n + 1
    BY <1>1, <2>2, <2>3, AppendProperties
  <2> QED BY <1>1, <2>4
<1>5. \A n \in 0 .. Len(s) : n \in S
  <2> HIDE DEF S
  <2> QED BY <1>1, <1>3, <1>4, UpFromZero
<1> QED BY <1>5 DEF g

LEMMA KeysType ==
  ASSUME NEW s \in Seq(Shown)
  PROVE  Keys(s) \in Seq(Makes) /\ Len(Keys(s)) \in Nat /\ Len(Keys(s)) <= Len(s)
<1>1. Len(s) \in 0 .. Len(s)
  BY LenProperties
<1>2. Keys(s) \in Seq(Makes) /\ Len(Keys(s)) <= Len(s)
  BY <1>1, KeysSteps, KeysTypes
<1> QED BY <1>2, LenProperties

LEMMA KeysNone == Keys(<<>>) = <<>>
<1>1. <<>> \in Seq(Shown) /\ Len(<<>>) = 0
  BY EmptySeq
<1> QED BY <1>1, KeysSteps

(* Two queues with the same first bytes have the same keys among them.      *)
LEMMA KeysPrefix ==
  ASSUME NEW s \in Seq(Shown), NEW t \in Seq(Shown), Len(s) <= Len(t),
         \A i \in 1 .. Len(s) : t[i] = s[i]
  PROVE  KeysUpTo(t)[Len(s)] = Keys(s)
<1> DEFINE g == KeysUpTo(s)
           h == KeysUpTo(t)
           S == {n \in 0 .. Len(s) : h[n] = g[n]}
<1>1. Len(s) \in Nat /\ Len(t) \in Nat
  BY LenProperties
<1>2. /\ g[0] = <<>> /\ h[0] = <<>>
      /\ \A n \in 1 .. Len(s) :
           g[n] = IF s[n] \in Makes THEN Append(g[n - 1], s[n]) ELSE g[n - 1]
      /\ \A n \in 1 .. Len(t) :
           h[n] = IF t[n] \in Makes THEN Append(h[n - 1], t[n]) ELSE h[n - 1]
  BY KeysSteps
<1>3. Keys(s) = g[Len(s)]
  BY KeysSteps
<1> HIDE DEF g, h
<1>4. 0 \in S
  BY <1>1, <1>2
<1>5. ASSUME NEW n \in 0 .. Len(s) - 1, n \in S
      PROVE  n + 1 \in S
  <2>1. n + 1 \in 1 .. Len(s) /\ n + 1 \in 1 .. Len(t) /\ (n + 1) - 1 = n
    BY <1>1
  <2>2. h[n] = g[n] /\ t[n + 1] = s[n + 1]
    BY <1>5, <2>1
  <2>3. h[n + 1] = g[n + 1]
    BY <1>2, <2>1, <2>2
  <2> QED BY <1>1, <2>3
<1>6. \A n \in 0 .. Len(s) : n \in S
  <2> HIDE DEF S
  <2> QED BY <1>1, <1>4, <1>5, UpFromZero
<1>7. Len(s) \in S
  BY <1>1, <1>6
<1> QED BY <1>3, <1>7 DEF h

LEMMA KeysAppend ==
  ASSUME NEW s \in Seq(Shown), NEW b \in Shown
  PROVE  Keys(Append(s, b)) = IF b \in Makes THEN Append(Keys(s), b) ELSE Keys(s)
<1> DEFINE t == Append(s, b)
<1>1. /\ t \in Seq(Shown) /\ Len(t) = Len(s) + 1 /\ Len(s) \in Nat
      /\ t[Len(s) + 1] = b /\ \A i \in 1 .. Len(s) : t[i] = s[i]
  BY AppendProperties, LenProperties
<1> HIDE DEF t
<1>2. Len(t) \in 1 .. Len(t) /\ Len(t) - 1 = Len(s) /\ Len(s) <= Len(t)
  BY <1>1
<1>3. Keys(t) = IF t[Len(t)] \in Makes THEN Append(KeysUpTo(t)[Len(s)], t[Len(t)])
                ELSE KeysUpTo(t)[Len(s)]
  BY <1>1, <1>2, KeysSteps
<1>4. KeysUpTo(t)[Len(s)] = Keys(s)
  BY <1>1, <1>2, KeysPrefix
<1> QED BY <1>1, <1>3, <1>4 DEF t

(* A byte as a queue of its keys.                                           *)
One(b) == IF b \in Makes THEN <<b>> ELSE <<>>

LEMMA OneAppends ==
  ASSUME NEW b, NEW s \in Seq(Makes), NEW c \in Makes
  PROVE  One(b) \o Append(s, c) = Append(One(b) \o s, c)
<1>1. One(b) \in Seq(Makes)
  BY DEF One
<1> DEFINE o == One(b)
<1> HIDE DEF o
<1>2. o \in Seq(Makes)
  BY <1>1 DEF o
<1>3. Append(s, c) = s \o <<c>> /\ <<c>> \in Seq(Makes)
  BY AppendIsConcat
<1>4. o \o s \in Seq(Makes)
  BY <1>2, ConcatProperties
<1>5. Append(o \o s, c) = (o \o s) \o <<c>>
  BY <1>4, AppendIsConcat
<1>6. (o \o s) \o <<c>> = o \o (s \o <<c>>)
  BY <1>2, <1>3, ConcatAssociative
<1> QED BY <1>3, <1>5, <1>6 DEF o

LEMMA KeysCons ==
  ASSUME NEW b \in Shown, NEW s \in Seq(Shown)
  PROVE  /\ <<b>> \o s \in Seq(Shown)
         /\ Keys(<<b>> \o s) = One(b) \o Keys(s)
<1> DEFINE t == <<b>> \o s
           g == KeysUpTo(s)
           h == KeysUpTo(t)
           S == {n \in 0 .. Len(s) : h[n + 1] = One(b) \o g[n]}
<1>1. /\ t \in Seq(Shown) /\ Len(s) \in Nat /\ Len(t) = Len(s) + 1
      /\ t[1] = b /\ \A i \in 1 .. Len(s) : t[i + 1] = s[i]
  <2>1. <<b>> \in Seq(Shown) /\ Len(<<b>>) = 1 /\ <<b>>[1] = b
    OBVIOUS
  <2>2. Len(s) \in Nat
    BY LenProperties
  <2>3. /\ t \in Seq(Shown) /\ Len(t) = 1 + Len(s)
        /\ \A i \in 1 .. 1 + Len(s) : t[i] = IF i <= 1 THEN <<b>>[i] ELSE s[i - 1]
    BY <2>1, ConcatProperties
  <2> HIDE DEF t
  <2>4. t[1] = b
    BY <2>1, <2>2, <2>3
  <2>5. ASSUME NEW i \in 1 .. Len(s)
        PROVE  t[i + 1] = s[i]
    <3>1. i + 1 \in 1 .. 1 + Len(s) /\ ~(i + 1 <= 1) /\ (i + 1) - 1 = i
      BY <2>2
    <3> QED BY <2>3, <3>1
  <2> QED BY <2>2, <2>3, <2>4, <2>5
<1>2. /\ g[0] = <<>> /\ h[0] = <<>>
      /\ \A n \in 1 .. Len(s) :
           g[n] = IF s[n] \in Makes THEN Append(g[n - 1], s[n]) ELSE g[n - 1]
      /\ \A n \in 1 .. Len(t) :
           h[n] = IF t[n] \in Makes THEN Append(h[n - 1], t[n]) ELSE h[n - 1]
  BY <1>1, KeysSteps
<1>3. Keys(s) = g[Len(s)] /\ Keys(t) = h[Len(t)]
  BY <1>1, KeysSteps
<1>4. \A n \in 0 .. Len(s) : g[n] \in Seq(Makes)
  BY KeysTypes
<1> HIDE DEF g, h, t
<1>5. 0 \in S
  <2>1. 1 \in 1 .. Len(t) /\ 1 - 1 = 0
    BY <1>1
  <2>2. h[1] = IF b \in Makes THEN Append(<<>>, b) ELSE <<>>
    <3>1. h[1] = IF t[1] \in Makes THEN Append(h[1 - 1], t[1]) ELSE h[1 - 1]
      BY <1>2, <2>1
    <3>2. h[1 - 1] = <<>> /\ t[1] = b
      BY <1>1, <1>2, <2>1
    <3> QED BY <3>1, <3>2
  <2>3. Append(<<>>, b) = <<b>>
    OBVIOUS
  <2>4. One(b) \in Seq(Makes)
    BY DEF One
  <2>5. One(b) \o <<>> = One(b)
    BY <2>4, ConcatEmptySeq
  <2>6. h[0 + 1] = One(b) \o g[0]
    BY <1>2, <2>2, <2>3, <2>5 DEF One
  <2> QED BY <1>1, <2>6
<1>6. ASSUME NEW n \in 0 .. Len(s) - 1, n \in S
      PROVE  n + 1 \in S
  <2>1. /\ n + 1 \in 1 .. Len(s) /\ (n + 1) + 1 \in 1 .. Len(t)
        /\ (n + 1) - 1 = n /\ ((n + 1) + 1) - 1 = n + 1 /\ n \in 0 .. Len(s)
    BY <1>1
  <2>2. h[n + 1] = One(b) \o g[n] /\ t[(n + 1) + 1] = s[n + 1]
    BY <1>1, <1>6, <2>1
  <2>3. g[n + 1] = IF s[n + 1] \in Makes THEN Append(g[n], s[n + 1]) ELSE g[n]
    BY <1>2, <2>1
  <2>4. h[(n + 1) + 1] = IF s[n + 1] \in Makes THEN Append(h[n + 1], s[n + 1])
                         ELSE h[n + 1]
    BY <1>2, <2>1, <2>2
  <2>5. g[n] \in Seq(Makes)
    BY <1>4, <2>1
  <2>6. h[(n + 1) + 1] = One(b) \o g[n + 1]
    BY <2>2, <2>3, <2>4, <2>5, OneAppends
  <2> QED BY <1>1, <2>6
<1>7. \A n \in 0 .. Len(s) : n \in S
  <2> HIDE DEF S
  <2> QED BY <1>1, <1>5, <1>6, UpFromZero
<1>8. Len(s) \in S
  BY <1>1, <1>7
<1> QED BY <1>1, <1>3, <1>8 DEF t
----------------------------------------------------------------------------
(* The keys in the controller.                                              *)

LEMMA OneFirst ==
  ASSUME NEW b \in Makes, NEW s \in Seq(Makes)
  PROVE  <<b>> \o s # <<>> /\ Head(<<b>> \o s) = b /\ Tail(<<b>> \o s) = s
<1> DEFINE t == <<b>> \o s
<1>1. <<b>> \in Seq(Makes) /\ Len(<<b>>) = 1 /\ <<b>>[1] = b /\ Len(s) \in Nat
  BY LenProperties
<1>2. /\ t \in Seq(Makes) /\ Len(t) = 1 + Len(s)
      /\ \A i \in 1 .. 1 + Len(s) : t[i] = IF i <= 1 THEN <<b>>[i] ELSE s[i - 1]
  BY <1>1, ConcatProperties
<1> HIDE DEF t
<1>3. t # <<>>
  BY <1>1, <1>2
<1>4. Head(t) = t[1] /\ t[1] = b
  BY <1>1, <1>2, <1>3
<1>5. /\ Tail(t) \in Seq(Makes) /\ Len(Tail(t)) = Len(s)
      /\ \A i \in 1 .. Len(Tail(t)) : Tail(t)[i] = t[i + 1]
  BY <1>1, <1>2, <1>3, HeadTailProperties
<1>6. ASSUME NEW i \in 1 .. Len(Tail(t))
      PROVE  Tail(t)[i] = s[i]
  <2>1. i + 1 \in 1 .. 1 + Len(s) /\ ~(i + 1 <= 1) /\ (i + 1) - 1 = i
    BY <1>1, <1>5
  <2> QED BY <1>2, <1>5, <2>1
<1>7. Tail(t) = s
  BY <1>5, <1>6, SeqEqual
<1> QED BY <1>3, <1>4, <1>7 DEF t

LEMMA ShownQueues ==
  ASSUME NEW k \in Controller
  PROVE  /\ k.out \in Shown /\ k.scan \in Seq(Shown) /\ k.scan \in Seq(KeyBytes)
         /\ Len(k.scan) \in Nat
<1>1. k.out \in Shown /\ k.scan \in Seq(KeyBytes) /\ KeyBytes \subseteq Shown
  BY ByteTypes DEF Controller, Shown
<1> QED BY <1>1, SeqMonotonic, LenProperties

LEMMA HeldIs ==
  ASSUME NEW k \in Controller
  PROVE  /\ Held(k) = One(k.out) \o Keys(k.scan)
         /\ Held(k) \in Seq(Makes) /\ Keys(k.scan) \in Seq(Makes)
         /\ Len(Held(k)) <= 1 + Len(k.scan)
<1>1. k.out \in Shown /\ k.scan \in Seq(Shown) /\ Len(k.scan) \in Nat
  BY ShownQueues
<1> DEFINE t == <<k.out>> \o k.scan
<1>2. t \in Seq(Shown) /\ Keys(t) = One(k.out) \o Keys(k.scan)
  BY <1>1, KeysCons
<1>3. Len(t) = 1 + Len(k.scan)
  <2>1. <<k.out>> \in Seq(Shown) /\ Len(<<k.out>>) = 1
    BY <1>1
  <2> QED BY <1>1, <2>1, ConcatProperties
<1> HIDE DEF t
<1>4. Keys(t) \in Seq(Makes) /\ Len(Keys(t)) <= 1 + Len(k.scan)
  BY <1>2, <1>3, KeysType
<1>5. Keys(k.scan) \in Seq(Makes)
  BY <1>1, KeysType
<1> QED BY <1>2, <1>4, <1>5 DEF Held, t

(* Without a key in the output buffer the keys are those of the queue; with *)
(* one it is the first.                                                     *)
LEMMA HeldSplit ==
  ASSUME NEW k \in Controller
  PROVE  /\ k.out \notin Makes => Held(k) = Keys(k.scan)
         /\ k.out \in Makes => /\ Held(k) # <<>> /\ Head(Held(k)) = k.out
                               /\ Tail(Held(k)) = Keys(k.scan)
<1>1. Held(k) = One(k.out) \o Keys(k.scan) /\ Keys(k.scan) \in Seq(Makes)
  BY HeldIs
<1>2. CASE k.out \notin Makes
  <2>1. Held(k) = <<>> \o Keys(k.scan)
    BY <1>1, <1>2 DEF One
  <2> QED BY <1>1, <1>2, <2>1, ConcatEmptySeq
<1>3. CASE k.out \in Makes
  <2>1. Held(k) = <<k.out>> \o Keys(k.scan)
    BY <1>1, <1>3 DEF One
  <2> QED BY <1>1, <1>3, <2>1, OneFirst
<1> QED BY <1>2, <1>3

LEMMA HeldKept ==
  ASSUME NEW k \in Controller, NEW e \in Controller, KeepsKeys(k, e)
  PROVE  Held(e) = Held(k)
<1>1. CASE e.out = k.out
  BY <1>1 DEF KeepsKeys, Held
<1>2. CASE e.out # k.out
  BY <1>2, HeldSplit DEF KeepsKeys
<1> QED BY <1>1, <1>2

(* The keys of a queue, taken apart at its first byte.                      *)
LEMMA KeysHeadTail ==
  ASSUME NEW s \in Seq(Shown), s # <<>>
  PROVE  /\ Head(s) \in Shown /\ Tail(s) \in Seq(Shown)
         /\ s = <<Head(s)>> \o Tail(s)
         /\ Keys(s) = One(Head(s)) \o Keys(Tail(s))
<1>1. Head(s) \in Shown /\ Tail(s) \in Seq(Shown)
  BY HeadTailProperties
<1>2. s = <<Head(s)>> \o Tail(s)
  <2> DEFINE h == <<Head(s)>>
             t == Tail(s)
  <2>1. /\ Len(s) \in Nat /\ Len(t) = Len(s) - 1 /\ Head(s) = s[1]
        /\ \A i \in 1 .. Len(t) : t[i] = s[i + 1]
    BY LenProperties, HeadTailProperties
  <2>2. h \in Seq(Shown) /\ Len(h) = 1 /\ h[1] = Head(s)
    BY <1>1
  <2> HIDE DEF h, t
  <2>3. /\ h \o t \in Seq(Shown) /\ Len(h \o t) = 1 + Len(t)
        /\ \A i \in 1 .. 1 + Len(t) :
             (h \o t)[i] = IF i <= 1 THEN h[i] ELSE t[i - 1]
    <3>1. t \in Seq(Shown)
      BY <1>1 DEF t
    <3>2. /\ h \o t \in Seq(Shown) /\ Len(h \o t) = Len(h) + Len(t)
          /\ \A i \in 1 .. Len(h) + Len(t) :
               (h \o t)[i] = IF i <= Len(h) THEN h[i] ELSE t[i - Len(h)]
      BY <2>2, <3>1, ConcatProperties
    <3> QED BY <2>2, <3>2
  <2>4. Len(h \o t) = Len(s)
    BY <2>1, <2>3
  <2>5. ASSUME NEW i \in 1 .. Len(s)
        PROVE  (h \o t)[i] = s[i]
    <3>1. CASE i = 1
      <4>1. i \in 1 .. 1 + Len(t) /\ i <= 1
        BY <2>1, <3>1
      <4> QED BY <2>1, <2>2, <2>3, <3>1, <4>1
    <3>2. CASE i # 1
      <4>1. i - 1 \in 1 .. Len(t) /\ i \in 1 .. 1 + Len(t) /\ ~(i <= 1)
        BY <2>1, <3>2
      <4>2. (i - 1) + 1 = i
        BY <2>1
      <4> QED BY <2>1, <2>3, <4>1, <4>2
    <3> QED BY <3>1, <3>2
  <2>6. h \o t = s
    BY <2>3, <2>4, <2>5, SeqEqual
  <2> QED BY <2>6 DEF h, t
<1> DEFINE h == Head(s)
           t == Tail(s)
<1> HIDE DEF h, t
<1>3. Keys(<<h>> \o t) = One(h) \o Keys(t)
  BY <1>1, KeysCons DEF h, t
<1> QED BY <1>1, <1>2, <1>3 DEF h, t

LEMMA FlushScanKeeps ==
  ASSUME NEW k \in Controller
  PROVE  Held(FlushScan(k)) = Held(k)
<1> DEFINE e == FlushScan(k)
<1>1. CASE e = k
  BY <1>1
<1>2. CASE e # k
  <2>1. /\ ~Full(k) /\ k.scan # <<>>
        /\ e.out = Head(k.scan) /\ e.scan = Tail(k.scan)
    BY <1>2, FlushScanWorks
  <2> HIDE DEF e
  <2>2. Held(e) = Keys(k.scan)
    BY <2>1, ShownQueues, KeysHeadTail DEF Held
  <2>3. Held(k) = Keys(k.scan)
    BY <2>1, ByteTypes, HeldSplit DEF Full
  <2> QED BY <2>2, <2>3 DEF e
<1> QED BY <1>1, <1>2

(* A read of port 60h takes a key, or a byte that is none.                  *)
LEMMA TakenHeld ==
  ASSUME NEW k, Well(k)
  PROVE  Held(TakeOutput(k)) = Keys(k.scan)
<1> DEFINE k0 == [k EXCEPT !.out = NoByte, !.fromAux = FALSE]
           k1 == FlushCtrl(k0)
           k2 == FlushResp(k1)
           k3 == FlushScan(k2)
           k4 == FlushAux(k3)
<1>1. k0 \in Controller /\ k0.out = NoByte /\ k0.scan = k.scan
  BY DEF Well, Controller
<1> HIDE DEF k0
<1>2. k1 \in Controller /\ Held(k1) = Held(k0)
  BY <1>1, FlushCtrlWorks, HeldKept DEF Flushed
<1> HIDE DEF k1
<1>3. k2 \in Controller /\ Held(k2) = Held(k1)
  BY <1>2, FlushRespWorks, HeldKept DEF Flushed
<1> HIDE DEF k2
<1>4. k3 \in Controller /\ Held(k3) = Held(k2)
  BY <1>3, FlushScanWorks, FlushScanKeeps DEF Flushed
<1> HIDE DEF k3
<1>5. Held(k4) = Held(k3)
  BY <1>4, FlushAuxWorks, HeldKept DEF Flushed
<1> HIDE DEF k4
<1>6. Held(k0) = Keys(k.scan)
  BY <1>1, ByteTypes, HeldSplit
<1>7. k4 = TakeOutput(k)
  BY DEF TakeOutput, k0, k1, k2, k3, k4
<1> QED BY <1>2, <1>3, <1>4, <1>5, <1>6, <1>7
----------------------------------------------------------------------------
(* The keys in the BIOS keyboard buffer.                                    *)

(* How many words lie from slot h to the free slot t, and where the i-th is. *)
Span(h, t) == IF t >= h THEN t - h ELSE RingSlots - (h - t)

At(h, i) == IF h + i - 1 <= RingSlots THEN h + i - 1 ELSE h + i - 1 - RingSlots

LEMMA Wrapped ==
  ASSUME NEW N \in Nat, N > 0, NEW a \in Nat, a < 2 * N
  PROVE  a % N = IF a < N THEN a ELSE a - N
<1>1. CASE a < N
  BY <1>1
<1>2. CASE ~(a < N)
  BY <1>2
<1> QED BY <1>1, <1>2

LEMMA Spans ==
  ASSUME NEW h \in 1 .. RingSlots, NEW t \in 1 .. RingSlots
  PROVE  /\ Span(h, t) \in 0 .. RingSlots - 1
         /\ At(h, Span(h, t) + 1) = t
         /\ \A i \in 1 .. Span(h, t) :
              At(h, i) \in 1 .. RingSlots /\ At(h, i) # t
         /\ Advance(t) # h => /\ Span(h, t) < RingSlots - 1
                              /\ Span(h, Advance(t)) = Span(h, t) + 1
         /\ h # t => /\ Span(h, t) > 0
                     /\ Span(Advance(h), t) = Span(h, t) - 1
         /\ \A i \in 1 .. RingSlots - 1 : At(Advance(h), i) = At(h, i + 1)
<1>1. RingSlots \in Nat /\ RingSlots >= 2
  BY KeyPathAssumption
<1>2. Span(h, t) \in 0 .. RingSlots - 1 /\ At(h, Span(h, t) + 1) = t
  BY <1>1 DEF Span, At
<1>3. \A i \in 1 .. Span(h, t) : At(h, i) \in 1 .. RingSlots /\ At(h, i) # t
  BY <1>1 DEF Span, At
<1>4. Advance(t) # h => /\ Span(h, t) < RingSlots - 1
                        /\ Span(h, Advance(t)) = Span(h, t) + 1
  BY <1>1 DEF Span, Advance
<1>5. h # t => Span(h, t) > 0 /\ Span(Advance(h), t) = Span(h, t) - 1
  BY <1>1 DEF Span, Advance
<1>6. \A i \in 1 .. RingSlots - 1 : At(Advance(h), i) = At(h, i + 1)
  BY <1>1 DEF At, Advance
<1> QED BY <1>2, <1>3, <1>4, <1>5, <1>6

LEMMA WordsShown == Word \subseteq Shown
BY ByteTypes DEF Word, Shown

(* Both ends of a buffer in use.                                            *)
Open(r) == r \in Ring /\ r.head \in 1 .. RingSlots /\ r.tail \in 1 .. RingSlots

LEMMA OpenWords ==
  ASSUME NEW r, Open(r)
  PROVE  /\ RingWords(r) \in Seq(Word)
         /\ Len(RingWords(r)) = Span(r.head, r.tail)
         /\ \A i \in 1 .. Span(r.head, r.tail) :
              RingWords(r)[i] = r.slots[At(r.head, i)]
<1> DEFINE w == RingWords(r)
           l == Span(r.head, r.tail)
<1>1. RingSlots \in Nat /\ RingSlots >= 2
  BY KeyPathAssumption
<1>2. r.head \in 1 .. RingSlots /\ r.tail \in 1 .. RingSlots
  BY DEF Open
<1>3. l \in 0 .. RingSlots - 1 /\ \A i \in 1 .. l : At(r.head, i) \in 1 .. RingSlots
  BY <1>2, Spans
<1>4. w = [i \in 1 .. l |-> r.slots[((r.head + i - 2) % RingSlots) + 1]]
  BY DEF RingWords, RingLen, Span
<1> HIDE DEF w, l
<1>5. ASSUME NEW i \in 1 .. l
      PROVE  w[i] = r.slots[At(r.head, i)] /\ w[i] \in Word
  <2> DEFINE a == r.head + i - 2
  <2>1. a \in Nat /\ a < 2 * RingSlots
    BY <1>1, <1>2, <1>3
  <2>2. a % RingSlots = IF a < RingSlots THEN a ELSE a - RingSlots
    BY <1>1, <2>1, Wrapped
  <2>3. (a % RingSlots) + 1 = At(r.head, i)
    BY <1>1, <1>2, <1>3, <2>2 DEF At
  <2>4. w[i] = r.slots[At(r.head, i)]
    BY <1>4, <2>3
  <2>5. r.slots[At(r.head, i)] \in Word
    BY <1>3 DEF Open, Ring
  <2> QED BY <2>4, <2>5
<1>6. w \in [1 .. l -> Word] /\ l \in Nat
  <2>1. w = [i \in 1 .. l |-> w[i]]
    BY <1>4
  <2>2. l \in Nat
    BY <1>1, <1>3
  <2> QED BY <1>5, <2>1, <2>2
<1>7. w \in Seq(Word) /\ Len(w) = l
  BY <1>6
<1> QED BY <1>5, <1>7 DEF w, l

(* A buffer nobody has used is empty.                                       *)
LEMMA BlankWords ==
  ASSUME NEW r, r.head = r.tail, r.head \in 0 .. RingSlots
  PROVE  RingWords(r) = <<>>
<1>1. RingLen(r) = 0
  BY KeyPathAssumption DEF RingLen
<1>2. 1 .. RingLen(r) = {}
  BY <1>1
<1> QED BY <1>2 DEF RingWords

LEMMA EnsuredWords ==
  ASSUME NEW r, RingOk(r)
  PROVE  Open(EnsureRing(r)) /\ RingWords(EnsureRing(r)) = RingWords(r)
<1>1. Open(EnsureRing(r))
  BY EnsureRingType DEF Open
<1>2. CASE r.head = 0
  <2>1. r.head = 0 /\ r.tail = 0 /\ r \in Ring
    BY <1>2 DEF RingOk
  <2>2. EnsureRing(r).head = 1 /\ EnsureRing(r).tail = 1
    BY <2>1 DEF EnsureRing, Ring
  <2>3. 1 \in 0 .. RingSlots /\ 0 \in 0 .. RingSlots
    BY KeyPathAssumption
  <2>4. RingWords(r) = <<>>
    BY <2>1, <2>3, BlankWords
  <2>5. RingWords(EnsureRing(r)) = <<>>
    BY <2>2, <2>3, BlankWords
  <2> QED BY <1>1, <2>4, <2>5
<1>3. CASE r.head # 0
  BY <1>1, <1>3 DEF EnsureRing
<1> QED BY <1>2, <1>3

LEMMA EnqueuedWords ==
  ASSUME NEW r, Open(r), NEW word \in Word, Advance(r.tail) # r.head
  PROVE  /\ RingWords(Enqueued(r, word)) = Append(RingWords(r), word)
         /\ Len(RingWords(r)) < RingSlots - 1
<1> DEFINE f == [r EXCEPT !.slots[r.tail] = word, !.tail = Advance(r.tail)]
           l == Span(r.head, r.tail)
           w == RingWords(r)
           v == RingWords(f)
<1>1. Enqueued(r, word) = f
  BY DEF Enqueued
<1>2. Advance(r.tail) \in 1 .. RingSlots
  BY AdvanceType DEF Open
<1>3. /\ f.head = r.head /\ f.tail = Advance(r.tail)
      /\ f.slots = [r.slots EXCEPT ![r.tail] = word]
  BY DEF Open, Ring
<1>4. Open(f)
  <2>1. f.tail \in 0 .. RingSlots
    BY <1>2, <1>3, KeyPathAssumption
  <2>2. f.slots \in [1 .. RingSlots -> Word]
    BY <1>3 DEF Open, Ring
  <2>3. f \in Ring
    BY <2>1, <2>2 DEF Open, Ring
  <2> QED BY <1>2, <1>3, <2>3 DEF Open
<1> HIDE DEF f
<1>5. /\ l \in 0 .. RingSlots - 1 /\ l < RingSlots - 1
      /\ Span(f.head, f.tail) = l + 1
      /\ At(r.head, l + 1) = r.tail
      /\ \A i \in 1 .. l : At(r.head, i) \in 1 .. RingSlots /\ At(r.head, i) # r.tail
  BY <1>3, Spans DEF Open
<1>6. w \in Seq(Word) /\ Len(w) = l /\ \A i \in 1 .. l : w[i] = r.slots[At(r.head, i)]
  BY OpenWords
<1>7. /\ v \in Seq(Word) /\ Len(v) = l + 1
      /\ \A i \in 1 .. l + 1 : v[i] = f.slots[At(r.head, i)]
  <2>1. /\ v \in Seq(Word) /\ Len(v) = Span(f.head, f.tail)
        /\ \A i \in 1 .. Span(f.head, f.tail) : v[i] = f.slots[At(f.head, i)]
    BY <1>4, OpenWords
  <2> HIDE DEF l, v
  <2> QED BY <1>3, <1>5, <2>1
<1> HIDE DEF l, w, v
<1>8. /\ Append(w, word) \in Seq(Word) /\ Len(Append(w, word)) = l + 1
      /\ Append(w, word)[l + 1] = word
      /\ \A i \in 1 .. l : Append(w, word)[i] = w[i]
  BY <1>6, AppendProperties
<1>9. r.slots \in [1 .. RingSlots -> Word] /\ r.tail \in 1 .. RingSlots
  BY DEF Open, Ring
<1>10. ASSUME NEW i \in 1 .. l + 1
       PROVE  v[i] = Append(w, word)[i]
  <2>1. CASE i = l + 1
    <3>1. v[i] = f.slots[r.tail]
      BY <1>5, <1>7, <2>1
    <3>2. f.slots[r.tail] = word
      BY <1>3, <1>9
    <3> QED BY <1>8, <2>1, <3>1, <3>2
  <2>2. CASE i # l + 1
    <3>1. i \in 1 .. l
      BY <1>5, <2>2
    <3>2. f.slots[At(r.head, i)] = r.slots[At(r.head, i)]
      BY <1>3, <1>5, <1>9, <3>1
    <3> QED BY <1>6, <1>7, <1>8, <3>1, <3>2
  <2> QED BY <2>1, <2>2
<1>11. v = Append(w, word)
  BY <1>7, <1>8, <1>10, SeqEqual
<1> QED BY <1>1, <1>5, <1>6, <1>11 DEF w, v

LEMMA DequeuedWords ==
  ASSUME NEW r, RingOk(r)
  PROVE  \/ RingWords(Dequeued(r)) = RingWords(r)
         \/ /\ RingWords(r) \in Seq(Word) /\ RingWords(r) # <<>>
            /\ RingWords(Dequeued(r)) = Tail(RingWords(r))
<1> DEFINE f == [r EXCEPT !.head = Advance(r.head)]
           l == Span(r.head, r.tail)
           w == RingWords(r)
           v == RingWords(f)
<1>1. CASE r.head = r.tail
  BY <1>1 DEF Dequeued
<1>2. CASE r.head # r.tail
  <2>1. Dequeued(r) = f
    BY <1>2 DEF Dequeued
  <2>2. Open(r)
    <3>1. r.head # 0 /\ r.tail # 0
      BY <1>2 DEF RingOk
    <3>2. r.head \in 0 .. RingSlots /\ r.tail \in 0 .. RingSlots /\ r \in Ring
      BY DEF RingOk, Ring
    <3> QED BY <3>1, <3>2, KeyPathAssumption DEF Open
  <2>3. Advance(r.head) \in 1 .. RingSlots
    BY <2>2, AdvanceType DEF Open
  <2>4. f.head = Advance(r.head) /\ f.tail = r.tail /\ f.slots = r.slots
    BY <2>2 DEF Open, Ring
  <2>5. Open(f)
    <3>1. f.head \in 0 .. RingSlots
      BY <2>3, <2>4, KeyPathAssumption
    <3>2. f \in Ring
      BY <2>2, <3>1, <2>4 DEF Open, Ring
    <3> QED BY <2>2, <2>3, <2>4, <3>2 DEF Open
  <2> HIDE DEF f
  <2>6. /\ l \in 1 .. RingSlots - 1 /\ Span(f.head, f.tail) = l - 1
        /\ \A i \in 1 .. RingSlots - 1 : At(f.head, i) = At(r.head, i + 1)
    BY <1>2, <2>2, <2>4, Spans DEF Open
  <2>7. w \in Seq(Word) /\ Len(w) = l /\ \A i \in 1 .. l : w[i] = r.slots[At(r.head, i)]
    BY <2>2, OpenWords
  <2>8. /\ v \in Seq(Word) /\ Len(v) = l - 1
        /\ \A i \in 1 .. l - 1 : v[i] = f.slots[At(f.head, i)]
    BY <2>5, <2>6, OpenWords
  <2> HIDE DEF l, w, v
  <2>9. w # <<>>
    BY <2>6, <2>7
  <2>10. /\ Tail(w) \in Seq(Word) /\ Len(Tail(w)) = l - 1
         /\ \A i \in 1 .. l - 1 : Tail(w)[i] = w[i + 1]
    BY <2>7, <2>9, HeadTailProperties
  <2>11. ASSUME NEW i \in 1 .. l - 1
         PROVE  v[i] = Tail(w)[i]
    <3>1. i + 1 \in 1 .. l /\ i \in 1 .. RingSlots - 1
      BY <2>6, KeyPathAssumption
    <3>2. v[i] = r.slots[At(r.head, i + 1)]
      BY <2>4, <2>6, <2>8, <3>1
    <3> QED BY <2>7, <2>10, <3>1, <3>2
  <2>12. v = Tail(w)
    BY <2>8, <2>10, <2>11, SeqEqual
  <2> QED BY <2>1, <2>7, <2>9, <2>12 DEF w, v
<1> QED BY <1>1, <1>2
----------------------------------------------------------------------------
(* Every step moves the keys as KeyStream lets it.                          *)

LEMMA TypedHeld ==
  ASSUME NEW k, Well(k), NEW b \in DeviceBytes
  PROVE  \/ Held(InjectScancode(k, b)) = Held(k)
         \/ \E key \in Makes :
              /\ Len(Held(k)) < ScanCap + 1
              /\ Held(InjectScancode(k, b)) = Append(Held(k), key)
<1> DEFINE seen == [k EXCEPT !.breakNext = k.config.translate /\ b = BreakPrefix]
           h == HostByte(k, b)
           e == InjectScancode(k, b)
           more == [seen EXCEPT !.scan = Append(seen.scan, h)]
<1>1. seen \in Controller /\ seen.out = k.out /\ seen.scan = k.scan
  BY DEF Well, Controller
<1>2. Held(seen) = Held(k) /\ (Full(seen) <=> Full(k))
  BY <1>1 DEF Held, Full
<1>3. CASE e = k \/ e = seen
  BY <1>2, <1>3
<1>4. CASE ~(e = k \/ e = seen)
  <2>1. h # NoByte /\ e = QueueScan(seen, h)
    BY <1>4 DEF InjectScancode
  <2>2. h \in KeyBytes
    BY <2>1 DEF HostByte, DeviceBytes, KeyBytes
  <2>3. h \in Shown /\ h \in Bytes
    BY <2>2, ByteTypes DEF Shown
  <2>4. /\ seen.out \in Shown /\ seen.scan \in Seq(Shown)
        /\ seen.scan \in Seq(KeyBytes) /\ Len(seen.scan) \in Nat
    BY <1>1, ShownQueues
  <2>5. /\ Held(seen) = One(seen.out) \o Keys(seen.scan)
        /\ Keys(seen.scan) \in Seq(Makes)
        /\ Held(seen) \in Seq(Makes) /\ Len(Held(seen)) <= 1 + Len(seen.scan)
    BY <1>1, HeldIs
  <2>6. Len(Held(seen)) \in Nat /\ ScanCap \in Nat
    BY <2>5, LenProperties, I8042Assumption
  <2> HIDE DEF h, seen, e
  <2>7. CASE ~Full(seen) /\ seen.scan = <<>>
    <3>1. e = PresentKbd(seen, h)
      BY <2>1, <2>7 DEF QueueScan
    <3>2. e \in Controller /\ e.out = h /\ e.scan = <<>>
      BY <1>1, <2>3, <2>7, <3>1, Presented
    <3>3. Held(e) = One(h) \o <<>>
      BY <3>2, HeldIs, KeysNone
    <3>4. Held(seen) = <<>>
      BY <1>1, <2>7, HeldSplit, KeysNone, ByteTypes DEF Full
    <3>5. CASE h \in Makes
      <4>1. Held(e) = <<h>> /\ Append(<<>>, h) = <<h>> /\ Len(<<>>) < ScanCap + 1
        BY <2>6, <3>3, <3>5 DEF One
      <4> QED BY <1>2, <3>4, <3>5, <4>1 DEF e
    <3>6. CASE h \notin Makes
      <4>1. Held(e) = <<>>
        BY <3>3, <3>6 DEF One
      <4> QED BY <1>2, <3>4, <4>1 DEF e
    <3> QED BY <3>5, <3>6
  <2>8. CASE ~(~Full(seen) /\ seen.scan = <<>>)
    <3>1. ~(Len(seen.scan) >= ScanCap) /\ e = FlushScan(more)
      BY <1>4, <2>1, <2>8 DEF QueueScan
    <3>2. Append(seen.scan, h) \in Seq(KeyBytes)
      BY <2>2, <2>4, AppendProperties
    <3>3. /\ more \in Controller /\ more.out = seen.out
          /\ more.scan = Append(seen.scan, h)
      BY <1>1, <3>2 DEF Controller
    <3> HIDE DEF more
    <3>4. Held(e) = Held(more)
      BY <3>1, <3>3, FlushScanKeeps
    <3>5. Held(more) = One(seen.out) \o Keys(Append(seen.scan, h))
      BY <3>3, HeldIs
    <3>6. Keys(Append(seen.scan, h)) = IF h \in Makes
                                       THEN Append(Keys(seen.scan), h)
                                       ELSE Keys(seen.scan)
      BY <2>3, <2>4, KeysAppend
    <3>7. Len(Held(seen)) < ScanCap + 1
      BY <2>4, <2>5, <2>6, <3>1
    <3>8. CASE h \in Makes
      <4>1. Held(e) = Append(Held(seen), h)
        BY <2>5, <3>4, <3>5, <3>6, <3>8, OneAppends
      <4> QED BY <1>2, <3>7, <3>8, <4>1 DEF e
    <3>9. CASE h \notin Makes
      BY <1>2, <2>5, <3>4, <3>5, <3>6, <3>9 DEF e
    <3> QED BY <3>8, <3>9
  <2> QED BY <2>7, <2>8
<1> QED BY <1>3, <1>4

(* The keys that a step of the specification may leave in the controller    *)
(* while the BIOS keyboard buffer stays.                                    *)
LEMMA HeldFlows ==
  ASSUME kbd \in Controller, ring' = ring,
         \/ Held(kbd') = Held(kbd) \/ Held(kbd') = Keys(kbd.scan)
         \/ Held(kbd') = <<>>
  PROVE  [Flow!Next]_(Flow!vars)
<1>1. CASE Held(kbd') = Held(kbd)
  BY <1>1 DEF Flow!vars
<1>2. CASE Held(kbd') = <<>>
  <2>1. Flow!Reset
    BY <1>2 DEF Flow!Reset
  <2> QED BY <2>1 DEF Flow!Next
<1>3. CASE Held(kbd') = Keys(kbd.scan) /\ kbd.out \in Makes
  <2>1. Flow!Leave
    BY <1>3, HeldSplit DEF Flow!Leave
  <2> QED BY <2>1 DEF Flow!Next
<1>4. CASE Held(kbd') = Keys(kbd.scan) /\ kbd.out \notin Makes
  BY <1>1, <1>4, HeldSplit
<1> QED BY <1>1, <1>2, <1>3, <1>4

LEMMA ResetHeld == Held(ResetController) = <<>>
<1>1. ResetController \in Controller
  BY ResetWell DEF Well
<1>2. ResetController.out = NoByte /\ ResetController.scan = <<>>
  BY DEF ResetController
<1> QED BY <1>1, <1>2, HeldSplit, KeysNone, ByteTypes

LEMMA RetireFlows ==
  ASSUME kbd \in Controller,
         NEW k, NEW d, NEW g, NEW resets, NEW arrived,
         Retire(k, d, g, resets, arrived),
         Held(k) = Held(kbd) \/ Held(k) = Keys(kbd.scan)
  PROVE  [Flow!Next]_(Flow!vars)
<1>1. kbd' = k \/ kbd' = ResetController
  BY RetireReads
<1>2. ring' = ring
  BY DEF Retire, MachineReset
<1> QED BY <1>1, <1>2, ResetHeld, HeldFlows

(* The host reads a key and buffers it, or has no room for it.              *)
LEMMA ServiceFlows ==
  ASSUME KInv, ServiceIrq1
  PROVE  [Flow!Next]_(Flow!vars)
<1> DEFINE r == EnsureRing(ring)
<1>1. kbd \in Controller /\ Held(kbd') = Keys(kbd.scan)
  BY TakenHeld DEF KInv, Well, ServiceIrq1
<1>2. ring' = IF kbd.out \in Word THEN Enqueued(r, kbd.out) ELSE ring
  BY DEF ServiceIrq1
<1>3. Open(r) /\ RingWords(r) = RingWords(ring)
  BY EnsuredWords DEF KInv, RingInv, RingOk
<1> HIDE DEF r
<1>4. CASE RingWords(ring') = RingWords(ring)
  <2>1. CASE kbd.out \in Makes
    <3>1. Flow!Leave
      BY <1>1, <1>4, <2>1, HeldSplit DEF Flow!Leave
    <3> QED BY <3>1 DEF Flow!Next
  <2>2. CASE kbd.out \notin Makes
    BY <1>1, <1>4, <2>2, HeldSplit DEF Flow!vars
  <2> QED BY <2>1, <2>2
<1>5. CASE RingWords(ring') # RingWords(ring)
  <2>1. kbd.out \in Word /\ Advance(r.tail) # r.head /\ ring' = Enqueued(r, kbd.out)
    BY <1>2, <1>3, <1>5 DEF Enqueued
  <2>2. /\ RingWords(ring') = Append(RingWords(ring), kbd.out)
        /\ Len(RingWords(ring)) < RingSlots - 1
    BY <1>3, <2>1, EnqueuedWords
  <2>3. RingWords(ring) \in Seq(Shown) /\ kbd.out \in Shown
    BY <1>3, <2>1, OpenWords, WordsShown, SeqMonotonic
  <2>4. Keys(RingWords(ring')) = IF kbd.out \in Makes
                                 THEN Append(Keys(RingWords(ring)), kbd.out)
                                 ELSE Keys(RingWords(ring))
    BY <2>2, <2>3, KeysAppend
  <2>5. CASE kbd.out \in Makes
    <3>1. Len(Keys(RingWords(ring))) < RingSlots - 1
      <4>1. /\ Len(Keys(RingWords(ring))) \in Nat /\ Len(RingWords(ring)) \in Nat
            /\ Len(Keys(RingWords(ring))) <= Len(RingWords(ring))
        BY <2>3, KeysType, LenProperties
      <4> QED BY <2>2, <4>1, KeyPathAssumption
    <3>2. Flow!Buffer
      BY <1>1, <2>4, <2>5, <3>1, HeldSplit DEF Flow!Buffer
    <3> QED BY <3>2 DEF Flow!Next
  <2>6. CASE kbd.out \notin Makes
    BY <1>1, <2>4, <2>6, HeldSplit DEF Flow!vars
  <2> QED BY <2>5, <2>6
<1> QED BY <1>4, <1>5

LEMMA RingInjectFlows ==
  ASSUME KInv, RingInject
  PROVE  [Flow!Next]_(Flow!vars)
<1> DEFINE r == EnsureRing(ring)
<1>1. kbd' = kbd /\ ring' = Enqueued(r, Stray)
  BY DEF RingInject
<1>2. Open(r) /\ RingWords(r) = RingWords(ring)
  BY EnsuredWords DEF KInv, RingInv, RingOk
<1> HIDE DEF r
<1>3. Keys(RingWords(ring')) = Keys(RingWords(ring))
  <2>1. CASE Advance(r.tail) = r.head
    BY <1>1, <1>2, <2>1 DEF Enqueued
  <2>2. CASE Advance(r.tail) # r.head
    <3>1. RingWords(ring') = Append(RingWords(ring), Stray)
      BY <1>1, <1>2, <2>2, EnqueuedWords DEF Word
    <3>2. RingWords(ring) \in Seq(Shown) /\ Stray \in Shown /\ Stray \notin Makes
      BY <1>2, OpenWords, WordsShown, SeqMonotonic, ByteTypes DEF Word
    <3> QED BY <3>1, <3>2, KeysAppend
  <2> QED BY <2>1, <2>2
<1> QED BY <1>1, <1>3 DEF Flow!vars

LEMMA GetKeyFlows ==
  ASSUME KInv, GetKey
  PROVE  [Flow!Next]_(Flow!vars)
<1>1. kbd' = kbd /\ (ring' = ring \/ ring' = Dequeued(ring))
  BY DEF GetKey
<1> DEFINE w == RingWords(ring)
           v == RingWords(ring')
<1>2. v = w \/ (w \in Seq(Word) /\ w # <<>> /\ v = Tail(w))
  BY <1>1, DequeuedWords DEF KInv, RingInv, RingOk
<1>3. CASE v = w
  BY <1>1, <1>3 DEF Flow!vars
<1>4. CASE w \in Seq(Word) /\ w # <<>> /\ v = Tail(w)
  <2> HIDE DEF w, v
  <2>1. w \in Seq(Shown)
    BY <1>4, WordsShown, SeqMonotonic
  <2>2. Keys(w) = One(Head(w)) \o Keys(v) /\ Keys(v) \in Seq(Makes)
    BY <1>4, <2>1, KeysHeadTail, KeysType
  <2>3. CASE Head(w) \in Makes
    <3>1. Keys(w) # <<>> /\ Keys(v) = Tail(Keys(w))
      BY <2>2, <2>3, OneFirst DEF One
    <3>2. Flow!Get
      BY <1>1, <3>1 DEF Flow!Get, w, v
    <3> QED BY <3>2 DEF Flow!Next
  <2>4. CASE Head(w) \notin Makes
    <3>1. Keys(v) = Keys(w)
      BY <2>2, <2>4, ConcatEmptySeq DEF One
    <3> QED BY <1>1, <3>1 DEF Flow!vars, w, v
  <2> QED BY <2>3, <2>4
<1> QED BY <1>2, <1>3, <1>4

LEMMA FlowStep ==
  ASSUME KInv, Next
  PROVE  [Flow!Next]_(Flow!vars)
<1>1. Well(kbd) /\ kbd \in Controller
  BY DEF KInv, Well
<1>2. ASSUME NEW k, Well(k), KeepsKeys(kbd, k) PROVE Held(k) = Held(kbd)
  BY <1>1, <1>2, HeldKept DEF Well
<1>3. ASSUME NEW k, Held(k) = Held(kbd) \/ Held(k) = Keys(kbd.scan),
             WriteController(k)
      PROVE  [Flow!Next]_(Flow!vars)
  BY <1>1, <1>3, RetireFlows DEF WriteController
<1>4. CASE Compute \/ WriteCf9 \/ EndOfInterrupt
  BY <1>1, <1>4, RetireFlows DEF Compute, WriteCf9, EndOfInterrupt
<1>5. CASE ReadData
  BY <1>1, <1>5, TakenHeld, RetireFlows DEF ReadData
<1>6. CASE WriteCommand
  <2>1. PICK c \in Commands : WriteController(Command(kbd, c))
    BY <1>6 DEF WriteCommand
  <2>2. CASE c = "readNow"
    <3> DEFINE k == PushOutput(kbd, Stray)
    <3>1. k \in Controller /\ k.out = Stray /\ k.scan = kbd.scan
      BY <1>1, Pushed, ByteTypes
    <3> HIDE DEF k
    <3>2. Held(k) = Keys(kbd.scan)
      BY <3>1, HeldSplit, ByteTypes
    <3>3. WriteController(k)
      BY <2>1, <2>2 DEF Command, k
    <3> QED BY <1>3, <3>2, <3>3
  <2>3. CASE c # "readNow"
    <3>1. Well(Command(kbd, c)) /\ KeepsKeys(kbd, Command(kbd, c))
      BY <1>1, <2>3, CommandMoves
    <3> QED BY <1>2, <1>3, <2>1, <3>1
  <2> QED BY <2>2, <2>3
<1>7. CASE WriteData
  BY <1>1, <1>2, <1>3, <1>7, WriteDataStores
<1>8. CASE WritePort92
  <2>1. PICK a20 \in BOOLEAN, resets \in BOOLEAN :
          Retire(FastGate(kbd, a20), Polled, [port92 |-> a20, mem |-> a20],
                 resets, Kept)
    BY <1>8 DEF WritePort92
  <2>2. Well(FastGate(kbd, a20)) /\ KeepsKeys(kbd, FastGate(kbd, a20))
    BY <1>1, GateStoresWell
  <2> QED BY <1>1, <1>2, <2>1, <2>2, RetireFlows
<1>9. CASE InjectKey
  <2>1. PICK b \in DeviceBytes : kbd' = InjectScancode(kbd, b) /\ ring' = ring
    BY <1>9 DEF InjectKey, Device, DeviceBytes, KeyBytes
  <2>2. CASE Held(kbd') = Held(kbd)
    BY <1>1, <2>1, <2>2, HeldFlows
  <2>3. CASE Held(kbd') # Held(kbd)
    <3>1. PICK key \in Makes : /\ Len(Held(kbd)) < ScanCap + 1
                               /\ Held(kbd') = Append(Held(kbd), key)
      BY <1>1, <2>1, <2>3, TypedHeld
    <3>2. Flow!Type(key)
      BY <2>1, <3>1 DEF Flow!Type
    <3> QED BY <3>2 DEF Flow!Next
  <2> QED BY <2>2, <2>3
<1>10. CASE MoveMouse
  <2>1. kbd' = InjectMousePacket(kbd) /\ ring' = ring
    BY <1>10 DEF MoveMouse, Device
  <2>2. Well(kbd') /\ KeepsKeys(kbd, kbd')
    BY <1>1, <2>1, PacketMoves DEF Moves
  <2> QED BY <1>1, <1>2, <2>1, <2>2, HeldFlows
<1>11. CASE ForceMouseByte \/ ForceKbdByte
  <2>1. /\ kbd' = InjectAuxByte(kbd) \/ kbd' = PresentKbd(kbd, Stray)
        /\ ring' = ring
    BY <1>11 DEF ForceMouseByte, ForceKbdByte, Device
  <2>2. CASE kbd' = kbd
    BY <1>1, <2>1, <2>2, HeldFlows
  <2>3. CASE kbd' # kbd
    <3>1. Well(kbd')
      BY <1>1, <2>1, AuxByteWell, PushWell, ByteTypes
    <3>2. kbd'.out \in {Mouse, Stray} /\ kbd'.scan = kbd.scan
      <4>1. CASE kbd' = PresentKbd(kbd, Stray)
        BY <1>1, <4>1, Presented, ByteTypes
      <4>2. CASE kbd' = InjectAuxByte(kbd)
        BY <1>1, <2>3, <4>2 DEF InjectAuxByte, Controller
      <4> QED BY <2>1, <4>1, <4>2
    <3>3. Held(kbd') = Keys(kbd.scan)
      BY <3>1, <3>2, HeldSplit, ByteTypes DEF Well
    <3> QED BY <1>1, <2>1, <3>3, HeldFlows
  <2> QED BY <2>2, <2>3
<1>12. CASE ServiceIrq1
  BY <1>12, ServiceFlows
<1>13. CASE RingInject
  BY <1>13, RingInjectFlows
<1>14. CASE PushKey
  BY <1>1, <1>14, HeldFlows DEF PushKey
<1>15. CASE GetKey
  BY <1>15, GetKeyFlows
<1>16. CASE MachineReset
  BY <1>1, <1>16, ResetHeld, HeldFlows DEF MachineReset
<1> QED BY <1>4, <1>5, <1>6, <1>7, <1>8, <1>9, <1>10, <1>11, <1>12, <1>13,
           <1>14, <1>15, <1>16 DEF Next

(* Keys leave in the order they were typed, from inject_scancode through    *)
(* the controller's queues and the BIOS keyboard buffer to INT 16h, for     *)
(* every limit of the two queues: none is doubled, overtaken or made up.    *)
THEOREM KeysInOrder == Spec => KeysFlow
<1>1. Init => Flow!Init
  <2> SUFFICES ASSUME Init
               PROVE  Flow!Init
    OBVIOUS
  <2>1. Held(kbd) = <<>>
    BY ResetHeld DEF Init
  <2>2. RingWords(ring) = <<>>
    <3>1. ring.head = 0 /\ ring.tail = 0 /\ 0 \in 0 .. RingSlots
      BY KeyPathAssumption DEF Init, BlankRing
    <3> QED BY <3>1, BlankWords
  <2> QED BY <2>1, <2>2, KeysNone DEF Flow!Init
<1>2. KInv /\ [Next]_vars => [Flow!Next]_(Flow!vars)
  <2>1. ASSUME UNCHANGED vars
        PROVE  UNCHANGED Flow!vars
    BY <2>1 DEF vars, Flow!vars
  <2> QED BY <2>1, FlowStep
<1> QED BY <1>1, <1>2, Invariant, PTL DEF Spec, KeysFlow, Flow!Spec
=============================================================================
