-------------------------- MODULE TuyaSessionProofs --------------------------
(***************************************************************************)
(* Proofs about TuyaSession, for every set of nonces, every bound on the   *)
(* frames in flight, split or whole frames, clean or unnoticed drops.      *)
(***************************************************************************)
EXTENDS TuyaSession, SequenceTheorems, TLAPS

USE NonceAssumption, ModeAssumption, QueueAssumption

-----------------------------------------------------------------------------
(* The inductive invariant *)

(* The session's fields are about the connection the streams belong to.    *)
(* It ends when the socket is seen to be closed; only a successful Dial    *)
(* begins the next.                                                        *)
Attached == sock \/ pc \in {"receive", "handle"}

Greets(f) == f.cmd = Greeting /\ f.part # "tail"
Greeted == pc = "handle" /\ Greets(inFrame)

(* The bulb's greeting is on its way, or read and not yet answered. *)
Waiting ==
  ~linked /\ hmacKey = LocalKey /\ toDev = <<>> /\ dev.phase # "linked"

(* Nothing has happened on a connection when the hello is about to go out. *)
BeforeHello ==
  pc = "hello" /\ sock =>
    /\ toDev = <<>> /\ toCtl = <<>>
    /\ dev.phase = "idle" /\ ~linked /\ hmacKey = LocalKey

(* A hello is all there is in the streams, a greeting answers it and is    *)
(* the only one: of the handshake's frames one is in flight at a time.     *)
OneHello ==
  Attached => \A i \in 1..Len(toDev) : toDev[i].cmd = Hello =>
    /\ Len(toDev) = 1
    /\ ~linked /\ hmacKey = LocalKey /\ dev.phase # "linked"
    /\ \A j \in 1..Len(toCtl) : ~Greets(toCtl[j])
    /\ ~Greeted

OneGreeting ==
  Attached =>
    /\ \A i \in 1..Len(toCtl) : Greets(toCtl[i]) =>
         /\ Waiting /\ ~Greeted
         /\ \A j \in 1..Len(toCtl) : Greets(toCtl[j]) => j = i
    /\ Greeted => Waiting

(* What follows the greeting is for a linked session and its key. *)
AfterGreeting ==
  Attached =>
    /\ dev.phase = "linked" => linked
    /\ \A i \in 1..Len(toDev) : toDev[i].cmd = Finish => linked
    /\ \A i \in 1..Len(toCtl) :
         toCtl[i].cmd = Report => linked /\ toCtl[i].key = hmacKey
    /\ pc = "handle" /\ inFrame.cmd = Report => linked /\ inFrame.key = hmacKey

(* The key of a linked session is the one the bulb has, or will have when  *)
(* the finish reaches it.                                                  *)
LinkedKey ==
  linked =>
    /\ hmacKey.kind = "session"
    /\ dev.phase = "linked" => hmacKey = SessionKey(dev.nonce)
    /\ \A i \in 1..Len(toDev) :
         toDev[i].cmd = Finish => hmacKey = SessionKey(toDev[i].nonce)

Closed == pc \in {"wifi", "session"} => ~sock

(* The next number is above all that were used on an open connection. *)
NextSeq ==
  sock => /\ dev.seq < seqNo
          /\ \A i \in 1..Len(toDev) : toDev[i].seq < seqNo

HandshakeInv ==
  /\ Closed /\ BeforeHello /\ OneHello /\ OneGreeting /\ AfterGreeting
  /\ LinkedKey /\ FrameKeys

SeqInv == Closed /\ NextSeq /\ SequenceOrder
-----------------------------------------------------------------------------
(* What a write does to the stream to the bulb *)
LEMMA WriteEffect ==
  ASSUME TypeOK, NEW f \in OutFrame, Write(f)
  PROVE  /\ toDev' \in Seq(OutFrame)
         /\ Len(toDev') >= Len(toDev)
         /\ \A i \in 1..Len(toDev) : toDev'[i] = toDev[i]
         /\ \A i \in 1..Len(toDev') :
              i > Len(toDev) => /\ i = Len(toDev) + 1 /\ toDev'[i] = f
                                /\ sock /\ wifi /\ dev.conn
  BY DEF TypeOK, Write

(* What the bulb taking a frame does to it *)
LEMMA TakeEffect ==
  ASSUME TypeOK, toDev # <<>>, toDev' = Tail(toDev)
  PROVE  /\ toDev' \in Seq(OutFrame)
         /\ Head(toDev) = toDev[1] /\ 1 \in 1..Len(toDev)
         /\ Head(toDev) \in OutFrame
         /\ Len(toDev') = Len(toDev) - 1
         /\ \A i \in 1..Len(toDev') : /\ toDev'[i] = toDev[i + 1]
                                      /\ i + 1 \in 1..Len(toDev)
  BY DEF TypeOK

(* A frame of the bulb, whole or in parts, goes to the end of its stream.  *)
LEMMA DeliverEffect ==
  ASSUME TypeOK, NEW f \in InFrame, Deliver(f)
  PROVE  /\ toCtl' \in Seq(InFrame)
         /\ Len(toCtl') > Len(toCtl)
         /\ \A i \in 1..Len(toCtl) : toCtl'[i] = toCtl[i]
         /\ \A i \in 1..Len(toCtl') :
              i > Len(toCtl) => /\ toCtl'[i].cmd = f.cmd
                                /\ toCtl'[i].key = f.key
                                /\ toCtl'[i].nonce = f.nonce
                                /\ i # Len(toCtl) + 1 => toCtl'[i].part = "tail"
  <1> DEFINE h == [f EXCEPT !.part = "head"]
             t == [f EXCEPT !.part = "tail"]
  <1>0. toCtl \in Seq(InFrame)
    BY DEF TypeOK
  <1>1. CASE toCtl' = Append(toCtl, f)
    BY <1>0, <1>1
  <1>2. CASE toCtl' = toCtl \o <<h, t>>
    <2>1. /\ h \in InFrame /\ t \in InFrame
          /\ h.cmd = f.cmd /\ t.cmd = f.cmd /\ h.key = f.key /\ t.key = f.key
          /\ h.nonce = f.nonce /\ t.nonce = f.nonce
          /\ t.part = "tail"
      BY DEF InFrame, Part
    <2> HIDE DEF h, t
    <2>2. toCtl' = Append(Append(toCtl, h), t)
      BY <1>0, <1>2, <2>1
    <2> QED
      BY <1>0, <2>1, <2>2
  <1> QED
    BY <1>1, <1>2 DEF Deliver

(* A read takes a prefix of the stream and hands on its first frame. *)
LEMMA ReceiveEffect ==
  ASSUME TypeOK, Receive
  PROVE  /\ toCtl # <<>> /\ toCtl[1] \in InFrame
         /\ inFrame' \in InFrame
         /\ inFrame'.cmd = toCtl[1].cmd /\ inFrame'.key = toCtl[1].key
         /\ inFrame'.nonce = toCtl[1].nonce
         /\ inFrame'.part = "tail" <=> toCtl[1].part = "tail"
         /\ toCtl' \in Seq(InFrame)
         /\ \A i \in 1..Len(toCtl') : \E j \in 2..Len(toCtl) :
              j = i + Len(toCtl) - Len(toCtl') /\ toCtl'[i] = toCtl[j]
  <1>0. toCtl \in Seq(InFrame)
    BY DEF TypeOK
  <1>1. PICK k \in 1..Len(toCtl) :
               /\ inFrame' = FirstFrame(k)
               /\ toCtl' = SubSeq(toCtl, k + 1, Len(toCtl))
    BY DEF Receive
  <1>2. toCtl # <<>> /\ toCtl[1] \in InFrame /\ Len(toCtl) \in Nat
    BY <1>0, <1>1
  <1>3. /\ inFrame' \in InFrame
        /\ inFrame'.cmd = toCtl[1].cmd /\ inFrame'.key = toCtl[1].key
        /\ inFrame'.nonce = toCtl[1].nonce
        /\ inFrame'.part = "tail" <=> toCtl[1].part = "tail"
    BY <1>1, <1>2 DEF FirstFrame, InFrame, Part
  <1>4. /\ toCtl' \in Seq(InFrame)
        /\ Len(toCtl') = Len(toCtl) - k
        /\ \A i \in 1..Len(toCtl') : toCtl'[i] = toCtl[i + k]
    BY <1>0, <1>1, <1>2
  <1> QED
    BY <1>1, <1>2, <1>3, <1>4
-----------------------------------------------------------------------------
LEMMA KeyTypes ==
  /\ ZeroKey \in Keys /\ LocalKey \in Keys
  /\ \A n \in AnyNonce : SessionKey(n) \in Keys
  BY DEF ZeroKey, LocalKey, SessionKey, Key, Keys, AnyNonce

LEMMA OutMessageType ==
  ASSUME TypeOK, NEW cmd \in {Hello, Finish, Control}, NEW n \in AnyNonce
  PROVE  /\ OutMessage(cmd, n) \in OutFrame
         /\ OutMessage(cmd, n).cmd = cmd /\ OutMessage(cmd, n).nonce = n
         /\ OutMessage(cmd, n).key = hmacKey
         /\ OutMessage(cmd, n).seq = seqNo
  BY DEF TypeOK, OutMessage, OutFrame

LEMMA InMessageType ==
  ASSUME NEW cmd \in {Greeting, Report}, NEW k \in Keys, NEW n \in AnyNonce,
         NEW l \in Status
  PROVE  InMessage(cmd, k, n, l) \in InFrame
  BY DEF InMessage, InFrame, Part

LEMMA DecodedTypes ==
  ASSUME NEW f \in InFrame, NEW k \in Keys
  PROVE  DecodedNonce(f, k) \in AnyNonce /\ DecodedStatus(f, k) \in Status
  BY DEF DecodedNonce, DecodedStatus, InFrame, AnyNonce, Status

LEMMA InFrameHandled ==
  ASSUME TypeOK, inFrame.cmd \in {Greeting, Report}
  PROVE  inFrame \in InFrame
  BY DEF TypeOK, NoFrame, Greeting, Report

(* The variables keep their types. *)
LEMMA TypeStep ==
  ASSUME TypeOK, [Next]_vars
  PROVE  TypeOK'
  <1> USE KeyTypes
  <1>1. CASE ConnectWifi
    BY <1>1, ZenonT(30) DEF ConnectWifi, TypeOK, devVars
  <1>2. CASE NewSession
    <2>1. inFrame' \in InFrame \union {NoFrame} /\ current' \in Status
      BY <1>2 DEF NewSession, Status
    <2>2. linked' = FALSE /\ seqNo' = 1 /\ hmacKey' = ZeroKey
      BY <1>2 DEF NewSession
    <2>3. pc' \in {"wifi", "session", "loop", "check", "connect", "hello",
                  "signal", "receive", "handle", "dps"}
      BY <1>2 DEF NewSession
    <2>4. /\ UNCHANGED <<once, wifi, sock, devUp, dev, light, applied>>
          /\ UNCHANGED <<toDev, toCtl>>
      BY <1>2 DEF NewSession, devVars, netVars
    <2>5. hmacKey' \in Keys
      BY <2>2
    <2>6. seqNo' \in Nat \ {0}
      BY <2>2
    <2>7. linked' \in BOOLEAN
      BY <2>2
    <2> QED
      BY <2>1, <2>3, <2>4, <2>5, <2>6, <2>7 DEF TypeOK
  <1>3. CASE StayInSession
    BY <1>3 DEF StayInSession, TypeOK, devVars, netVars
  <1>4. CASE LeaveSession
    BY <1>4 DEF LeaveSession, TypeOK, devVars
  <1>5. CASE CheckSocket
    BY <1>5 DEF CheckSocket, TypeOK, devVars, netVars
  <1>6. CASE ConnectDevice
    <2>1. toDev' \in Seq(OutFrame) /\ toCtl' \in Seq(InFrame)
      BY <1>6, EmptySeq DEF ConnectDevice, Dial, TypeOK
    <2>2. dev' \in [conn : BOOLEAN, phase : {"idle", "greeted", "linked"},
                    nonce : Nonces \union {NoNonce}, seq : Nat]
      <3>1. Fresh \in [conn : BOOLEAN, phase : {"idle", "greeted", "linked"},
                       nonce : Nonces \union {NoNonce}, seq : Nat]
        BY DEF Fresh
      <3>2. dev' \in {dev, Fresh}
        BY <1>6 DEF ConnectDevice, Dial
      <3> QED
        BY <3>1, <3>2 DEF TypeOK
    <2>3. sock' \in BOOLEAN /\ linked' \in BOOLEAN
      BY <1>6 DEF ConnectDevice, Dial
    <2>4. seqNo' \in Nat \ {0} /\ hmacKey' \in Keys
      BY <1>6 DEF ConnectDevice
    <2> QED
      BY <1>6, <2>1, <2>2, <2>3, <2>4 DEF ConnectDevice, TypeOK
  <1>7. CASE SendLocalNonce
    <2>1. OutMessage(Hello, NoNonce) \in OutFrame
      BY OutMessageType DEF AnyNonce
    <2>2. toDev' \in Seq(OutFrame)
      BY <1>7, <2>1, WriteEffect DEF SendLocalNonce, TypeOK
    <2> QED
      BY <1>7, <2>2 DEF SendLocalNonce, TypeOK, devVars, netVars
  <1>8. CASE CheckSignal
    BY <1>8 DEF CheckSignal, TypeOK, devVars, netVars
  <1>9. CASE Receive
    BY <1>9, ReceiveEffect DEF Receive, TypeOK, devVars, netVars
  <1>10. CASE ReceiveNothing
    BY <1>10 DEF ReceiveNothing, TypeOK, devVars, netVars
  <1>11. CASE HandleGreeting
    <2> DEFINE n == DecodedNonce(inFrame, hmacKey)
    <2>1. n \in AnyNonce
      BY <1>11, InFrameHandled, DecodedTypes DEF HandleGreeting, TypeOK
    <2>2. Write(OutMessage(Finish, n)) /\ hmacKey' = SessionKey(n)
      BY <1>11 DEF HandleGreeting
    <2> HIDE DEF n
    <2>3. toDev' \in Seq(OutFrame)
      BY <2>1, <2>2, OutMessageType, WriteEffect
    <2> QED
      BY <1>11, <2>1, <2>2, <2>3
         DEF HandleGreeting, HandleDone, TypeOK, devVars, netVars
  <1>12. CASE HandleReport
    <2>1. current' \in Status
      BY <1>12, InFrameHandled, DecodedTypes DEF HandleReport, TypeOK
    <2> QED
      BY <1>12, <2>1 DEF HandleReport, HandleDone, TypeOK, devVars, netVars
  <1>13. CASE HandleUnknown
    BY <1>13 DEF HandleUnknown, HandleDone, TypeOK, devVars, netVars
  <1>14. CASE SetDPS
    <2>1. OutMessage(Control, NoNonce) \in OutFrame
      BY OutMessageType DEF AnyNonce
    <2>2. toDev' \in Seq(OutFrame)
      BY <1>14, <2>1, WriteEffect DEF SetDPS, TypeOK
    <2> QED
      BY <1>14, <2>2 DEF SetDPS, TypeOK, devVars, netVars
  <1>15. CASE SkipDPS
    BY <1>15 DEF SkipDPS, TypeOK, devVars, netVars
  <1>16. CASE DevGreets
    <2>1. PICK n \in Nonces :
            /\ dev' = [dev EXCEPT !.phase = "greeted", !.nonce = n,
                                  !.seq = Head(toDev).seq]
            /\ Deliver(InMessage(Greeting, LocalKey, n, "blank"))
      BY <1>16 DEF DevGreets
    <2>2. toCtl' \in Seq(InFrame)
      BY <2>1, InMessageType, DeliverEffect DEF AnyNonce, Status
    <2>3. toDev' \in Seq(OutFrame) /\ Head(toDev).seq \in Nat
      BY <1>16, TakeEffect DEF DevGreets, DevTakes, OutFrame
    <2>4. dev' \in [conn : BOOLEAN, phase : {"idle", "greeted", "linked"},
                    nonce : Nonces \union {NoNonce}, seq : Nat]
      BY <2>1, <2>3 DEF TypeOK
    <2> QED
      BY <1>16, <2>2, <2>3, <2>4
         DEF DevGreets, DevTakes, TypeOK, ctlVars, netVars
  <1>17. CASE DevLinks
    <2>1. toDev' \in Seq(OutFrame) /\ Head(toDev).seq \in Nat
      BY <1>17, TakeEffect DEF DevLinks, DevTakes, OutFrame
    <2> QED
      BY <1>17, <2>1 DEF DevLinks, DevTakes, TypeOK, ctlVars, netVars
  <1>18. CASE DevObeys
    <2>1. toCtl' \in Seq(InFrame)
      BY <1>18, InMessageType, DeliverEffect
         DEF DevObeys, DevReports, TypeOK, AnyNonce, Status, Light
    <2>2. toDev' \in Seq(OutFrame) /\ Head(toDev).seq \in Nat
      BY <1>18, TakeEffect DEF DevObeys, DevTakes, OutFrame
    <2>3. dev' \in [conn : BOOLEAN, phase : {"idle", "greeted", "linked"},
                    nonce : Nonces \union {NoNonce}, seq : Nat]
      BY <1>18, <2>2 DEF DevObeys, TypeOK
    <2>4. light' \in Light /\ applied' \in Nat
      BY <1>18 DEF DevObeys, TypeOK, Light
    <2> QED
      BY <1>18, <2>1, <2>2, <2>3, <2>4
         DEF DevObeys, DevTakes, TypeOK, ctlVars, netVars
  <1>19. CASE DevIgnores
    <2>1. toDev' \in Seq(OutFrame) /\ Head(toDev).seq \in Nat
      BY <1>19, TakeEffect DEF DevIgnores, DevTakes, OutFrame
    <2> QED
      BY <1>19, <2>1 DEF DevIgnores, DevTakes, TypeOK, ctlVars, netVars
  <1>20. CASE DevSwitched
    <2>1. PICK l \in Light : light' = l /\ DevReports(l)
      BY <1>20 DEF DevSwitched
    <2>2. toCtl' \in Seq(InFrame)
      BY <2>1, InMessageType, DeliverEffect
         DEF DevReports, TypeOK, AnyNonce, Status
    <2> QED
      BY <1>20, <2>1, <2>2 DEF DevSwitched, TypeOK, ctlVars, netVars
  <1>21. CASE WifiDown
    <2>1. sock' \in BOOLEAN
      BY <1>21 DEF WifiDown, LosePath, TypeOK
    <2>2. wifi' = FALSE /\ UNCHANGED <<ctlVars, devVars, toDev, toCtl>>
      BY <1>21 DEF WifiDown
    <2> QED
      BY <2>1, <2>2, ZenonT(30) DEF TypeOK, ctlVars, devVars
  <1>22. CASE WifiUp
    BY <1>22 DEF WifiUp, TypeOK, ctlVars, devVars
  <1>23. CASE DevDown
    <2>1. toDev' \in Seq(OutFrame) /\ toCtl' \in Seq(InFrame)
      BY <1>23, EmptySeq DEF DevDown, TypeOK
    <2>2. dev' \in [conn : BOOLEAN, phase : {"idle", "greeted", "linked"},
                    nonce : Nonces \union {NoNonce}, seq : Nat]
      BY <1>23 DEF DevDown, Gone, Fresh
    <2>3. sock' \in BOOLEAN
      BY <1>23 DEF DevDown, LosePath, TypeOK
    <2> QED
      BY <1>23, <2>1, <2>2, <2>3 DEF DevDown, TypeOK, ctlVars
  <1>24. CASE DevBack
    BY <1>24 DEF DevBack, TypeOK, ctlVars, netVars
  <1>25. CASE SockDown
    <2>1. sock' \in BOOLEAN
      BY <1>25 DEF SockDown
    <2>2. UNCHANGED <<ctlVars, wifi, devVars, toDev, toCtl>>
      BY <1>25 DEF SockDown
    <2> QED
      BY <2>1, <2>2 DEF TypeOK, ctlVars, devVars
  <1>26. CASE UNCHANGED vars
    BY <1>26 DEF vars, ctlVars, netVars, devVars, TypeOK
  <1> QED
    BY <1>1, <1>2, <1>3, <1>4, <1>5, <1>6, <1>7, <1>8, <1>9, <1>10, <1>11,
       <1>12, <1>13, <1>14, <1>15, <1>16, <1>17, <1>18, <1>19, <1>20, <1>21,
       <1>22, <1>23, <1>24, <1>25, <1>26
       DEF Next, LoopTask, Bulb, Environment

(* Every reachable state is well typed. *)
THEOREM TypeCorrect == Spec => []TypeOK
  <1>1. Init => TypeOK
    <2> SUFFICES ASSUME Init PROVE TypeOK
      OBVIOUS
    <2>1. toDev \in Seq(OutFrame) /\ toCtl \in Seq(InFrame)
      BY EmptySeq DEF Init
    <2>2. dev \in [conn : BOOLEAN, phase : {"idle", "greeted", "linked"},
                   nonce : Nonces \union {NoNonce}, seq : Nat]
      BY DEF Init, Gone, Fresh
    <2>3. current \in Status /\ light \in Light /\ inFrame = NoFrame
      BY DEF Init, Status, Light
    <2>4. /\ wifi \in BOOLEAN /\ sock \in BOOLEAN /\ once \in BOOLEAN
          /\ linked \in BOOLEAN /\ devUp \in BOOLEAN
      BY DEF Init
    <2>5. /\ pc \in {"wifi", "session", "loop", "check", "connect", "hello",
                    "signal", "receive", "handle", "dps"}
          /\ seqNo \in Nat \ {0} /\ applied \in Nat /\ hmacKey \in Keys
      BY KeyTypes DEF Init
    <2> QED
      BY <2>1, <2>2, <2>3, <2>4, <2>5 DEF TypeOK
  <1>2. TypeOK /\ [Next]_vars => TypeOK'
    BY TypeStep
  <1> QED
    BY <1>1, <1>2, PTL DEF Spec
-----------------------------------------------------------------------------
USE DEF Hello, Greeting, Finish, Report, Control

(* A step that leaves the streams, both ends and the key alone, opens      *)
(* nothing and hands no frame on, keeps the handshake where it is.         *)
LEMMA QuietStep ==
  ASSUME HandshakeInv,
         UNCHANGED <<toDev, toCtl, dev, linked, hmacKey>>,
         Attached' => Attached,
         pc' = "handle" => pc = "handle" /\ inFrame' = inFrame,
         pc' = "hello" => pc = "hello" /\ (sock' => sock),
         Closed'
  PROVE  HandshakeInv'
  <1>1. Greeted' => Greeted
    BY DEF Greeted, Greets
  <1>2. BeforeHello'
    BY DEF HandshakeInv, BeforeHello
  <1>3. OneHello' /\ OneGreeting'
    BY <1>1 DEF HandshakeInv, OneHello, OneGreeting, Waiting, Greets
  <1>4. AfterGreeting'
    BY DEF HandshakeInv, AfterGreeting
  <1>5. LinkedKey' /\ FrameKeys'
    BY DEF HandshakeInv, LinkedKey, FrameKeys, SessionKey, LocalKey, Key
  <1> QED
    BY <1>2, <1>3, <1>4, <1>5 DEF HandshakeInv

LEMMA ControlSteps ==
  ASSUME TypeOK, HandshakeInv,
         \/ ConnectWifi \/ StayInSession \/ LeaveSession \/ CheckSocket
         \/ CheckSignal \/ ReceiveNothing \/ HandleReport \/ HandleUnknown
         \/ SkipDPS \/ WifiDown \/ WifiUp \/ DevBack \/ SockDown
  PROVE  HandshakeInv'
  <1> USE DEF Attached, Closed, HandshakeInv
  <1>1. CASE ConnectWifi
    BY <1>1, QuietStep DEF ConnectWifi, devVars
  <1>2. CASE StayInSession
    BY <1>2, QuietStep DEF StayInSession, devVars, netVars
  <1>3. CASE LeaveSession
    BY <1>3, QuietStep DEF LeaveSession, devVars
  <1>4. CASE CheckSocket
    BY <1>4, QuietStep DEF CheckSocket, devVars, netVars
  <1>5. CASE CheckSignal
    BY <1>5, QuietStep DEF CheckSignal, devVars, netVars
  <1>6. CASE ReceiveNothing
    BY <1>6, QuietStep DEF ReceiveNothing, devVars, netVars
  <1>7. CASE HandleReport
    BY <1>7, QuietStep DEF HandleReport, HandleDone, devVars, netVars
  <1>8. CASE HandleUnknown
    BY <1>8, QuietStep DEF HandleUnknown, HandleDone, devVars, netVars
  <1>9. CASE SkipDPS
    BY <1>9, QuietStep DEF SkipDPS, devVars, netVars
  <1>10. CASE WifiDown
    BY <1>10, QuietStep DEF WifiDown, LosePath, ctlVars, devVars
  <1>11. CASE WifiUp
    BY <1>11, QuietStep DEF WifiUp, ctlVars, devVars
  <1>12. CASE DevBack
    BY <1>12, QuietStep DEF DevBack, ctlVars, netVars
  <1>13. CASE SockDown
    BY <1>13, QuietStep DEF SockDown, ctlVars, devVars
  <1> QED
    BY <1>1, <1>2, <1>3, <1>4, <1>5, <1>6, <1>7, <1>8, <1>9, <1>10, <1>11,
       <1>12, <1>13

LEMMA NewSessionStep ==
  ASSUME TypeOK, HandshakeInv, NewSession
  PROVE  HandshakeInv'
  <1>1. ~sock' /\ pc' = "loop" /\ ~linked'
    BY DEF HandshakeInv, Closed, NewSession, netVars
  <1>2. UNCHANGED <<toDev, toCtl>>
    BY DEF NewSession
  <1> QED
    BY <1>1, <1>2 DEF HandshakeInv, Closed, Attached, BeforeHello, OneHello,
       OneGreeting, AfterGreeting, LinkedKey, FrameKeys, LocalKey, Key

LEMMA ConnectDeviceStep ==
  ASSUME TypeOK, HandshakeInv, ConnectDevice
  PROVE  HandshakeInv'
  <1>1. pc' = "hello" /\ ~linked' /\ hmacKey' = LocalKey
    BY DEF ConnectDevice
  <1>2. CASE wifi /\ devUp
    <2>1. toDev' = <<>> /\ toCtl' = <<>> /\ dev'.phase = "idle"
      BY <1>2 DEF ConnectDevice, Dial, Fresh
    <2> QED
      BY <1>1, <2>1 DEF HandshakeInv, Closed, BeforeHello, OneHello,
         OneGreeting, AfterGreeting, LinkedKey, FrameKeys, Greeted
  <1>3. CASE ~(wifi /\ devUp)
    <2>1. ~sock' /\ UNCHANGED <<toDev, toCtl, dev>>
      BY <1>3 DEF ConnectDevice, Dial
    <2> QED
      BY <1>1, <2>1 DEF HandshakeInv, Closed, Attached, BeforeHello, OneHello,
         OneGreeting, AfterGreeting, LinkedKey, FrameKeys, LocalKey, Key
  <1> QED
    BY <1>2, <1>3

LEMMA SendLocalNonceStep ==
  ASSUME TypeOK, HandshakeInv, SendLocalNonce
  PROVE  HandshakeInv'
  <1>1. /\ pc = "hello" /\ pc' = "signal" /\ sock' = sock
        /\ UNCHANGED <<linked, hmacKey, dev, toCtl>>
    BY DEF SendLocalNonce, netVars, devVars
  <1>2. CASE ~sock
    <2>1. toDev' = toDev
      BY <1>2 DEF SendLocalNonce
    <2> QED
      BY <1>1, <1>2, <2>1, QuietStep DEF HandshakeInv, Attached, Closed
  <1>3. CASE sock
    <2>1. /\ toDev = <<>> /\ toCtl = <<>> /\ dev.phase = "idle" /\ ~linked
          /\ hmacKey = LocalKey
      BY <1>1, <1>3 DEF HandshakeInv, BeforeHello
    <2>2. Write(OutMessage(Hello, NoNonce))
      BY <1>3 DEF SendLocalNonce
    <2>3. /\ OutMessage(Hello, NoNonce) \in OutFrame
          /\ OutMessage(Hello, NoNonce).cmd = Hello
          /\ OutMessage(Hello, NoNonce).key = LocalKey
      BY <2>1, OutMessageType DEF AnyNonce
    <2>4. /\ toDev' \in Seq(OutFrame)
          /\ \A i \in 1..Len(toDev') : /\ i = 1
                                       /\ toDev'[i].cmd = Hello
                                       /\ toDev'[i].key = LocalKey
      BY <2>1, <2>2, <2>3, WriteEffect
    <2>5. \A i \in 1..Len(toDev') : Len(toDev') = 1
      <3> TAKE i \in 1..Len(toDev')
      <3>1. Len(toDev') \in 1..Len(toDev')
        BY <2>4
      <3> QED
        BY <2>4, <3>1
    <2>6. OneHello' /\ OneGreeting' /\ AfterGreeting'
      BY <1>1, <2>1, <2>4, <2>5
         DEF OneHello, OneGreeting, AfterGreeting, Greeted
    <2>7. FrameKeys' /\ LinkedKey'
      BY <1>1, <2>1, <2>4 DEF FrameKeys, LinkedKey
    <2> QED
      BY <1>1, <2>6, <2>7 DEF HandshakeInv, Closed, BeforeHello
  <1> QED
    BY <1>2, <1>3

LEMMA ReceiveStep ==
  ASSUME TypeOK, HandshakeInv, Receive
  PROVE  HandshakeInv'
  <1>1. /\ pc = "receive" /\ pc' = "handle"
        /\ UNCHANGED <<linked, hmacKey, dev, toDev, sock>>
    BY DEF Receive, netVars, devVars
  <1>2. /\ toCtl \in Seq(InFrame) /\ 1 \in 1..Len(toCtl)
        /\ inFrame'.cmd = toCtl[1].cmd /\ inFrame'.key = toCtl[1].key
        /\ Greeted' => Greets(toCtl[1])
        /\ \A i \in 1..Len(toCtl') : \E j \in 2..Len(toCtl) :
             j = i + Len(toCtl) - Len(toCtl') /\ toCtl'[i] = toCtl[j]
    BY ReceiveEffect DEF TypeOK, Greeted, Greets
  <1>3. Len(toCtl') \in Nat /\ Len(toCtl) \in Nat
    BY ReceiveEffect DEF TypeOK
  <1>4. Attached /\ Attached' /\ ~Greeted
    BY <1>1 DEF Attached, Greeted
  <1>5. OneHello'
    <2> SUFFICES ASSUME NEW i \in 1..Len(toDev), toDev[i].cmd = Hello
                 PROVE  /\ Len(toDev) = 1 /\ ~linked /\ hmacKey = LocalKey
                        /\ dev.phase # "linked"
                        /\ \A j \in 1..Len(toCtl') : ~Greets(toCtl'[j])
                        /\ ~Greeted'
      BY <1>1 DEF OneHello, Greets
    <2>1. \A j \in 1..Len(toCtl) : ~Greets(toCtl[j])
      BY <1>4 DEF HandshakeInv, OneHello
    <2>2. \A j \in 1..Len(toCtl') : ~Greets(toCtl'[j])
      <3> TAKE j \in 1..Len(toCtl')
      <3>1. PICK m \in 2..Len(toCtl) : toCtl'[j] = toCtl[m]
        BY <1>2
      <3> QED
        BY <2>1, <3>1, <1>3
    <2> QED
      BY <1>2, <1>4, <2>1, <2>2 DEF HandshakeInv, OneHello
  <1>6. OneGreeting'
    <2>1. ASSUME NEW i \in 1..Len(toCtl'), Greets(toCtl'[i])
          PROVE  /\ Waiting /\ ~Greeted'
                 /\ \A j \in 1..Len(toCtl') : Greets(toCtl'[j]) => j = i
      <3>1. PICK m \in 2..Len(toCtl) :
                   m = i + Len(toCtl) - Len(toCtl') /\ toCtl'[i] = toCtl[m]
        BY <1>2
      <3>2. m \in 1..Len(toCtl) /\ Greets(toCtl[m])
        BY <1>3, <2>1, <3>1
      <3>3. /\ Waiting
            /\ \A j \in 1..Len(toCtl) : Greets(toCtl[j]) => j = m
        BY <1>4, <3>2 DEF HandshakeInv, OneGreeting
      <3>4. ~Greeted'
        BY <1>2, <3>1, <3>3
      <3>5. ASSUME NEW j \in 1..Len(toCtl'), Greets(toCtl'[j])
            PROVE  j = i
        <4>1. PICK l \in 2..Len(toCtl) :
                     l = j + Len(toCtl) - Len(toCtl') /\ toCtl'[j] = toCtl[l]
          BY <1>2
        <4>2. l \in 1..Len(toCtl) /\ Greets(toCtl[l])
          BY <1>3, <3>5, <4>1
        <4>3. l = m
          BY <3>3, <4>2
        <4> QED
          BY <1>3, <3>1, <4>1, <4>3
      <3> QED
        BY <3>3, <3>4, <3>5
    <2>2. Greeted' => Waiting
      BY <1>2, <1>4 DEF HandshakeInv, OneGreeting
    <2>3. Waiting' = Waiting
      BY <1>1 DEF Waiting
    <2> QED
      BY <2>1, <2>2, <2>3 DEF OneGreeting, Greets
  <1>7. AfterGreeting'
    <2>1. /\ dev.phase = "linked" => linked
          /\ \A i \in 1..Len(toDev) : toDev[i].cmd = Finish => linked
          /\ \A i \in 1..Len(toCtl) :
               toCtl[i].cmd = Report => linked /\ toCtl[i].key = hmacKey
      BY <1>4 DEF HandshakeInv, AfterGreeting
    <2>2. \A i \in 1..Len(toCtl') :
            toCtl'[i].cmd = Report => linked /\ toCtl'[i].key = hmacKey
      <3> TAKE i \in 1..Len(toCtl')
      <3>1. PICK m \in 2..Len(toCtl) : toCtl'[i] = toCtl[m]
        BY <1>2
      <3> QED
        BY <2>1, <3>1, <1>3
    <2> QED
      BY <1>1, <1>2, <2>1, <2>2 DEF AfterGreeting
  <1> QED
    BY <1>1, <1>5, <1>6, <1>7
       DEF HandshakeInv, Closed, BeforeHello, LinkedKey, FrameKeys, SessionKey,
           LocalKey, Key

LEMMA HandleGreetingStep ==
  ASSUME TypeOK, HandshakeInv, HandleGreeting
  PROVE  HandshakeInv'
  <1> DEFINE n == DecodedNonce(inFrame, hmacKey)
             f == OutMessage(Finish, n)
  <1>1. /\ pc = "handle" /\ pc' = "dps" /\ linked' = TRUE
        /\ hmacKey' = SessionKey(n)
        /\ UNCHANGED <<sock, dev, toCtl>>
    BY DEF HandleGreeting, HandleDone, netVars, devVars
  <1>2. Greeted /\ Attached
    BY DEF HandleGreeting, Greeted, Greets, Attached
  <1>3. /\ Waiting
        /\ \A i \in 1..Len(toCtl) : ~Greets(toCtl[i])
        /\ \A i \in 1..Len(toCtl) : toCtl[i].cmd # Report
    BY <1>2 DEF HandshakeInv, OneGreeting, AfterGreeting, Waiting
  <1>4. /\ n \in AnyNonce
        /\ Write(f) /\ f \in OutFrame
        /\ f.cmd = Finish /\ f.nonce = n /\ f.key = LocalKey
    <2>1. n \in AnyNonce
      BY InFrameHandled, DecodedTypes DEF HandleGreeting, TypeOK
    <2>2. Write(f)
      BY DEF HandleGreeting
    <2> HIDE DEF n
    <2> QED
      BY <1>3, <2>1, <2>2, OutMessageType DEF Waiting
  <1> HIDE DEF n, f
  <1>5. \A i \in 1..Len(toDev') : toDev'[i] = f
    BY <1>3, <1>4, WriteEffect DEF Waiting
  <1>6. OneHello' /\ OneGreeting'
    BY <1>1, <1>3, <1>4, <1>5
       DEF OneHello, OneGreeting, Greets, Greeted
  <1>7. AfterGreeting'
    BY <1>1, <1>3, <1>4, <1>5 DEF AfterGreeting
  <1>8. LinkedKey' /\ FrameKeys'
    BY <1>1, <1>3, <1>4, <1>5
       DEF LinkedKey, FrameKeys, Waiting, SessionKey, Key
  <1> QED
    BY <1>1, <1>6, <1>7, <1>8 DEF HandshakeInv, Closed, BeforeHello

LEMMA SetDPSStep ==
  ASSUME TypeOK, HandshakeInv, SetDPS
  PROVE  HandshakeInv'
  <1> DEFINE f == OutMessage(Control, NoNonce)
  <1>1. /\ pc = "dps" /\ pc' = "loop" /\ linked
        /\ UNCHANGED <<linked, hmacKey, sock, dev, toCtl>>
    BY DEF SetDPS, netVars, devVars
  <1>2. /\ Write(f) /\ f \in OutFrame
        /\ f.cmd = Control /\ f.key = hmacKey
    BY OutMessageType DEF SetDPS, AnyNonce
  <1> HIDE DEF f
  <1>3. /\ toDev' \in Seq(OutFrame)
        /\ \A i \in 1..Len(toDev') :
             \/ i \in 1..Len(toDev) /\ toDev'[i] = toDev[i]
             \/ toDev'[i] = f
    BY <1>2, WriteEffect DEF TypeOK
  <1>4. (Attached' => Attached) /\ ~Greeted'
    BY <1>1 DEF Attached, Greeted
  <1>5. OneHello'
    BY <1>1, <1>2, <1>3, <1>4 DEF HandshakeInv, OneHello
  <1>6. OneGreeting'
    BY <1>1, <1>4 DEF HandshakeInv, OneGreeting, Waiting
  <1>7. AfterGreeting'
    BY <1>1, <1>2, <1>3, <1>4 DEF HandshakeInv, AfterGreeting
  <1>8. LinkedKey' /\ FrameKeys'
    BY <1>1, <1>2, <1>3 DEF HandshakeInv, LinkedKey, FrameKeys, SessionKey,
       Key, LocalKey
  <1> QED
    BY <1>1, <1>5, <1>6, <1>7, <1>8 DEF HandshakeInv, Closed, BeforeHello

LEMMA DevGreetsStep ==
  ASSUME TypeOK, HandshakeInv, DevGreets
  PROVE  HandshakeInv'
  <1>1. /\ UNCHANGED <<pc, sock, linked, hmacKey, inFrame>>
        /\ toDev # <<>> /\ toDev' = Tail(toDev)
        /\ Head(toDev).cmd = Hello
    BY DEF DevGreets, DevTakes, ctlVars, netVars
  <1>2. /\ toDev' \in Seq(OutFrame)
        /\ toDev[1].cmd = Hello /\ 1 \in 1..Len(toDev)
        /\ Len(toDev') = Len(toDev) - 1
        /\ \A i \in 1..Len(toDev') : /\ toDev'[i] = toDev[i + 1]
                                     /\ i + 1 \in 1..Len(toDev)
    BY <1>1, TakeEffect
  <1>3. PICK n \in Nonces :
          /\ dev' = [dev EXCEPT !.phase = "greeted", !.nonce = n,
                                !.seq = Head(toDev).seq]
          /\ Deliver(InMessage(Greeting, LocalKey, n, "blank"))
    BY DEF DevGreets
  <1>4. dev'.phase = "greeted"
    BY <1>3 DEF TypeOK
  <1>5. /\ InMessage(Greeting, LocalKey, n, "blank") \in InFrame
        /\ InMessage(Greeting, LocalKey, n, "blank").cmd = Greeting
    BY KeyTypes, InMessageType DEF AnyNonce, Status, InMessage
  <1>6. /\ Len(toCtl') \in Nat /\ Len(toCtl) \in Nat
        /\ \A i \in 1..Len(toCtl) : toCtl'[i] = toCtl[i]
        /\ \A i \in 1..Len(toCtl') :
             i > Len(toCtl) => /\ toCtl'[i].cmd = Greeting
                               /\ i # Len(toCtl) + 1 => toCtl'[i].part = "tail"
    BY <1>3, <1>5, DeliverEffect DEF TypeOK
  <1>7. Attached =>
          /\ Len(toDev) = 1 /\ ~linked /\ hmacKey = LocalKey
          /\ \A j \in 1..Len(toCtl) : ~Greets(toCtl[j])
          /\ ~Greeted
    BY <1>2 DEF HandshakeInv, OneHello
  <1>8. Attached' = Attached /\ Greeted' = Greeted
    BY <1>1 DEF Attached, Greeted, Greets
  <1>9. Attached => Waiting' /\ \A i \in 1..Len(toDev') : FALSE
    BY <1>1, <1>2, <1>4, <1>7 DEF Waiting
  <1>10. Attached => \A i \in 1..Len(toCtl') :
           Greets(toCtl'[i]) => i = Len(toCtl) + 1
    BY <1>6, <1>7 DEF Greets
  <1>11. OneHello' /\ OneGreeting'
    BY <1>7, <1>8, <1>9, <1>10 DEF OneHello, OneGreeting, Greets
  <1>12. AfterGreeting'
    <2> SUFFICES ASSUME Attached PROVE AfterGreeting'
      BY <1>8 DEF AfterGreeting
    <2>1. \A i \in 1..Len(toCtl') :
            toCtl'[i].cmd = Report => i \in 1..Len(toCtl) /\ toCtl'[i] = toCtl[i]
      BY <1>6
    <2> QED
      BY <1>1, <1>4, <1>9, <2>1 DEF HandshakeInv, AfterGreeting
  <1>13. LinkedKey' /\ FrameKeys'
    BY <1>1, <1>2, <1>4
       DEF HandshakeInv, LinkedKey, FrameKeys, SessionKey, Key, LocalKey
  <1>14. Closed' /\ BeforeHello'
    BY <1>1, <1>2 DEF HandshakeInv, Closed, BeforeHello
  <1> QED
    BY <1>11, <1>12, <1>13, <1>14 DEF HandshakeInv

(* The bulb takes a frame and delivers no greeting: the finish, which      *)
(* links it, a command or one it ignores.                                  *)
LEMMA DevTakesStep ==
  ASSUME TypeOK, HandshakeInv, DevLinks \/ DevObeys \/ DevIgnores
  PROVE  HandshakeInv'
  <1>1. /\ UNCHANGED <<pc, sock, linked, hmacKey, inFrame>>
        /\ toDev # <<>> /\ toDev' = Tail(toDev)
    BY DEF DevLinks, DevObeys, DevIgnores, DevTakes, ctlVars, netVars
  <1>2. /\ toDev' \in Seq(OutFrame) /\ Head(toDev) = toDev[1]
        /\ 1 \in 1..Len(toDev)
        /\ Len(toDev') = Len(toDev) - 1
        /\ \A i \in 1..Len(toDev') : /\ toDev'[i] = toDev[i + 1]
                                     /\ i + 1 \in 1..Len(toDev)
    BY <1>1, TakeEffect
  <1>3. /\ dev'.nonce = dev.nonce
        /\ \/ dev'.phase = dev.phase
           \/ /\ dev'.phase = "linked" /\ toDev[1].cmd = Finish
              /\ toDev[1].nonce = dev.nonce
    <2>1. CASE DevLinks
      BY <1>2, <2>1 DEF DevLinks, DevTakes, Acceptable, TypeOK
    <2>2. CASE DevObeys
      BY <2>2 DEF DevObeys, TypeOK
    <2>3. CASE DevIgnores
      BY <2>3 DEF DevIgnores, TypeOK
    <2> QED
      BY <2>1, <2>2, <2>3
  <1>4. /\ Len(toCtl') \in Nat /\ Len(toCtl) \in Nat
        /\ \A i \in 1..Len(toCtl) : toCtl'[i] = toCtl[i]
        /\ \A i \in 1..Len(toCtl') : i > Len(toCtl) =>
             /\ toCtl'[i].cmd = Report
             /\ toCtl'[i].key = SessionKey(dev.nonce)
             /\ dev.phase = "linked"
    <2>1. CASE DevObeys
      <3>1. Deliver(InMessage(Report, SessionKey(dev.nonce), NoNonce, "off"))
        BY <2>1 DEF DevObeys, DevReports
      <3>2. /\ InMessage(Report, SessionKey(dev.nonce), NoNonce, "off") \in InFrame
            /\ InMessage(Report, SessionKey(dev.nonce), NoNonce, "off").cmd = Report
            /\ InMessage(Report, SessionKey(dev.nonce), NoNonce, "off").key
                 = SessionKey(dev.nonce)
        BY KeyTypes, InMessageType
           DEF TypeOK, AnyNonce, Status, Light, InMessage
      <3>3. dev.phase = "linked"
        BY <2>1 DEF DevObeys, DevTakes, Acceptable
      <3> QED
        BY <3>1, <3>2, <3>3, DeliverEffect DEF TypeOK
    <2>2. CASE DevLinks \/ DevIgnores
      BY <2>2 DEF DevLinks, DevIgnores, TypeOK
    <2> QED
      BY <2>1, <2>2
  <1>5. Attached' = Attached /\ Greeted' = Greeted
    BY <1>1 DEF Attached, Greeted, Greets
  <1>6. OneGreeting'
    BY <1>1, <1>4, <1>5 DEF HandshakeInv, OneGreeting, Waiting, Greets
  <1>7. OneHello'
    <2> SUFFICES ASSUME Attached, NEW i \in 1..Len(toDev'),
                        toDev'[i].cmd = Hello
                 PROVE  FALSE
      BY <1>5 DEF OneHello
    <2>1. Len(toDev) = 1
      BY <1>2 DEF HandshakeInv, OneHello
    <2> QED
      BY <1>2, <2>1
  <1>8. LinkedKey'
    <2> SUFFICES ASSUME linked PROVE LinkedKey'
      BY <1>1 DEF LinkedKey
    <2>1. hmacKey.kind = "session"
      BY DEF HandshakeInv, LinkedKey
    <2>2. dev'.phase = "linked" => hmacKey = SessionKey(dev'.nonce)
      BY <1>2, <1>3 DEF HandshakeInv, LinkedKey
    <2>3. \A i \in 1..Len(toDev') :
            toDev'[i].cmd = Finish => hmacKey = SessionKey(toDev'[i].nonce)
      BY <1>2 DEF HandshakeInv, LinkedKey
    <2> QED
      BY <1>1, <2>1, <2>2, <2>3 DEF LinkedKey, SessionKey, Key
  <1>9. AfterGreeting'
    <2> SUFFICES ASSUME Attached PROVE AfterGreeting'
      BY <1>5 DEF AfterGreeting
    <2>1. /\ dev'.phase = "linked" => linked
          /\ \A i \in 1..Len(toDev') : toDev'[i].cmd = Finish => linked
      BY <1>2, <1>3 DEF HandshakeInv, AfterGreeting
    <2>2. dev.phase = "linked" => linked /\ hmacKey = SessionKey(dev.nonce)
      BY DEF HandshakeInv, AfterGreeting, LinkedKey
    <2>3. \A i \in 1..Len(toCtl') :
            toCtl'[i].cmd = Report => linked /\ toCtl'[i].key = hmacKey
      BY <1>4, <2>2 DEF HandshakeInv, AfterGreeting
    <2> QED
      BY <1>1, <2>1, <2>3 DEF HandshakeInv, AfterGreeting
  <1>10. FrameKeys'
    BY <1>2 DEF HandshakeInv, FrameKeys, LocalKey, Key
  <1>11. Closed' /\ BeforeHello'
    BY <1>1, <1>2 DEF HandshakeInv, Closed, BeforeHello
  <1> QED
    BY <1>6, <1>7, <1>8, <1>9, <1>10, <1>11 DEF HandshakeInv

LEMMA DevSwitchedStep ==
  ASSUME TypeOK, HandshakeInv, DevSwitched
  PROVE  HandshakeInv'
  <1>1. /\ UNCHANGED <<pc, sock, linked, hmacKey, inFrame, dev, toDev>>
        /\ dev.phase = "linked"
    BY DEF DevSwitched, ctlVars, netVars
  <1>2. PICK l \in Light : DevReports(l)
    BY DEF DevSwitched
  <1>3. /\ Deliver(InMessage(Report, SessionKey(dev.nonce), NoNonce, l))
        /\ InMessage(Report, SessionKey(dev.nonce), NoNonce, l) \in InFrame
        /\ InMessage(Report, SessionKey(dev.nonce), NoNonce, l).cmd = Report
        /\ InMessage(Report, SessionKey(dev.nonce), NoNonce, l).key
             = SessionKey(dev.nonce)
    BY <1>2, KeyTypes, InMessageType
       DEF DevReports, TypeOK, AnyNonce, Status, InMessage
  <1>4. /\ Len(toCtl') \in Nat /\ Len(toCtl) \in Nat
        /\ \A i \in 1..Len(toCtl) : toCtl'[i] = toCtl[i]
        /\ \A i \in 1..Len(toCtl') : i > Len(toCtl) =>
             /\ toCtl'[i].cmd = Report
             /\ toCtl'[i].key = SessionKey(dev.nonce)
    BY <1>3, DeliverEffect DEF TypeOK
  <1>5. Attached' = Attached /\ Greeted' = Greeted
    BY <1>1 DEF Attached, Greeted, Greets
  <1>6. OneGreeting'
    BY <1>1, <1>4, <1>5 DEF HandshakeInv, OneGreeting, Waiting, Greets
  <1>7. OneHello'
    BY <1>1, <1>4, <1>5 DEF HandshakeInv, OneHello, Greets
  <1>8. AfterGreeting'
    <2> SUFFICES ASSUME Attached PROVE AfterGreeting'
      BY <1>5 DEF AfterGreeting
    <2>1. linked /\ hmacKey = SessionKey(dev.nonce)
      BY <1>1 DEF HandshakeInv, AfterGreeting, LinkedKey
    <2>2. \A i \in 1..Len(toCtl') :
            toCtl'[i].cmd = Report => linked /\ toCtl'[i].key = hmacKey
      BY <1>4, <2>1 DEF HandshakeInv, AfterGreeting
    <2> QED
      BY <1>1, <2>2 DEF HandshakeInv, AfterGreeting
  <1>9. LinkedKey' /\ FrameKeys'
    BY <1>1 DEF HandshakeInv, LinkedKey, FrameKeys, SessionKey, Key, LocalKey
  <1>10. Closed' /\ BeforeHello'
    BY <1>1 DEF HandshakeInv, Closed, BeforeHello
  <1> QED
    BY <1>6, <1>7, <1>8, <1>9, <1>10 DEF HandshakeInv

LEMMA DevDownStep ==
  ASSUME TypeOK, HandshakeInv, DevDown
  PROVE  HandshakeInv'
  <1>1. /\ UNCHANGED <<pc, linked, hmacKey, inFrame>> /\ (sock' => sock)
        /\ toDev' = <<>> /\ dev'.phase = "idle"
        /\ toCtl' = toCtl \/ toCtl' = <<>>
    BY DEF DevDown, LosePath, ctlVars, Gone, Fresh
  <1>2. (Attached' => Attached) /\ Greeted' = Greeted
    BY <1>1 DEF Attached, Greeted, Greets
  <1>3. Waiting => Waiting'
    BY <1>1 DEF Waiting
  <1>4. OneHello'
    BY <1>1 DEF OneHello
  <1>5. OneGreeting'
    <2>1. CASE toCtl' = toCtl
      BY <1>2, <1>3, <2>1 DEF HandshakeInv, OneGreeting, Greets
    <2>2. CASE toCtl' = <<>>
      BY <1>2, <1>3, <2>2 DEF HandshakeInv, OneGreeting
    <2> QED
      BY <1>1, <2>1, <2>2
  <1>6. AfterGreeting'
    <2>1. CASE toCtl' = toCtl
      BY <1>1, <1>2, <2>1 DEF HandshakeInv, AfterGreeting
    <2>2. CASE toCtl' = <<>>
      BY <1>1, <1>2, <2>2 DEF HandshakeInv, AfterGreeting
    <2> QED
      BY <1>1, <2>1, <2>2
  <1>7. LinkedKey' /\ FrameKeys'
    BY <1>1 DEF HandshakeInv, LinkedKey, FrameKeys
  <1>8. Closed' /\ BeforeHello'
    BY <1>1 DEF HandshakeInv, Closed, BeforeHello
  <1> QED
    BY <1>4, <1>5, <1>6, <1>7, <1>8 DEF HandshakeInv

LEMMA HandshakeStep ==
  ASSUME TypeOK, HandshakeInv, [Next]_vars
  PROVE  HandshakeInv'
  <1>1. CASE UNCHANGED vars
    BY <1>1, QuietStep
       DEF vars, ctlVars, netVars, devVars, Attached, HandshakeInv, Closed
  <1> QED
    BY <1>1, ControlSteps, NewSessionStep, ConnectDeviceStep,
       SendLocalNonceStep, ReceiveStep, HandleGreetingStep, SetDPSStep,
       DevGreetsStep, DevTakesStep, DevSwitchedStep, DevDownStep
       DEF Next, LoopTask, Bulb, Environment

LEMMA HandshakeInit == Init => HandshakeInv
  <1> SUFFICES ASSUME Init PROVE HandshakeInv
    OBVIOUS
  <1>1. pc = "wifi" /\ ~sock /\ ~linked /\ toDev = <<>>
    BY DEF Init
  <1>2. Closed /\ BeforeHello /\ OneHello /\ OneGreeting /\ AfterGreeting
    BY <1>1 DEF Closed, BeforeHello, OneHello, OneGreeting, AfterGreeting,
       Attached
  <1>3. LinkedKey /\ FrameKeys
    BY <1>1 DEF LinkedKey, FrameKeys
  <1> QED
    BY <1>2, <1>3 DEF HandshakeInv

LEMMA HandshakeInvariant == Spec => []HandshakeInv
  <1>1. TypeOK /\ HandshakeInv /\ [Next]_vars => HandshakeInv'
    BY HandshakeStep
  <1> QED
    BY <1>1, HandshakeInit, TypeCorrect, PTL DEF Spec

(* Two linked ends hold the same key: the key of a linked session is the   *)
(* one in the finish on its way, and the bulb links only by that finish.   *)
THEOREM KeysAgree == Spec => []KeyAgreement
  <1>1. HandshakeInv => KeyAgreement
    BY DEF HandshakeInv, LinkedKey, KeyAgreement
  <1> QED
    BY <1>1, HandshakeInvariant, PTL

(* Handshake frames travel under the local key, commands under a session   *)
(* key.                                                                    *)
THEOREM KeysOfFrames == Spec => []FrameKeys
  <1>1. HandshakeInv => FrameKeys
    BY DEF HandshakeInv
  <1> QED
    BY <1>1, HandshakeInvariant, PTL

(* Every report is decrypted with the key it was encrypted with. *)
THEOREM ReportsAreReadable == Spec => []ReportsReadable
  <1>1. HandshakeInv => ReportsReadable
    BY DEF HandshakeInv, AfterGreeting, Attached, ReportsReadable
  <1> QED
    BY <1>1, HandshakeInvariant, PTL

(* The key of a linked session stays: only a greeting changes the key      *)
(* without ending the link, and no greeting reaches a linked session.      *)
THEOREM LinkedKeyStays == Spec => LinkKeepsKey
  <1>1. HandshakeInv /\ [Next]_vars => [linked /\ linked' => hmacKey' = hmacKey]_vars
    <2> SUFFICES ASSUME HandshakeInv, Next, linked, linked'
                 PROVE  hmacKey' = hmacKey
      OBVIOUS
    <2>1. ~HandleGreeting
      <3>1. HandleGreeting => Attached /\ Greeted
        BY DEF HandleGreeting, Attached, Greeted, Greets
      <3> QED
        BY <3>1 DEF HandshakeInv, OneGreeting, Waiting
    <2>2. ~NewSession /\ ~ConnectDevice
      BY DEF NewSession, ConnectDevice
    <2>3. CASE LoopTask
      BY <2>1, <2>2, <2>3 DEF LoopTask, ConnectWifi, StayInSession,
         LeaveSession, CheckSocket, SendLocalNonce, CheckSignal, Receive,
         ReceiveNothing, HandleReport, HandleUnknown, SetDPS, SkipDPS
    <2>4. CASE Bulb \/ Environment
      BY <2>4 DEF Bulb, Environment, DevGreets, DevLinks, DevObeys,
         DevIgnores, DevTakes, DevSwitched, WifiDown, WifiUp, DevDown,
         DevBack, SockDown, ctlVars
    <2> QED
      BY <2>3, <2>4 DEF Next
  <1> QED
    BY <1>1, HandshakeInvariant, PTL DEF Spec, LinkKeepsKey
-----------------------------------------------------------------------------
(* Sequence numbers *)

(* A step that writes nothing and lets the bulb take nothing *)
LEMMA SeqQuiet ==
  ASSUME SeqInv, UNCHANGED <<toDev, dev>>,
         sock' => sock /\ seqNo' = seqNo,
         Closed'
  PROVE  SeqInv'
  BY DEF SeqInv, NextSeq, SequenceOrder

(* A step that writes one frame with the next number *)
LEMMA SeqWrite ==
  ASSUME TypeOK, SeqInv, NEW f \in OutFrame, Write(f), f.seq = seqNo,
         seqNo' = seqNo + 1, UNCHANGED <<dev, sock>>, Closed'
  PROVE  SeqInv'
  <1> DEFINE n == Len(toDev)
  <1>1. /\ n \in Nat /\ Len(toDev') \in Nat
        /\ \A i \in 1..Len(toDev') :
             \/ i \in 1..n /\ toDev'[i] = toDev[i]
             \/ i = n + 1 /\ toDev'[i] = f /\ sock
    BY WriteEffect DEF TypeOK
  <1>2. /\ \A i \in 1..n : toDev[i].seq \in Nat
        /\ seqNo \in Nat /\ dev.seq \in Nat
    <2>1. \A i \in 1..n : toDev[i] \in OutFrame
      BY DEF TypeOK
    <2>2. \A i \in 1..n : toDev[i].seq \in Nat
      BY <2>1 DEF OutFrame
    <2>3. seqNo \in Nat /\ dev.seq \in Nat
      BY DEF TypeOK
    <2> QED
      BY <2>2, <2>3
  <1>3. /\ sock => dev.seq < seqNo /\ \A i \in 1..n : toDev[i].seq < seqNo
        /\ \A i \in 1..n : dev.seq < toDev[i].seq
        /\ \A i, j \in 1..n : i < j => toDev[i].seq < toDev[j].seq
    BY DEF SeqInv, NextSeq, SequenceOrder
  <1> HIDE DEF n
  <1>4. NextSeq'
    BY <1>1, <1>2, <1>3 DEF NextSeq
  <1>5. \A i \in 1..Len(toDev') : dev.seq < toDev'[i].seq
    BY <1>1, <1>2, <1>3
  <1>6. ASSUME NEW i \in 1..Len(toDev'), NEW j \in 1..Len(toDev'), i < j
        PROVE  toDev'[i].seq < toDev'[j].seq
    <2>1. i \in 1..n /\ toDev'[i] = toDev[i]
      BY <1>1, <1>6
    <2>2. CASE j \in 1..n /\ toDev'[j] = toDev[j]
      BY <1>3, <1>6, <2>1, <2>2
    <2>3. CASE j = n + 1 /\ toDev'[j] = f /\ sock
      BY <1>2, <1>3, <2>1, <2>3
    <2> QED
      BY <1>1, <2>2, <2>3
  <1>7. SequenceOrder'
    BY <1>5, <1>6 DEF SequenceOrder
  <1> QED
    BY <1>4, <1>7 DEF SeqInv

(* The bulb takes a frame: its number is the bulb's last. *)
LEMMA SeqTake ==
  ASSUME TypeOK, SeqInv, toDev # <<>>, toDev' = Tail(toDev),
         dev'.seq = Head(toDev).seq, UNCHANGED <<sock, seqNo, pc>>
  PROVE  SeqInv'
  <1>1. /\ toDev' \in Seq(OutFrame) /\ Head(toDev) = toDev[1]
        /\ 1 \in 1..Len(toDev) /\ Len(toDev) \in Nat
        /\ Len(toDev') = Len(toDev) - 1
        /\ \A i \in 1..Len(toDev') : /\ toDev'[i] = toDev[i + 1]
                                     /\ i + 1 \in 1..Len(toDev)
    BY TakeEffect DEF TypeOK
  <1>2. NextSeq'
    BY <1>1 DEF SeqInv, NextSeq
  <1>3. \A i \in 1..Len(toDev') : dev'.seq < toDev'[i].seq
    <2> TAKE i \in 1..Len(toDev')
    <2>1. i + 1 \in 1..Len(toDev) /\ 1 < i + 1 /\ toDev'[i] = toDev[i + 1]
      BY <1>1
    <2> QED
      BY <1>1, <2>1 DEF SeqInv, SequenceOrder
  <1>4. \A i, j \in 1..Len(toDev') : i < j => toDev'[i].seq < toDev'[j].seq
    <2> TAKE i, j \in 1..Len(toDev')
    <2>1. /\ i + 1 \in 1..Len(toDev) /\ toDev'[i] = toDev[i + 1]
          /\ j + 1 \in 1..Len(toDev) /\ toDev'[j] = toDev[j + 1]
          /\ i < j => i + 1 < j + 1
      BY <1>1
    <2> QED
      BY <2>1 DEF SeqInv, SequenceOrder
  <1>5. SequenceOrder' /\ Closed'
    BY <1>3, <1>4 DEF SequenceOrder, SeqInv, Closed
  <1> QED
    BY <1>2, <1>5 DEF SeqInv

LEMMA SeqStep ==
  ASSUME TypeOK, SeqInv, [Next]_vars
  PROVE  SeqInv'
  <1> USE DEF Closed
  <1>1. CASE ConnectWifi \/ StayInSession \/ LeaveSession \/ CheckSocket
             \/ CheckSignal \/ ReceiveNothing \/ Receive \/ SkipDPS
    <2>1. UNCHANGED <<toDev, dev, seqNo>>
      BY <1>1 DEF ConnectWifi, StayInSession, LeaveSession, CheckSocket,
         CheckSignal, ReceiveNothing, Receive, SkipDPS, devVars
    <2>2. UNCHANGED sock \/ LeaveSession
      BY <1>1 DEF ConnectWifi, StayInSession, CheckSocket, CheckSignal,
         ReceiveNothing, Receive, SkipDPS, netVars
    <2>3. /\ pc' = "session" => pc = "wifi"
          /\ pc' = "wifi" => LeaveSession
      BY <1>1 DEF ConnectWifi, StayInSession, LeaveSession, CheckSocket,
         CheckSignal, ReceiveNothing, Receive, SkipDPS
    <2>4. LeaveSession => ~sock' /\ Closed'
      BY DEF LeaveSession
    <2>5. (sock' => sock) /\ Closed'
      BY <2>2, <2>3, <2>4 DEF SeqInv
    <2> QED
      BY <2>1, <2>5, SeqQuiet
  <1>2. CASE HandleReport \/ HandleUnknown
    <2>1. UNCHANGED <<toDev, dev, seqNo>> /\ (sock' => sock) /\ Closed'
      BY <1>2 DEF HandleReport, HandleUnknown, HandleDone, devVars, netVars,
         SeqInv
    <2> QED
      BY <2>1, SeqQuiet
  <1>3. CASE NewSession
    BY <1>3, SeqQuiet DEF NewSession, devVars, netVars, SeqInv
  <1>4. CASE ConnectDevice
    <2>1. CASE wifi /\ devUp
      <3>1. toDev' = <<>> /\ dev'.seq = 0 /\ seqNo' = 1 /\ pc' = "hello"
        BY <1>4, <2>1 DEF ConnectDevice, Dial, Fresh
      <3> QED
        BY <3>1 DEF SeqInv, NextSeq, SequenceOrder
    <2>2. CASE ~(wifi /\ devUp)
      BY <1>4, <2>2, SeqQuiet DEF ConnectDevice, Dial
    <2> QED
      BY <2>1, <2>2
  <1>5. CASE SendLocalNonce
    <2>1. UNCHANGED <<dev, sock>> /\ pc' = "signal"
      BY <1>5 DEF SendLocalNonce, devVars, netVars
    <2>2. CASE sock
      BY <1>5, <2>1, <2>2, OutMessageType, SeqWrite
         DEF SendLocalNonce, AnyNonce
    <2>3. CASE ~sock
      BY <1>5, <2>1, <2>3, SeqQuiet DEF SendLocalNonce
    <2> QED
      BY <2>2, <2>3
  <1>6. CASE HandleGreeting
    <2> DEFINE n == DecodedNonce(inFrame, hmacKey)
    <2>1. n \in AnyNonce
      BY <1>6, InFrameHandled, DecodedTypes DEF HandleGreeting, TypeOK
    <2>2. /\ Write(OutMessage(Finish, n))
          /\ seqNo' = seqNo + 1 /\ UNCHANGED <<dev, sock>> /\ pc' = "dps"
      BY <1>6 DEF HandleGreeting, HandleDone, devVars, netVars
    <2> HIDE DEF n
    <2> QED
      BY <2>1, <2>2, OutMessageType, SeqWrite
  <1>7. CASE SetDPS
    <2>1. /\ Write(OutMessage(Control, NoNonce))
          /\ seqNo' = seqNo + 1 /\ UNCHANGED <<dev, sock>> /\ pc' = "loop"
      BY <1>7 DEF SetDPS, devVars, netVars
    <2> QED
      BY <2>1, OutMessageType, SeqWrite DEF AnyNonce
  <1>8. CASE Bulb
    <2>1. toDev # <<>> /\ toDev' = Tail(toDev) /\ UNCHANGED <<sock, seqNo, pc>>
      BY <1>8 DEF Bulb, DevGreets, DevLinks, DevObeys, DevIgnores, DevTakes,
         ctlVars, netVars
    <2>2. dev'.seq = Head(toDev).seq
      BY <1>8 DEF Bulb, DevGreets, DevLinks, DevObeys, DevIgnores, TypeOK
    <2> QED
      BY <2>1, <2>2, SeqTake
  <1>9. CASE DevDown
    <2>1. /\ toDev' = <<>> /\ dev'.seq = 0 /\ UNCHANGED <<seqNo, pc>>
          /\ sock' => sock
      BY <1>9 DEF DevDown, LosePath, Gone, Fresh, ctlVars
    <2>2. seqNo > 0
      BY DEF TypeOK
    <2> QED
      BY <2>1, <2>2 DEF SeqInv, NextSeq, SequenceOrder
  <1>10. CASE DevSwitched \/ WifiDown \/ WifiUp \/ DevBack \/ SockDown
    <2>1. UNCHANGED <<toDev, dev, seqNo, pc>>
      BY <1>10 DEF DevSwitched, WifiDown, WifiUp, DevBack, SockDown, ctlVars,
         devVars
    <2>2. sock' => sock
      <3>1. CASE WifiDown
        BY <3>1 DEF WifiDown, LosePath
      <3>2. CASE DevSwitched \/ WifiUp \/ DevBack \/ SockDown
        BY <3>2 DEF DevSwitched, WifiUp, DevBack, SockDown, netVars
      <3> QED
        BY <1>10, <3>1, <3>2
    <2> QED
      BY <2>1, <2>2, SeqQuiet DEF SeqInv
  <1>11. CASE UNCHANGED vars
    BY <1>11, SeqQuiet DEF vars, ctlVars, netVars, devVars, SeqInv
  <1> QED
    BY <1>1, <1>2, <1>3, <1>4, <1>5, <1>6, <1>7, <1>8, <1>9, <1>10, <1>11
       DEF Next, LoopTask, Environment

(* The bulb sees increasing sequence numbers on every connection. *)
THEOREM SequenceIncreases == Spec => []SequenceOrder
  <1>1. Init => SeqInv
    BY DEF Init, SeqInv, Closed, NextSeq, SequenceOrder
  <1>2. TypeOK /\ SeqInv /\ [Next]_vars => SeqInv'
    BY SeqStep
  <1>3. SeqInv => SequenceOrder
    BY DEF SeqInv
  <1> QED
    BY <1>1, <1>2, <1>3, TypeCorrect, PTL DEF Spec
-----------------------------------------------------------------------------
(* The command *)

LEMMA CommandQuiet ==
  ASSUME CommandOnce, UNCHANGED <<toDev, once, applied>>
  PROVE  CommandOnce'
  BY DEF CommandOnce, Commands

(* A step after which there is no command in the stream that was not there *)
LEMMA CommandFewer ==
  ASSUME CommandOnce, UNCHANGED <<once, applied>>, Commands' \subseteq Commands
  PROVE  CommandOnce'
  BY DEF CommandOnce

LEMMA CommandTakes ==
  ASSUME TypeOK, CommandOnce, toDev # <<>>, toDev' = Tail(toDev),
         UNCHANGED once
  PROVE  /\ \A i \in Commands' : i + 1 \in Commands
         /\ \A i, j \in Commands' : i = j
         /\ Head(toDev).cmd = Control => Commands' = {} /\ Commands # {}
  <1>1. /\ Head(toDev) = toDev[1] /\ 1 \in 1..Len(toDev) /\ Len(toDev) \in Nat
        /\ Len(toDev') = Len(toDev) - 1
        /\ \A i \in 1..Len(toDev') : /\ toDev'[i] = toDev[i + 1]
                                     /\ i + 1 \in 1..Len(toDev)
    BY TakeEffect DEF TypeOK
  <1>2. \A i \in Commands' : i + 1 \in Commands /\ i \in Nat /\ i > 0
    BY <1>1 DEF Commands
  <1>3. \A i, j \in Commands : i = j
    BY DEF CommandOnce
  <1>4. \A i, j \in Commands' : i = j
    BY <1>2, <1>3
  <1>5. ASSUME Head(toDev).cmd = Control PROVE Commands' = {} /\ Commands # {}
    <2>1. 1 \in Commands
      BY <1>1, <1>5 DEF Commands
    <2> QED
      BY <1>2, <1>3, <2>1
  <1> QED
    BY <1>2, <1>4, <1>5

LEMMA CommandStep ==
  ASSUME TypeOK, CommandOnce, [Next]_vars
  PROVE  CommandOnce'
  <1>1. CASE ConnectWifi \/ NewSession \/ StayInSession \/ LeaveSession
             \/ CheckSocket \/ CheckSignal \/ Receive \/ ReceiveNothing
             \/ SkipDPS
    BY <1>1, CommandQuiet DEF ConnectWifi, NewSession, StayInSession,
       LeaveSession, CheckSocket, CheckSignal, Receive, ReceiveNothing,
       SkipDPS, devVars
  <1>2. CASE HandleReport \/ HandleUnknown
    BY <1>2, CommandQuiet DEF HandleReport, HandleUnknown, HandleDone, devVars
  <1>3. CASE DevSwitched \/ WifiDown \/ WifiUp \/ DevBack \/ SockDown
    BY <1>3, CommandQuiet DEF DevSwitched, WifiDown, WifiUp, DevBack, SockDown,
       ctlVars, devVars
  <1>4. CASE UNCHANGED vars
    BY <1>4, CommandQuiet DEF vars, ctlVars, devVars
  <1>5. CASE ConnectDevice
    <2>1. (toDev' = toDev \/ toDev' = <<>>) /\ UNCHANGED <<once, applied>>
      BY <1>5 DEF ConnectDevice, Dial
    <2>2. Commands' \subseteq Commands
      BY <2>1 DEF Commands
    <2> QED
      BY <2>1, <2>2, CommandFewer
  <1>6. CASE DevDown
    <2>1. toDev' = <<>> /\ UNCHANGED <<once, applied>>
      BY <1>6 DEF DevDown, ctlVars
    <2>2. Commands' \subseteq Commands
      BY <2>1 DEF Commands
    <2> QED
      BY <2>1, <2>2, CommandFewer
  <1>7. ASSUME NEW f \in OutFrame, Write(f), f.cmd # Control,
               UNCHANGED <<once, applied>>
        PROVE  CommandOnce'
    <2>1. \A i \in 1..Len(toDev') :
            \/ i \in 1..Len(toDev) /\ toDev'[i] = toDev[i]
            \/ toDev'[i] = f
      BY <1>7, WriteEffect DEF TypeOK
    <2>2. Commands' \subseteq Commands
      BY <1>7, <2>1 DEF Commands
    <2> QED
      BY <1>7, <2>2, CommandFewer
  <1>8. CASE SendLocalNonce
    <2>1. UNCHANGED <<once, applied>>
      BY <1>8 DEF SendLocalNonce, devVars
    <2>2. CASE sock
      BY <1>7, <1>8, <2>1, <2>2, OutMessageType DEF SendLocalNonce, AnyNonce
    <2>3. CASE ~sock
      BY <1>8, <2>1, <2>3, CommandQuiet DEF SendLocalNonce
    <2> QED
      BY <2>2, <2>3
  <1>9. CASE HandleGreeting
    <2> DEFINE n == DecodedNonce(inFrame, hmacKey)
    <2>1. n \in AnyNonce
      BY <1>9, InFrameHandled, DecodedTypes DEF HandleGreeting, TypeOK
    <2>2. Write(OutMessage(Finish, n)) /\ UNCHANGED <<once, applied>>
      BY <1>9 DEF HandleGreeting, HandleDone, devVars
    <2> HIDE DEF n
    <2> QED
      BY <1>7, <2>1, <2>2, OutMessageType
  <1>10. CASE SetDPS
    <2>1. /\ applied = 0 /\ applied' = applied /\ once' = TRUE
          /\ \A i \in 1..Len(toDev) : toDev[i].cmd # Control
          /\ Write(OutMessage(Control, NoNonce))
      BY <1>10 DEF SetDPS, CommandOnce, Commands, devVars
    <2>2. \A i \in 1..Len(toDev') :
            \/ i \in 1..Len(toDev) /\ toDev'[i] = toDev[i]
            \/ i = Len(toDev) + 1
      BY <2>1, OutMessageType, WriteEffect DEF AnyNonce, TypeOK
    <2>3. \A i \in Commands' : i = Len(toDev) + 1
      BY <2>1, <2>2 DEF Commands
    <2> QED
      BY <2>1, <2>3 DEF CommandOnce
  <1>11. CASE DevGreets \/ DevLinks \/ DevIgnores
    <2>1. toDev # <<>> /\ toDev' = Tail(toDev) /\ UNCHANGED <<once, applied>>
      BY <1>11 DEF DevGreets, DevLinks, DevIgnores, DevTakes, ctlVars
    <2> QED
      BY <2>1, CommandTakes DEF CommandOnce
  <1>12. CASE DevObeys
    <2>1. /\ toDev # <<>> /\ toDev' = Tail(toDev) /\ UNCHANGED once
          /\ applied' = applied + 1 /\ Head(toDev).cmd = Control
      BY <1>12 DEF DevObeys, DevTakes, ctlVars
    <2>2. Commands' = {} /\ Commands # {}
      BY <2>1, CommandTakes
    <2>3. applied = 0 /\ once
      <3>1. applied \in {0, 1} /\ applied # 1 /\ once \in BOOLEAN
        BY <2>2 DEF CommandOnce, TypeOK
      <3> QED
        BY <2>2, <3>1 DEF CommandOnce
    <2> QED
      BY <2>1, <2>2, <2>3 DEF CommandOnce
  <1> QED
    BY <1>1, <1>2, <1>3, <1>4, <1>5, <1>6, <1>8, <1>9, <1>10, <1>11, <1>12
       DEF Next, LoopTask, Bulb, Environment

(* The start-up command reaches the bulb once at most, whatever is lost,   *)
(* repeated or reconnected.                                                *)
THEOREM CommandAtMostOnce == Spec => []CommandOnce
  <1>1. Init => CommandOnce
    BY DEF Init, CommandOnce, Commands
  <1>2. TypeOK /\ CommandOnce /\ [Next]_vars => CommandOnce'
    BY CommandStep
  <1> QED
    BY <1>1, <1>2, TypeCorrect, PTL DEF Spec
-----------------------------------------------------------------------------
(* Refinement of TuyaLink *)

(* Nonces come from the bulb; what a damaged greeting gives is Garbage.    *)
NonceInv ==
  /\ dev.phase # "idle" => dev.nonce \in Nonces
  /\ \A i \in 1..Len(toCtl) : Greets(toCtl[i]) => toCtl[i].nonce \in Nonces
  /\ Greeted => inFrame.nonce \in Nonces
  /\ linked => hmacKey.nonce \in Nonces \union {Garbage}

LEMMA NonceQuiet ==
  ASSUME NonceInv, UNCHANGED <<dev, toCtl>>,
         pc' = "handle" => pc = "handle" /\ inFrame' = inFrame,
         linked' => linked /\ hmacKey' = hmacKey
  PROVE  NonceInv'
  BY DEF NonceInv, Greeted, Greets

LEMMA NonceStep ==
  ASSUME TypeOK, NonceInv, [Next]_vars
  PROVE  NonceInv'
  <1>1. CASE ConnectWifi \/ StayInSession \/ LeaveSession \/ CheckSocket
             \/ CheckSignal \/ ReceiveNothing \/ SkipDPS
    <2>1. UNCHANGED <<dev, toCtl, linked, hmacKey>>
      BY <1>1 DEF ConnectWifi, StayInSession, LeaveSession, CheckSocket,
         CheckSignal, ReceiveNothing, SkipDPS, devVars
    <2>2. pc' # "handle"
      BY <1>1 DEF ConnectWifi, StayInSession, LeaveSession, CheckSocket,
         CheckSignal, ReceiveNothing, SkipDPS
    <2> QED
      BY <2>1, <2>2, NonceQuiet
  <1>16. CASE NewSession
    <2>1. ~linked' /\ pc' = "loop" /\ UNCHANGED <<dev, toCtl>>
      BY <1>16 DEF NewSession, devVars
    <2> QED
      BY <2>1, NonceQuiet
  <1>2. CASE SendLocalNonce \/ SetDPS
    BY <1>2, NonceQuiet DEF SendLocalNonce, SetDPS, devVars
  <1>3. CASE HandleReport \/ HandleUnknown
    BY <1>3, NonceQuiet DEF HandleReport, HandleUnknown, HandleDone, devVars
  <1>4. CASE WifiDown \/ WifiUp \/ DevBack \/ SockDown
    BY <1>4, NonceQuiet DEF WifiDown, WifiUp, DevBack, SockDown, ctlVars,
       devVars
  <1>5. CASE UNCHANGED vars
    BY <1>5, NonceQuiet DEF vars, ctlVars, devVars
  <1>6. CASE ConnectDevice
    <2>1. ~linked' /\ pc' = "hello"
      BY <1>6 DEF ConnectDevice
    <2>2. CASE UNCHANGED <<dev, toCtl>>
      BY <2>1, <2>2, NonceQuiet
    <2>3. CASE dev' = Fresh /\ toCtl' = <<>>
      BY <2>1, <2>3 DEF NonceInv, Fresh, Greeted
    <2> QED
      BY <1>6, <2>2, <2>3 DEF ConnectDevice, Dial
  <1>7. CASE Receive
    <2>1. /\ toCtl \in Seq(InFrame) /\ 1 \in 1..Len(toCtl)
          /\ Greeted' => Greets(toCtl[1]) /\ inFrame'.nonce = toCtl[1].nonce
          /\ \A i \in 1..Len(toCtl') : \E j \in 1..Len(toCtl) :
               toCtl'[i] = toCtl[j]
      BY <1>7, ReceiveEffect DEF TypeOK, Greeted, Greets
    <2>2. \A i \in 1..Len(toCtl) : Greets(toCtl[i]) => toCtl[i].nonce \in Nonces
      BY DEF NonceInv
    <2>3. \A i \in 1..Len(toCtl') : Greets(toCtl'[i]) => toCtl'[i].nonce \in Nonces
      BY <2>1, <2>2
    <2>4. UNCHANGED <<dev, linked, hmacKey>>
      BY <1>7 DEF Receive, devVars
    <2> QED
      BY <2>1, <2>2, <2>3, <2>4 DEF NonceInv, Greets
  <1>8. CASE HandleGreeting
    <2>1. /\ UNCHANGED <<dev, toCtl>> /\ pc' = "dps"
          /\ hmacKey' = SessionKey(DecodedNonce(inFrame, hmacKey))
      BY <1>8 DEF HandleGreeting, HandleDone, devVars
    <2>2. inFrame.nonce \in Nonces
      BY <1>8 DEF HandleGreeting, NonceInv, Greeted, Greets
    <2>3. hmacKey'.nonce \in Nonces \union {Garbage}
      BY <2>1, <2>2 DEF DecodedNonce, SessionKey, Key
    <2> QED
      BY <2>1, <2>3 DEF NonceInv, Greeted, Greets
  <1>9. ASSUME NEW f \in InFrame, Deliver(f),
               f.cmd = Greeting => f.nonce \in Nonces,
               UNCHANGED <<pc, inFrame, linked, hmacKey>>,
               dev'.phase # "idle" => dev'.nonce \in Nonces
        PROVE  NonceInv'
    <2>1. \A i \in 1..Len(toCtl') :
            \/ i \in 1..Len(toCtl) /\ toCtl'[i] = toCtl[i]
            \/ toCtl'[i].cmd = f.cmd /\ toCtl'[i].nonce = f.nonce
      BY <1>9, DeliverEffect DEF TypeOK
    <2>2. \A i \in 1..Len(toCtl') : Greets(toCtl'[i]) => toCtl'[i].nonce \in Nonces
      BY <1>9, <2>1 DEF NonceInv, Greets
    <2> QED
      BY <1>9, <2>2 DEF NonceInv, Greets, Greeted
  <1>10. CASE DevGreets
    <2>1. PICK n \in Nonces :
            /\ dev' = [dev EXCEPT !.phase = "greeted", !.nonce = n,
                                  !.seq = Head(toDev).seq]
            /\ Deliver(InMessage(Greeting, LocalKey, n, "blank"))
      BY <1>10 DEF DevGreets
    <2>2. /\ InMessage(Greeting, LocalKey, n, "blank") \in InFrame
          /\ InMessage(Greeting, LocalKey, n, "blank").nonce = n
      BY KeyTypes, InMessageType DEF AnyNonce, Status, InMessage
    <2>3. dev'.nonce = n /\ UNCHANGED <<pc, inFrame, linked, hmacKey>>
      BY <1>10, <2>1 DEF TypeOK, DevGreets, DevTakes, ctlVars
    <2> QED
      BY <1>9, <2>1, <2>2, <2>3
  <1>11. ASSUME NEW l \in Light, DevReports(l),
                dev'.phase = dev.phase, dev'.nonce = dev.nonce,
                UNCHANGED <<pc, inFrame, linked, hmacKey>>
         PROVE  NonceInv'
    <2>1. /\ Deliver(InMessage(Report, SessionKey(dev.nonce), NoNonce, l))
          /\ InMessage(Report, SessionKey(dev.nonce), NoNonce, l) \in InFrame
          /\ InMessage(Report, SessionKey(dev.nonce), NoNonce, l).cmd = Report
      BY <1>11, KeyTypes, InMessageType
         DEF DevReports, TypeOK, AnyNonce, Status, InMessage
    <2> QED
      BY <1>9, <1>11, <2>1 DEF NonceInv
  <1>12. CASE DevObeys
    <2>1. DevReports("off") /\ dev'.phase = dev.phase /\ dev'.nonce = dev.nonce
      BY <1>12 DEF DevObeys, TypeOK
    <2>2. UNCHANGED <<pc, inFrame, linked, hmacKey>>
      BY <1>12 DEF DevObeys, DevTakes, ctlVars
    <2> QED
      BY <1>11, <2>1, <2>2 DEF Light
  <1>13. CASE DevSwitched
    BY <1>11, <1>13 DEF DevSwitched, ctlVars
  <1>14. CASE DevLinks \/ DevIgnores
    <2>1. /\ UNCHANGED <<pc, inFrame, linked, hmacKey, toCtl>>
          /\ dev'.nonce = dev.nonce
          /\ dev'.phase # "idle" => dev.phase # "idle"
      <3>1. CASE DevLinks
        BY <3>1, TakeEffect DEF DevLinks, DevTakes, Acceptable, TypeOK, ctlVars
      <3>2. CASE DevIgnores
        BY <3>2 DEF DevIgnores, DevTakes, TypeOK, ctlVars
      <3> QED
        BY <1>14, <3>1, <3>2
    <2> QED
      BY <2>1 DEF NonceInv, Greets, Greeted
  <1>15. CASE DevDown
    <2>1. /\ UNCHANGED <<pc, inFrame, linked, hmacKey>> /\ dev'.phase = "idle"
          /\ toCtl' = toCtl \/ toCtl' = <<>>
      BY <1>15 DEF DevDown, Gone, Fresh, ctlVars
    <2> QED
      BY <2>1 DEF NonceInv, Greets, Greeted
  <1> QED
    BY <1>1, <1>2, <1>3, <1>4, <1>5, <1>6, <1>7, <1>8, <1>10, <1>12, <1>13,
       <1>14, <1>15, <1>16 DEF Next, LoopTask, Bulb, Environment

LEMMA NonceInvariant == Spec => []NonceInv
  <1>1. Init => NonceInv
    <2> SUFFICES ASSUME Init PROVE NonceInv
      OBVIOUS
    <2>1. pc = "wifi" /\ ~linked /\ toCtl = <<>> /\ dev.phase = "idle"
      BY DEF Init, Gone, Fresh
    <2> QED
      BY <2>1 DEF NonceInv, Greeted
  <1>2. TypeOK /\ NonceInv /\ [Next]_vars => NonceInv'
    BY NonceStep
  <1> QED
    BY <1>1, <1>2, TypeCorrect, PTL DEF Spec

LinkInv == TypeOK /\ HandshakeInv /\ CommandOnce /\ NonceInv

(* What does not touch the links or the command is invisible.              *)
LEMMA LinkStutters ==
  ASSUME UNCHANGED <<linked, hmacKey, once, applied>>,
         UNCHANGED dev \/ (dev.phase # "linked" /\ dev'.phase # "linked")
           \/ (dev'.phase = dev.phase /\ dev'.nonce = dev.nonce)
  PROVE  UNCHANGED <<CtlNonce, BulbNonce, CommandState>>
  BY DEF CtlNonce, BulbNonce, CommandState

LEMMA LinkStep ==
  ASSUME LinkInv, [Next]_vars
  PROVE  [Link!LinkNext]_<<CtlNonce, BulbNonce, CommandState>>
  <1> USE DEF LinkInv
  <1>1. CASE ConnectWifi \/ StayInSession \/ LeaveSession \/ CheckSocket
             \/ CheckSignal \/ ReceiveNothing \/ Receive \/ SkipDPS
             \/ SendLocalNonce
    BY <1>1, LinkStutters DEF ConnectWifi, StayInSession, LeaveSession,
       CheckSocket, CheckSignal, ReceiveNothing, Receive, SkipDPS,
       SendLocalNonce, devVars
  <1>2. CASE HandleReport \/ HandleUnknown
    BY <1>2, LinkStutters DEF HandleReport, HandleUnknown, HandleDone, devVars
  <1>3. CASE DevSwitched \/ WifiDown \/ WifiUp \/ DevBack \/ SockDown
    BY <1>3, LinkStutters DEF DevSwitched, WifiDown, WifiUp, DevBack,
       SockDown, ctlVars, devVars
  <1>4. CASE UNCHANGED vars
    BY <1>4, LinkStutters DEF vars, ctlVars, devVars
  <1>5. CASE NewSession
    <2>1. CtlNonce' = NoNonce
      BY <1>5 DEF NewSession, CtlNonce
    <2>2. UNCHANGED <<BulbNonce, CommandState>>
      BY <1>5 DEF NewSession, devVars, BulbNonce, CommandState
    <2> QED
      BY <2>1, <2>2 DEF Link!LinkNext, Link!Part
  <1>6. CASE ConnectDevice
    <2>1. CtlNonce' = NoNonce
      BY <1>6 DEF ConnectDevice, CtlNonce
    <2>2. CommandState' = CommandState
      BY <1>6 DEF ConnectDevice, CommandState
    <2>3. BulbNonce' = BulbNonce \/ BulbNonce' = NoNonce
      BY <1>6 DEF ConnectDevice, Dial, Fresh, BulbNonce
    <2> QED
      BY <2>1, <2>2, <2>3 DEF Link!LinkNext, Link!Part
  <1>7. CASE HandleGreeting
    <2>1. ~linked /\ dev.phase # "linked"
      <3>1. Attached /\ Greeted
        BY <1>7 DEF HandleGreeting, Attached, Greeted, Greets
      <3> QED
        BY <3>1 DEF HandshakeInv, OneGreeting, Waiting
    <2>2. /\ linked' = TRUE /\ hmacKey' = SessionKey(DecodedNonce(inFrame, hmacKey))
          /\ UNCHANGED <<dev, once, applied>>
      BY <1>7 DEF HandleGreeting, HandleDone, devVars
    <2>3. inFrame.nonce \in Nonces
      BY <1>7 DEF HandleGreeting, NonceInv, Greeted, Greets
    <2>4. CtlNonce' \in Nonces \union {Garbage}
      BY <2>2, <2>3 DEF CtlNonce, DecodedNonce, SessionKey, Key
    <2>5. CtlNonce = NoNonce /\ BulbNonce = NoNonce
      BY <2>1 DEF CtlNonce, BulbNonce
    <2>6. UNCHANGED <<BulbNonce, CommandState>>
      BY <2>2 DEF BulbNonce, CommandState
    <2> QED
      BY <2>4, <2>5, <2>6 DEF Link!LinkNext, Link!Take
  <1>8. CASE SetDPS
    <2>1. /\ linked /\ ~once /\ once' = TRUE
          /\ UNCHANGED <<linked, hmacKey, dev, applied>>
      BY <1>8 DEF SetDPS, devVars
    <2>2. applied = 0
      BY <2>1 DEF CommandOnce
    <2>3. CommandState = "kept" /\ CommandState' = "given"
      BY <2>1, <2>2 DEF CommandState
    <2>4. CtlNonce # NoNonce
      BY <2>1 DEF CtlNonce, NonceInv
    <2>5. UNCHANGED <<CtlNonce, BulbNonce>>
      BY <2>1 DEF CtlNonce, BulbNonce
    <2> QED
      BY <2>3, <2>4, <2>5 DEF Link!LinkNext, Link!Give
  <1>9. CASE DevGreets
    <2>1. dev.phase # "linked"
      BY <1>9 DEF DevGreets, DevTakes, Acceptable
    <2>2. dev'.phase = "greeted"
      BY <1>9 DEF DevGreets, TypeOK
    <2>3. UNCHANGED <<linked, hmacKey, once, applied>>
      BY <1>9 DEF DevGreets, DevTakes, ctlVars
    <2> QED
      BY <2>1, <2>2, <2>3, LinkStutters
  <1>10. CASE DevIgnores
    <2>1. dev'.phase = dev.phase /\ dev'.nonce = dev.nonce
      BY <1>10 DEF DevIgnores, TypeOK
    <2>2. UNCHANGED <<linked, hmacKey, once, applied>>
      BY <1>10 DEF DevIgnores, DevTakes, ctlVars
    <2> QED
      BY <2>1, <2>2, LinkStutters
  <1>11. CASE DevLinks
    <2>1. /\ dev.phase = "greeted" /\ dev'.phase = "linked"
          /\ dev'.nonce = dev.nonce
          /\ toDev # <<>> /\ Head(toDev).cmd = Finish
          /\ Head(toDev).nonce = dev.nonce
          /\ UNCHANGED <<linked, hmacKey, once, applied>>
      BY <1>11 DEF DevLinks, DevTakes, Acceptable, TypeOK, ctlVars
    <2>2. 1 \in 1..Len(toDev) /\ Head(toDev) = toDev[1]
      BY <2>1 DEF TypeOK
    <2>3. linked => hmacKey = SessionKey(dev.nonce)
      BY <2>1, <2>2 DEF HandshakeInv, LinkedKey
    <2>4. CtlNonce \in {NoNonce, dev.nonce} /\ CtlNonce' = CtlNonce
      BY <2>1, <2>3 DEF CtlNonce, SessionKey, Key
    <2>5. dev.nonce \in Nonces /\ BulbNonce = NoNonce /\ BulbNonce' = dev.nonce
      BY <2>1 DEF NonceInv, BulbNonce
    <2>6. CommandState' = CommandState
      BY <2>1 DEF CommandState
    <2> QED
      BY <2>4, <2>5, <2>6 DEF Link!LinkNext, Link!Follow
  <1>12. CASE DevObeys
    <2>1. /\ dev.phase = "linked" /\ dev'.phase = dev.phase
          /\ dev'.nonce = dev.nonce
          /\ toDev # <<>> /\ toDev' = Tail(toDev) /\ Head(toDev).cmd = Control
          /\ applied' = applied + 1 /\ UNCHANGED <<linked, hmacKey, once>>
      BY <1>12 DEF DevObeys, DevTakes, Acceptable, TypeOK, ctlVars
    <2>2. Commands # {}
      BY <2>1, CommandTakes
    <2>3. applied = 0 /\ once
      <3>1. applied \in {0, 1} /\ applied # 1 /\ once \in BOOLEAN
        BY <2>2 DEF CommandOnce, TypeOK
      <3> QED
        BY <2>2, <3>1 DEF CommandOnce
    <2>4. CommandState = "given" /\ CommandState' = "obeyed"
      BY <2>1, <2>3 DEF CommandState
    <2>5. BulbNonce # NoNonce
      BY <2>1 DEF BulbNonce, NonceInv
    <2>6. UNCHANGED <<CtlNonce, BulbNonce>>
      BY <2>1 DEF CtlNonce, BulbNonce
    <2> QED
      BY <2>4, <2>5, <2>6 DEF Link!LinkNext, Link!Obey
  <1>13. CASE DevDown
    <2>1. dev'.phase = "idle" /\ UNCHANGED <<linked, hmacKey, once, applied>>
      BY <1>13 DEF DevDown, Gone, Fresh, ctlVars
    <2>2. BulbNonce' = NoNonce
      BY <2>1 DEF BulbNonce
    <2>3. UNCHANGED <<CtlNonce, CommandState>>
      BY <2>1 DEF CtlNonce, CommandState
    <2> QED
      BY <2>2, <2>3 DEF Link!LinkNext, Link!Part
  <1> QED
    BY <1>1, <1>2, <1>3, <1>4, <1>5, <1>6, <1>7, <1>8, <1>9, <1>10, <1>11,
       <1>12, <1>13 DEF Next, LoopTask, Bulb, Environment

(* The session implements TuyaLink. *)
THEOREM SessionImplementsLink == Spec => ImplementsLink
  <1>1. Init => Link!LinkInit
    BY DEF Init, Gone, Fresh, Link!LinkInit, CtlNonce, BulbNonce, CommandState
  <1>2. LinkInv /\ [Next]_vars
          => [Link!LinkNext]_<<CtlNonce, BulbNonce, CommandState>>
    BY LinkStep
  <1>3. Spec => []LinkInv
    <2>1. TypeOK /\ HandshakeInv /\ CommandOnce /\ NonceInv => LinkInv
      BY DEF LinkInv
    <2> QED
      BY <2>1, TypeCorrect, HandshakeInvariant, CommandAtMostOnce,
         NonceInvariant, PTL
  <1> QED
    BY <1>1, <1>2, <1>3, PTL
       DEF Spec, ImplementsLink, Link!LinkSpec, Link!linkVars
-----------------------------------------------------------------------------
(* Clean histories *)

(* The frames for the bulb are in turn: the first is one it waits for, and *)
(* only the command may follow, behind the finish it depends on.           *)
InTurn ==
  /\ toDev # <<>> => Acceptable(toDev[1])
  /\ \A i \in 2..Len(toDev) :
       /\ i = 2 /\ toDev[1].cmd = Finish
       /\ toDev[2].cmd = Control /\ toDev[2].key = SessionKey(dev.nonce)

(* A greeting on its way is about the nonce the bulb waits to be answered  *)
(* with, and is read whole.                                                *)
Answers(f) ==
  dev.phase = "greeted" /\ f.key = LocalKey /\ f.nonce = dev.nonce

GreetingKept ==
  sock =>
    /\ \A i \in 1..Len(toCtl) : Greets(toCtl[i]) => Answers(toCtl[i])
    /\ Greeted => Answers(inFrame) /\ inFrame.part = "whole"

(* The finish of a linked session has not been dropped. *)
LinkHeld ==
  sock /\ linked =>
    /\ hmacKey = SessionKey(dev.nonce)
    /\ \/ dev.phase = "linked"
       \/ toDev # <<>> /\ toDev[1].cmd = Finish

CleanInv == InTurn /\ GreetingKept /\ LinkHeld

LEMMA CleanQuiet ==
  ASSUME CleanInv, UNCHANGED <<dev, toDev>>,
         sock' => sock /\ toCtl' = toCtl,
         sock' /\ pc' = "handle" => pc = "handle" /\ inFrame' = inFrame,
         linked' => linked /\ hmacKey' = hmacKey
  PROVE  CleanInv'
  <1>1. InTurn'
    BY DEF CleanInv, InTurn, Acceptable
  <1>2. GreetingKept'
    BY DEF CleanInv, GreetingKept, Answers, Greeted, Greets
  <1>3. LinkHeld'
    BY DEF CleanInv, LinkHeld
  <1> QED
    BY <1>1, <1>2, <1>3 DEF CleanInv

(* Where nothing is lost unnoticed a write reaches the stream while the    *)
(* socket is open, and is not made once it is closed.                      *)
LEMMA CleanWrite ==
  ASSUME TypeOK, Noticed, NEW f \in OutFrame, Write(f)
  PROVE  /\ sock => /\ toDev' \in Seq(OutFrame) /\ toDev' # <<>>
                    /\ Len(toDev') = Len(toDev) + 1
                    /\ \A i \in 1..Len(toDev) : toDev'[i] = toDev[i]
                    /\ toDev'[Len(toDev) + 1] = f
         /\ ~sock => toDev' = toDev
  BY DEF TypeOK, Noticed, Write

LEMMA CleanConnect ==
  ASSUME TypeOK, CleanInv, ConnectDevice
  PROVE  CleanInv'
  <1>1. ~linked' /\ pc' = "hello"
    BY DEF ConnectDevice
  <1>2. CASE ~sock' /\ UNCHANGED <<dev, toDev>>
    BY <1>1, <1>2, CleanQuiet
  <1>3. CASE toDev' = <<>> /\ toCtl' = <<>>
    BY <1>1, <1>3 DEF CleanInv, InTurn, GreetingKept, LinkHeld, Greeted
  <1> QED
    BY <1>2, <1>3 DEF ConnectDevice, Dial

LEMMA CleanHello ==
  ASSUME TypeOK, HandshakeInv, CleanInv, Noticed, SendLocalNonce
  PROVE  CleanInv'
  <1>1. /\ pc = "hello" /\ pc' = "signal"
        /\ UNCHANGED <<dev, toCtl, sock, linked, hmacKey, inFrame>>
    BY DEF SendLocalNonce, devVars, netVars
  <1>2. CASE ~sock
    <2>1. toDev' = toDev
      BY <1>2 DEF SendLocalNonce
    <2> QED
      BY <1>1, <2>1, CleanQuiet
  <1>3. CASE sock
    <2> DEFINE f == OutMessage(Hello, NoNonce)
    <2>1. /\ toDev = <<>> /\ toCtl = <<>> /\ dev.phase = "idle"
          /\ ~linked /\ hmacKey = LocalKey
      BY <1>1, <1>3 DEF HandshakeInv, BeforeHello
    <2>2. f \in OutFrame /\ f.cmd = Hello /\ f.key = LocalKey
      BY <2>1, OutMessageType DEF AnyNonce
    <2>3. Write(f)
      BY <1>3 DEF SendLocalNonce
    <2> HIDE DEF f
    <2>4. Len(toDev') = 1 /\ toDev'[1] = f
      BY <1>3, <2>1, <2>2, <2>3, CleanWrite
    <2>5. InTurn'
      BY <1>1, <2>1, <2>2, <2>4 DEF InTurn, Acceptable
    <2> QED
      BY <1>1, <2>1, <2>5 DEF CleanInv, GreetingKept, LinkHeld, Greeted
  <1> QED
    BY <1>2, <1>3

LEMMA CleanReceive ==
  ASSUME TypeOK, CleanInv, WholeFrames, Receive
  PROVE  CleanInv'
  <1>1. UNCHANGED <<dev, toDev, sock, linked, hmacKey>> /\ pc' = "handle"
    BY DEF Receive, devVars, netVars
  <1>2. /\ toCtl \in Seq(InFrame) /\ 1 \in 1..Len(toCtl)
        /\ inFrame'.cmd = toCtl[1].cmd /\ inFrame'.key = toCtl[1].key
        /\ inFrame'.nonce = toCtl[1].nonce
        /\ \A i \in 1..Len(toCtl') : \E j \in 1..Len(toCtl) :
             toCtl'[i] = toCtl[j]
    BY ReceiveEffect DEF TypeOK
  <1>3. inFrame'.part = "whole" /\ toCtl[1].part = "whole"
    BY <1>2 DEF WholeFrames, Receive, FirstFrame
  <1>4. ASSUME sock PROVE GreetingKept'
    <2>1. \A i \in 1..Len(toCtl) : Greets(toCtl[i]) => Answers(toCtl[i])
      BY <1>4 DEF CleanInv, GreetingKept
    <2>2. \A i \in 1..Len(toCtl') : Greets(toCtl'[i]) => Answers(toCtl'[i])
      BY <1>2, <2>1
    <2>3. Greets(inFrame') => Answers(inFrame')
      BY <1>2, <1>3, <2>1 DEF Greets, Answers
    <2> QED
      BY <1>1, <1>3, <2>2, <2>3 DEF GreetingKept, Answers, Greets, Greeted
  <1>5. GreetingKept'
    BY <1>1, <1>4 DEF GreetingKept
  <1>6. InTurn' /\ LinkHeld'
    BY <1>1 DEF CleanInv, InTurn, Acceptable, LinkHeld
  <1> QED
    BY <1>5, <1>6 DEF CleanInv

(* The finish answers the nonce of the greeting; nothing is before it.     *)
LEMMA CleanGreeting ==
  ASSUME TypeOK, HandshakeInv, CleanInv, Noticed, HandleGreeting
  PROVE  CleanInv'
  <1> DEFINE n == DecodedNonce(inFrame, hmacKey)
             f == OutMessage(Finish, n)
  <1>1. /\ pc' = "dps" /\ Write(f) /\ hmacKey' = SessionKey(n)
        /\ UNCHANGED <<dev, toCtl, sock>>
    BY DEF HandleGreeting, HandleDone, devVars, netVars
  <1>2. Attached /\ Greeted /\ Greets(inFrame)
    BY DEF HandleGreeting, Attached, Greeted, Greets
  <1>3. Waiting /\ \A i \in 1..Len(toCtl) : ~Greets(toCtl[i])
    BY <1>2 DEF HandshakeInv, OneGreeting
  <1>4. n \in AnyNonce
    BY <1>2, InFrameHandled, DecodedTypes DEF TypeOK, Greets
  <1>5. f \in OutFrame /\ f.cmd = Finish /\ f.nonce = n /\ f.key = LocalKey
    BY <1>3, <1>4, OutMessageType DEF Waiting
  <1>6. ASSUME sock PROVE dev.phase = "greeted" /\ n = dev.nonce
    BY <1>2, <1>3, <1>6
       DEF CleanInv, GreetingKept, Answers, DecodedNonce, Readable, Waiting
  <1> HIDE DEF n, f
  <1>7. GreetingKept'
    BY <1>1, <1>3 DEF GreetingKept, Greeted, Greets
  <1>8. CASE ~sock
    <2>1. toDev' = toDev
      BY <1>1, <1>5, <1>8, CleanWrite
    <2> QED
      BY <1>1, <1>7, <1>8, <2>1
         DEF CleanInv, InTurn, Acceptable, LinkHeld
  <1>9. CASE sock
    <2>1. Len(toDev') = 1 /\ toDev'[1] = f /\ toDev' # <<>>
      <3>1. Len(toDev) = 0
        BY <1>3 DEF Waiting
      <3> QED
        BY <1>1, <1>5, <1>9, <3>1, CleanWrite
    <2>2. InTurn'
      BY <1>1, <1>5, <1>6, <1>9, <2>1 DEF InTurn, Acceptable
    <2>3. LinkHeld'
      BY <1>1, <1>5, <1>6, <1>9, <2>1 DEF LinkHeld
    <2> QED
      BY <1>7, <2>2, <2>3 DEF CleanInv
  <1> QED
    BY <1>8, <1>9

(* The command goes behind the finish, or to a bulb that has linked; it is *)
(* the first, so that there is no other it could follow.                   *)
LEMMA CleanSetDPS ==
  ASSUME TypeOK, CommandOnce, CleanInv, Noticed, SetDPS
  PROVE  CleanInv'
  <1> DEFINE f == OutMessage(Control, NoNonce)
  <1>1. /\ linked /\ ~once /\ pc' = "loop" /\ Write(f)
        /\ UNCHANGED <<dev, toCtl, sock, linked, hmacKey>>
    BY DEF SetDPS, devVars, netVars
  <1>2. f \in OutFrame /\ f.cmd = Control /\ f.key = hmacKey
    BY OutMessageType DEF AnyNonce
  <1> HIDE DEF f
  <1>3. CASE ~sock
    <2>1. toDev' = toDev
      BY <1>1, <1>2, <1>3, CleanWrite
    <2> QED
      BY <1>1, <1>3, <2>1, CleanQuiet
  <1>4. CASE sock
    <2>1. hmacKey = SessionKey(dev.nonce)
      BY <1>1, <1>4 DEF CleanInv, LinkHeld
    <2>2. \A i \in 1..Len(toDev) : toDev[i].cmd # Control
      BY <1>1 DEF CommandOnce, Commands
    <2>3. Len(toDev) \in Nat /\ (toDev # <<>> => 1 \in 1..Len(toDev))
      BY DEF TypeOK
    <2>4. Len(toDev) \in {0, 1}
      <3>1. ~(Len(toDev) >= 2)
        <4> SUFFICES ASSUME Len(toDev) >= 2 PROVE FALSE
          OBVIOUS
        <4>1. 2 \in 2..Len(toDev) /\ 2 \in 1..Len(toDev)
          BY <2>3
        <4> QED
          BY <2>2, <4>1 DEF CleanInv, InTurn
      <3> QED
        BY <2>3, <3>1
    <2>5. /\ toDev' # <<>> /\ Len(toDev') = Len(toDev) + 1
          /\ \A i \in 1..Len(toDev) : toDev'[i] = toDev[i]
          /\ toDev'[Len(toDev) + 1] = f
      BY <1>1, <1>2, <1>4, CleanWrite
    <2>6. GreetingKept'
      BY <1>1 DEF CleanInv, GreetingKept, Answers, Greeted, Greets
    <2>7. CASE toDev = <<>>
      <3>1. dev.phase = "linked" /\ Len(toDev') = 1 /\ toDev'[1] = f
        BY <1>1, <1>4, <2>5, <2>7 DEF CleanInv, LinkHeld
      <3>2. InTurn'
        BY <1>1, <1>2, <2>1, <3>1 DEF InTurn, Acceptable
      <3>3. LinkHeld'
        BY <1>1, <2>1, <3>1 DEF LinkHeld
      <3> QED
        BY <2>6, <3>2, <3>3 DEF CleanInv
    <2>8. CASE toDev # <<>>
      <3>1. /\ Len(toDev) = 1 /\ Len(toDev') = 2
            /\ toDev'[1] = toDev[1] /\ toDev'[2] = f
        BY <2>3, <2>4, <2>5, <2>8
      <3>2. Acceptable(toDev[1]) /\ toDev[1].cmd # Control
        BY <2>2, <2>3, <2>8 DEF CleanInv, InTurn
      <3>3. dev.phase = "linked" \/ toDev[1].cmd = Finish
        BY <1>1, <1>4 DEF CleanInv, LinkHeld
      <3>4. toDev[1].cmd = Finish
        BY <3>2, <3>3 DEF Acceptable
      <3>5. InTurn'
        BY <1>1, <1>2, <2>1, <3>1, <3>2, <3>4 DEF InTurn, Acceptable
      <3>6. LinkHeld'
        BY <1>1, <2>1, <2>5, <3>1, <3>4 DEF LinkHeld
      <3> QED
        BY <2>6, <3>5, <3>6 DEF CleanInv
    <2> QED
      BY <2>7, <2>8
  <1> QED
    BY <1>3, <1>4

(* The bulb takes the first frame, and the next is in turn after it. *)
LEMMA CleanTakes ==
  ASSUME TypeOK, InTurn, NEW cmd \in {Hello, Finish, Control}, DevTakes(cmd)
  PROVE  /\ toDev # <<>> /\ Head(toDev) = toDev[1] /\ toDev[1].cmd = cmd
         /\ Acceptable(toDev[1])
         /\ cmd # Finish => toDev' = <<>>
         /\ Len(toDev') \in {0, 1}
         /\ toDev' # <<>> => /\ toDev'[1].cmd = Control
                             /\ toDev'[1].key = SessionKey(dev.nonce)
         /\ UNCHANGED <<pc, inFrame, linked, hmacKey, sock>>
  <1>1. /\ toDev # <<>> /\ Head(toDev).cmd = cmd /\ toDev' = Tail(toDev)
        /\ UNCHANGED <<pc, inFrame, linked, hmacKey, sock>>
    BY DEF DevTakes, ctlVars, netVars
  <1>2. /\ toDev' \in Seq(OutFrame) /\ Len(toDev) \in Nat
        /\ Head(toDev) = toDev[1] /\ Len(toDev') = Len(toDev) - 1
        /\ \A i \in 1..Len(toDev') : toDev'[i] = toDev[i + 1]
    BY <1>1, TakeEffect DEF TypeOK
  <1>3. Acceptable(toDev[1])
    BY <1>1 DEF InTurn
  <1>4. \A i \in 2..Len(toDev) :
          /\ i = 2 /\ toDev[1].cmd = Finish
          /\ toDev[2].cmd = Control /\ toDev[2].key = SessionKey(dev.nonce)
    BY DEF InTurn
  <1>5. ~(Len(toDev) >= 3)
    <2> SUFFICES ASSUME Len(toDev) >= 3 PROVE FALSE
      OBVIOUS
    <2>1. 3 \in 2..Len(toDev)
      BY <1>2
    <2> QED
      BY <1>4, <2>1
  <1>6. Len(toDev') \in {0, 1}
    BY <1>2, <1>5
  <1>7. ASSUME toDev' # <<>>
        PROVE  /\ cmd = Finish /\ toDev'[1].cmd = Control
               /\ toDev'[1].key = SessionKey(dev.nonce)
    <2>1. Len(toDev') = 1 /\ 2 \in 2..Len(toDev)
      BY <1>2, <1>6, <1>7
    <2>2. toDev'[1] = toDev[2]
      BY <1>2, <2>1
    <2> QED
      BY <1>1, <1>2, <1>4, <2>1, <2>2
  <1> QED
    BY <1>1, <1>2, <1>3, <1>6, <1>7

LEMMA CleanGreets ==
  ASSUME TypeOK, HandshakeInv, CleanInv, DevGreets
  PROVE  CleanInv'
  <1>1. PICK n \in Nonces :
          /\ dev' = [dev EXCEPT !.phase = "greeted", !.nonce = n,
                                !.seq = Head(toDev).seq]
          /\ Deliver(InMessage(Greeting, LocalKey, n, "blank"))
    BY DEF DevGreets
  <1> DEFINE f == InMessage(Greeting, LocalKey, n, "blank")
  <1>2. f \in InFrame /\ f.key = LocalKey /\ f.nonce = n
    BY KeyTypes, InMessageType DEF AnyNonce, Status, InMessage
  <1>3. DevTakes(Hello)
    BY DEF DevGreets
  <1>4. /\ toDev # <<>> /\ toDev[1].cmd = Hello /\ toDev' = <<>>
        /\ UNCHANGED <<pc, inFrame, linked, hmacKey, sock>>
    BY <1>3, CleanTakes DEF CleanInv, Hello, Finish
  <1>5. dev'.phase = "greeted" /\ dev'.nonce = n
    BY <1>1 DEF TypeOK
  <1> HIDE DEF f
  <1>6. /\ toCtl \in Seq(InFrame) /\ toCtl' \in Seq(InFrame)
        /\ \A i \in 1..Len(toCtl) : toCtl'[i] = toCtl[i]
        /\ \A i \in 1..Len(toCtl') :
             i > Len(toCtl) => toCtl'[i].key = f.key /\ toCtl'[i].nonce = f.nonce
    BY <1>1, <1>2, DeliverEffect DEF TypeOK, f
  <1>7. 1 \in 1..Len(toDev)
    BY <1>4 DEF TypeOK
  <1>8. ASSUME sock PROVE GreetingKept' /\ ~linked
    <2>1. /\ ~linked /\ ~Greeted
          /\ \A j \in 1..Len(toCtl) : ~Greets(toCtl[j])
      BY <1>4, <1>7, <1>8 DEF HandshakeInv, OneHello, Attached
    <2>2. \A i \in 1..Len(toCtl') : Greets(toCtl'[i]) =>
            /\ dev'.phase = "greeted" /\ toCtl'[i].key = LocalKey
            /\ toCtl'[i].nonce = dev'.nonce
      <3> SUFFICES ASSUME NEW i \in 1..Len(toCtl'), Greets(toCtl'[i])
                   PROVE  toCtl'[i].key = LocalKey /\ toCtl'[i].nonce = n
        BY <1>5
      <3>1. ~(i \in 1..Len(toCtl))
        BY <1>6, <2>1
      <3>2. toCtl'[i].key = f.key /\ toCtl'[i].nonce = f.nonce
        BY <1>6, <3>1
      <3> QED
        BY <1>2, <3>2
    <2>3. ~Greeted'
      BY <1>4, <2>1 DEF Greeted, Greets
    <2> QED
      BY <2>1, <2>2, <2>3 DEF GreetingKept, Greets, Answers
  <1>9. GreetingKept'
    BY <1>4, <1>8 DEF GreetingKept
  <1>10. InTurn'
    BY <1>4 DEF InTurn
  <1>11. LinkHeld'
    BY <1>4, <1>8 DEF LinkHeld
  <1> QED
    BY <1>9, <1>10, <1>11 DEF CleanInv

LEMMA CleanLinks ==
  ASSUME TypeOK, HandshakeInv, CleanInv, DevLinks
  PROVE  CleanInv'
  <1>1. DevTakes(Finish) /\ UNCHANGED toCtl
    BY DEF DevLinks
  <1>2. /\ toDev # <<>> /\ toDev[1].cmd = Finish
        /\ Len(toDev') \in {0, 1}
        /\ toDev' # <<>> => /\ toDev'[1].cmd = Control
                            /\ toDev'[1].key = SessionKey(dev.nonce)
        /\ UNCHANGED <<pc, inFrame, linked, hmacKey, sock>>
    BY <1>1, CleanTakes DEF CleanInv
  <1>3. dev'.phase = "linked" /\ dev'.nonce = dev.nonce
    BY DEF DevLinks, TypeOK
  <1>4. 1 \in 1..Len(toDev)
    BY <1>2 DEF TypeOK
  <1>5. InTurn'
    BY <1>2, <1>3 DEF InTurn, Acceptable
  <1>6. LinkHeld'
    BY <1>2, <1>3 DEF CleanInv, LinkHeld
  <1>7. ASSUME sock PROVE GreetingKept'
    <2>1. linked
      BY <1>2, <1>4, <1>7 DEF HandshakeInv, AfterGreeting, Attached
    <2>2. ~Greeted /\ \A i \in 1..Len(toCtl) : ~Greets(toCtl[i])
      BY <1>7, <2>1 DEF HandshakeInv, OneGreeting, Waiting, Attached
    <2> QED
      BY <1>1, <1>2, <2>2 DEF GreetingKept, Greeted, Greets
  <1>8. GreetingKept'
    BY <1>2, <1>7 DEF GreetingKept
  <1> QED
    BY <1>5, <1>6, <1>8 DEF CleanInv

(* A report is not a greeting, and changes neither nonce nor phase. *)
LEMMA CleanReport ==
  ASSUME TypeOK, CleanInv, NEW l \in Light, DevReports(l),
         toDev' \in {toDev, <<>>}, dev.phase = "linked",
         dev'.phase = dev.phase, dev'.nonce = dev.nonce,
         UNCHANGED <<pc, inFrame, linked, hmacKey, sock>>
  PROVE  CleanInv'
  <1> DEFINE f == InMessage(Report, SessionKey(dev.nonce), NoNonce, l)
  <1>1. f \in InFrame /\ f.cmd = Report /\ Deliver(f)
    BY KeyTypes, InMessageType
       DEF DevReports, TypeOK, AnyNonce, Status, InMessage
  <1> HIDE DEF f
  <1>2. /\ toCtl \in Seq(InFrame) /\ toCtl' \in Seq(InFrame)
        /\ \A i \in 1..Len(toCtl) : toCtl'[i] = toCtl[i]
        /\ \A i \in 1..Len(toCtl') : i > Len(toCtl) => toCtl'[i].cmd = Report
    BY <1>1, DeliverEffect DEF TypeOK
  <1>3. ASSUME sock
        PROVE  \A i \in 1..Len(toCtl') :
                 Greets(toCtl'[i]) => Answers(toCtl'[i])
    <2>1. \A i \in 1..Len(toCtl) : Greets(toCtl[i]) => Answers(toCtl[i])
      BY <1>3 DEF CleanInv, GreetingKept
    <2> SUFFICES ASSUME NEW i \in 1..Len(toCtl'), Greets(toCtl'[i])
                 PROVE  Answers(toCtl'[i])
      OBVIOUS
    <2>2. i \in 1..Len(toCtl) /\ toCtl'[i] = toCtl[i]
      BY <1>2 DEF Greets, Greeting, Report
    <2> QED
      BY <2>1, <2>2
  <1>4. GreetingKept'
    BY <1>3 DEF CleanInv, GreetingKept, Greeted, Greets, Answers
  <1>5. InTurn'
    <2>1. CASE toDev' = <<>>
      BY <2>1 DEF InTurn
    <2>2. CASE toDev' = toDev
      BY <2>2 DEF CleanInv, InTurn, Acceptable
    <2> QED
      BY <2>1, <2>2
  <1>6. LinkHeld'
    BY DEF CleanInv, LinkHeld
  <1> QED
    BY <1>4, <1>5, <1>6 DEF CleanInv

LEMMA CleanStep ==
  ASSUME TypeOK, HandshakeInv, CommandOnce, Noticed, Noticed', WholeFrames,
         CleanInv, [Next]_vars
  PROVE  CleanInv'
  <1>1. CASE ConnectWifi \/ StayInSession \/ LeaveSession \/ CheckSocket
             \/ CheckSignal \/ ReceiveNothing \/ SkipDPS
    <2>1. UNCHANGED <<dev, toDev, toCtl, linked, hmacKey>>
      BY <1>1 DEF ConnectWifi, StayInSession, LeaveSession, CheckSocket,
         CheckSignal, ReceiveNothing, SkipDPS, devVars
    <2>2. pc' # "handle"
      BY <1>1 DEF ConnectWifi, StayInSession, LeaveSession, CheckSocket,
         CheckSignal, ReceiveNothing, SkipDPS
    <2>3. sock' = sock \/ ~sock'
      BY <1>1 DEF ConnectWifi, StayInSession, LeaveSession, CheckSocket,
         CheckSignal, ReceiveNothing, SkipDPS, netVars
    <2> QED
      BY <2>1, <2>2, <2>3, CleanQuiet
  <1>2. CASE NewSession
    BY <1>2, CleanQuiet DEF NewSession, devVars, netVars
  <1>3. CASE HandleReport \/ HandleUnknown
    BY <1>3, CleanQuiet
       DEF HandleReport, HandleUnknown, HandleDone, devVars, netVars
  <1>4. CASE WifiDown \/ WifiUp \/ DevBack \/ SockDown
    <2>1. /\ UNCHANGED <<dev, toDev, toCtl, pc, inFrame, linked, hmacKey>>
          /\ sock' => sock
      BY <1>4 DEF WifiDown, WifiUp, DevBack, SockDown, LosePath, ctlVars,
         devVars, netVars
    <2> QED
      BY <2>1, CleanQuiet
  <1>5. CASE UNCHANGED vars
    BY <1>5, CleanQuiet DEF vars, ctlVars, devVars, netVars
  <1>6. CASE DevDown
    <2>1. ~dev'.conn /\ toDev' = <<>>
      BY <1>6 DEF DevDown, Gone, Fresh
    <2>2. ~sock'
      BY <2>1 DEF Noticed
    <2> QED
      BY <2>1, <2>2 DEF CleanInv, InTurn, GreetingKept, LinkHeld
  <1>7. CASE DevIgnores
    <2>1. PICK cmd \in {Hello, Finish, Control} : DevTakes(cmd)
      BY <1>7 DEF DevIgnores
    <2>2. Acceptable(toDev[1]) /\ Head(toDev) = toDev[1]
      BY <2>1, CleanTakes DEF CleanInv
    <2> QED
      BY <1>7, <2>2 DEF DevIgnores
  <1>8. CASE DevObeys
    <2>1. /\ DevTakes(Control) /\ Acceptable(Head(toDev)) /\ DevReports("off")
          /\ dev'.phase = dev.phase /\ dev'.nonce = dev.nonce
      BY <1>8 DEF DevObeys, TypeOK
    <2>2. /\ toDev' = <<>> /\ UNCHANGED <<pc, inFrame, linked, hmacKey, sock>>
          /\ Head(toDev) = toDev[1] /\ toDev[1].cmd = Control
      BY <2>1, CleanTakes DEF CleanInv, Finish, Control
    <2>3. dev.phase = "linked"
      BY <2>1, <2>2 DEF Acceptable, Hello, Finish, Control
    <2> QED
      BY <2>1, <2>2, <2>3, CleanReport DEF Light
  <1>9. CASE DevSwitched
    <2>1. PICK l \in Light : DevReports(l)
      BY <1>9 DEF DevSwitched
    <2>2. /\ UNCHANGED <<pc, inFrame, linked, hmacKey, sock, dev, toDev>>
          /\ dev.phase = "linked"
      BY <1>9 DEF DevSwitched, ctlVars, netVars
    <2> QED
      BY <2>1, <2>2, CleanReport
  <1> QED
    BY <1>1, <1>2, <1>3, <1>4, <1>5, <1>6, <1>7, <1>8, <1>9, CleanConnect,
       CleanHello, CleanReceive, CleanGreeting, CleanSetDPS, CleanGreets,
       CleanLinks DEF Next, LoopTask, Bulb, Environment

(* Where no loss goes unnoticed and no frame is split, the bulb can accept *)
(* every frame that reaches it: handshake and command arrive in order.     *)
THEOREM NothingIsRefused == Spec => NothingRefused
  <1>1. Init => CleanInv
    BY DEF Init, CleanInv, InTurn, GreetingKept, LinkHeld
  <1>2. TypeOK /\ HandshakeInv /\ CommandOnce /\ Noticed /\ Noticed'
          /\ WholeFrames /\ CleanInv /\ [Next]_vars => CleanInv'
    BY CleanStep
  <1>3. TypeOK /\ CleanInv => (toDev # <<>> => Acceptable(Head(toDev)))
    BY DEF TypeOK, CleanInv, InTurn
  <1>4. Spec /\ CleanHistory => [](toDev # <<>> => Acceptable(Head(toDev)))
    BY <1>1, <1>2, <1>3, TypeCorrect, HandshakeInvariant, CommandAtMostOnce,
       PTL DEF Spec, CleanHistory
  <1> QED
    BY <1>4 DEF NothingRefused
=============================================================================
