----------------------------- MODULE TuyaSession -----------------------------
(***************************************************************************)
(* The Cardputer's control loop (setup() in main/device/loop.cpp), the     *)
(* Tuya 3.4 session object it drives (main/device/session/TuyaSession.cpp  *)
(* and .hpp), the blocking network helpers under it                        *)
(* (main/device/hal/network.cpp) and, external to the repository, the Tuya *)
(* bulb and the TCP connection.                                            *)
(*                                                                         *)
(* The loop task is one thread, cut into a step wherever it looks at the   *)
(* outside world again: WiFi.status(), client.connected(), the receive     *)
(* buffer, a write.  Between two of its steps the WiFi, the socket, the    *)
(* bulb and the frames in flight may all have changed.                     *)
(***************************************************************************)
EXTENDS Naturals, Sequences

CONSTANTS
  Nonces,      \* the nonces the bulb may answer with
  NoNonce,     \* "no nonce": the bulb has not chosen one
  Garbage,     \* the nonce decoded from a frame that was not whole
  Splits,      \* TRUE: TCP may deliver a frame of the bulb in two parts
  MaxQueue     \* bound: parts of frames in flight towards the controller

ASSUME NonceAssumption ==
  /\ Nonces # {} /\ NoNonce \notin Nonces /\ Garbage \notin Nonces
  /\ NoNonce # Garbage
ASSUME ModeAssumption == Splits \in BOOLEAN
ASSUME QueueAssumption == MaxQueue \in Nat /\ MaxQueue >= 2

VARIABLES
  wifi,     \* WiFi.status() == WL_CONNECTED
  pc,       \* where the loop task is
  once,     \* the command went out; declared outside the loop of sessions
  sock,     \* client.connected()
  linked,   \* TuyaSession::linked
  seqNo,    \* TuyaSession::SEQ_NO
  hmacKey,  \* the 16 bytes at TuyaSession::hmac_key
  current,  \* TuyaSession::current, the last report of the bulb
  inFrame,  \* the frame at the start of inBuffer, while it is handled
  toDev,    \* TCP stream to the bulb, as frames
  toCtl,    \* TCP stream to the controller, as parts of frames
  devUp,    \* the bulb is powered and reachable
  dev,      \* the bulb's end of the last connection it accepted
  light,    \* data point 20 of the bulb
  applied   \* how often the bulb carried the controller's command out

ctlVars == <<pc, once, linked, seqNo, hmacKey, current, inFrame>>
netVars == <<wifi, sock>>
devVars == <<devUp, dev, light, applied>>
vars == <<ctlVars, netVars, devVars, toDev, toCtl>>
-----------------------------------------------------------------------------
(* Keys and frames *)

Key(kind, nonce) == [kind |-> kind, nonce |-> nonce]
ZeroKey == Key("zero", NoNonce)            \* calloc
LocalKey == Key("local", NoNonce)          \* tuya_local_key

(* encode_hmac_key: the local nonce is a constant of the program, so the   *)
(* session key is a function of the bulb's nonce.                          *)
SessionKey(n) == Key("session", n)

AnyNonce == Nonces \union {NoNonce, Garbage}
Keys == [kind : {"zero", "local", "session"}, nonce : AnyNonce]

Hello == 3      \* our nonce
Greeting == 4   \* the bulb's nonce
Finish == 5     \* HMAC of the bulb's nonce
Report == 8     \* status push
Control == 13   \* set data points

Light == {"on", "off"}
Status == Light \union {"blank"}
Part == {"whole", "head", "tail"}

OutFrame == [cmd : {Hello, Finish, Control}, seq : Nat, key : Keys,
             nonce : AnyNonce]
InFrame == [cmd : {Greeting, Report}, key : Keys, nonce : AnyNonce,
            status : Status, part : Part]

(* An empty inBuffer: no command any branch of handleSignal tests for. *)
NoFrame == [cmd |-> 0, key |-> ZeroKey, nonce |-> NoNonce,
            status |-> "blank", part |-> "tail"]

OutMessage(cmd, nonce) ==
  [cmd |-> cmd, seq |-> seqNo, key |-> hmacKey, nonce |-> nonce]

InMessage(cmd, key, nonce, status) ==
  [cmd |-> cmd, key |-> key, nonce |-> nonce, status |-> status,
   part |-> "whole"]

(* decryptDataECB with the right key over a whole frame gives what was     *)
(* encrypted; with any other key, or over bytes left in the buffer by an   *)
(* earlier frame, it gives noise.                                          *)
Readable(f, key) == f.part = "whole" /\ f.key = key

(* encode_remote_hmac: the bulb's nonce is decrypted in place and signed    *)
(* under the same key; a frame that carries the signature carries the nonce.*)
DecodedNonce(f, key) == IF Readable(f, key) THEN f.nonce ELSE Garbage

DecodedStatus(f, key) == IF Readable(f, key) THEN f.status ELSE "blank"

Fresh == [conn |-> TRUE, phase |-> "idle", nonce |-> NoNonce, seq |-> 0]
Gone == [Fresh EXCEPT !.conn = FALSE]
-----------------------------------------------------------------------------
Init ==
  /\ pc = "wifi" /\ once = FALSE
  /\ linked = FALSE /\ seqNo = 1 /\ hmacKey = ZeroKey
  /\ current = "blank" /\ inFrame = NoFrame
  /\ wifi = FALSE /\ sock = FALSE
  /\ devUp = TRUE /\ dev = Gone /\ light = "on" /\ applied = 0
  /\ toDev = <<>> /\ toCtl = <<>>

(* waitAndSend: dropped without a word when the WiFi is down; a write to a *)
(* closed socket, or to a bulb that has lost the connection, goes nowhere. *)
Write(f) ==
  toDev' = IF wifi /\ sock /\ dev.conn THEN Append(toDev, f) ELSE toDev

(* connectWifi: waits for the association, ten seconds at most; setup()    *)
(* ignores the result.                                                     *)
ConnectWifi ==
  /\ pc = "wifi"
  /\ wifi' \in {wifi, TRUE}
  /\ pc' = "session"
  /\ UNCHANGED <<once, linked, seqNo, hmacKey, current, inFrame, sock,
                 devVars, toDev, toCtl>>

(* With `once` declared beside the session it would be forgotten with it.  *)
NewSessionForgetsOnce ==
  /\ pc = "session"
  /\ linked' = FALSE /\ seqNo' = 1 /\ hmacKey' = ZeroKey
  /\ current' = "blank" /\ inFrame' = NoFrame /\ once' = FALSE
  /\ pc' = "loop"
  /\ UNCHANGED <<netVars, devVars, toDev, toCtl>>

(* auto session = th::TuyaSession(): everything of the last one is gone. *)
NewSession ==
  /\ pc = "session"
  /\ linked' = FALSE /\ seqNo' = 1 /\ hmacKey' = ZeroKey
  /\ current' = "blank" /\ inFrame' = NoFrame
  /\ pc' = "loop"
  /\ UNCHANGED <<once, netVars, devVars, toDev, toCtl>>

(* while (WiFi.status() == WL_CONNECTED) *)
StayInSession ==
  /\ pc = "loop" /\ wifi
  /\ pc' = "check"
  /\ UNCHANGED <<once, linked, seqNo, hmacKey, current, inFrame, netVars,
                 devVars, toDev, toCtl>>

(* The loop ends, and with the scope the session's WiFiClient: it closes.  *)
LeaveSession ==
  /\ pc = "loop" /\ ~wifi
  /\ sock' = FALSE
  /\ pc' = "wifi"
  /\ UNCHANGED <<once, linked, seqNo, hmacKey, current, inFrame, wifi,
                 devVars, toDev, toCtl>>

(* Asking available() where connected() is meant *)
CheckLinked ==
  /\ pc = "check"
  /\ pc' = IF linked THEN "signal" ELSE "connect"
  /\ UNCHANGED <<once, linked, seqNo, hmacKey, current, inFrame, netVars,
                 devVars, toDev, toCtl>>

(* if (!session.connected()) *)
CheckSocket ==
  /\ pc = "check"
  /\ pc' = IF sock THEN "signal" ELSE "connect"
  /\ UNCHANGED <<once, linked, seqNo, hmacKey, current, inFrame, netVars,
                 devVars, toDev, toCtl>>

(* Dialling without dropping what the last connection left unread *)
DialKeepsUnread ==
  IF wifi /\ devUp
  THEN sock' = TRUE /\ dev' = Fresh /\ toDev' = <<>> /\ UNCHANGED toCtl
  ELSE sock' = FALSE /\ UNCHANGED <<dev, toDev, toCtl>>

(* connectToDevice: a new TCP connection, with nothing in flight, if the   *)
(* bulb is within reach before the time is up.                             *)
Dial ==
  IF wifi /\ devUp
  THEN sock' = TRUE /\ dev' = Fresh /\ toDev' = <<>> /\ toCtl' = <<>>
  ELSE sock' = FALSE /\ UNCHANGED <<dev, toDev, toCtl>>

(* Without the last assignment of connectDevice *)
ConnectDeviceStillLinked ==
  /\ pc = "connect"
  /\ Dial
  /\ hmacKey' = LocalKey /\ seqNo' = 1
  /\ pc' = "hello"
  /\ UNCHANGED <<once, linked, current, inFrame, wifi, devUp, light, applied>>

(* connectDevice: the session starts over whether or not Dial got through. *)
ConnectDevice ==
  /\ pc = "connect"
  /\ Dial
  /\ hmacKey' = LocalKey /\ seqNo' = 1 /\ linked' = FALSE
  /\ pc' = "hello"
  /\ UNCHANGED <<once, current, inFrame, wifi, devUp, light, applied>>

(* sendLocalNonce, the only place that says hello *)
SendLocalNonce ==
  /\ pc = "hello"
  /\ IF sock THEN Write(OutMessage(Hello, NoNonce)) /\ seqNo' = seqNo + 1
             ELSE UNCHANGED <<toDev, seqNo>>
  /\ pc' = "signal"
  /\ UNCHANGED <<once, linked, hmacKey, current, inFrame, netVars, devVars,
                 toCtl>>

(* handleSignal begins: return if (!client.connected()) *)
CheckSignal ==
  /\ pc = "signal"
  /\ pc' = IF sock THEN "receive" ELSE "dps"
  /\ UNCHANGED <<once, linked, seqNo, hmacKey, current, inFrame, netVars,
                 devVars, toDev, toCtl>>

(* What is at offset 0 of inBuffer after k parts were read in one go. *)
FirstFrame(k) ==
  IF toCtl[1].part = "head" /\ k >= 2 THEN [toCtl[1] EXCEPT !.part = "whole"]
                                      ELSE toCtl[1]

(* waitForReceive reads all the bytes there are, one frame or several;     *)
(* handleSignal looks at the first frame only and forgets the rest.        *)
Receive ==
  /\ pc = "receive"
  /\ \E k \in 1..Len(toCtl) :
       /\ inFrame' = FirstFrame(k)
       /\ toCtl' = SubSeq(toCtl, k + 1, Len(toCtl))
  /\ pc' = "handle"
  /\ UNCHANGED <<once, linked, seqNo, hmacKey, current, netVars, devVars,
                 toDev>>

(* Nothing has arrived when the 100 ms are over or the WiFi or the socket  *)
(* is seen to be down: what is in flight is for a later round.             *)
ReceiveNothing ==
  /\ pc = "receive"
  /\ pc' = "dps"
  /\ UNCHANGED <<once, linked, seqNo, hmacKey, current, inFrame, netVars,
                 devVars, toDev, toCtl>>

HandleDone ==
  /\ inFrame' = NoFrame
  /\ pc' = "dps"
  /\ UNCHANGED <<once, netVars, devVars, toCtl>>

(* The key changed before the answer is signed *)
GreetingKeyFirst ==
  /\ pc = "handle" /\ inFrame.cmd = Greeting /\ inFrame.part # "tail"
  /\ LET n == DecodedNonce(inFrame, hmacKey) IN
       /\ Write([OutMessage(Finish, n) EXCEPT !.key = SessionKey(n)])
       /\ hmacKey' = SessionKey(n)
  /\ seqNo' = seqNo + 1
  /\ linked' = TRUE
  /\ HandleDone /\ UNCHANGED current

(* The key made from the nonce as received, still encrypted *)
GreetingRawNonce ==
  /\ pc = "handle" /\ inFrame.cmd = Greeting /\ inFrame.part # "tail"
  /\ Write(OutMessage(Finish, DecodedNonce(inFrame, hmacKey)))
  /\ hmacKey' = SessionKey(Garbage)
  /\ seqNo' = seqNo + 1
  /\ linked' = TRUE
  /\ HandleDone /\ UNCHANGED current

(* SEQ_NO in place of SEQ_NO++ *)
GreetingSameSeq ==
  /\ pc = "handle" /\ inFrame.cmd = Greeting /\ inFrame.part # "tail"
  /\ LET n == DecodedNonce(inFrame, hmacKey) IN
       /\ Write(OutMessage(Finish, n))
       /\ hmacKey' = SessionKey(n)
  /\ linked' = TRUE
  /\ HandleDone /\ UNCHANGED <<current, seqNo>>

(* Code 0x4: answer under the key of the hello, then change to the key     *)
(* made from the bulb's nonce and call the session linked.                 *)
HandleGreeting ==
  /\ pc = "handle" /\ inFrame.cmd = Greeting /\ inFrame.part # "tail"
  /\ LET n == DecodedNonce(inFrame, hmacKey) IN
       /\ Write(OutMessage(Finish, n))
       /\ hmacKey' = SessionKey(n)
  /\ seqNo' = seqNo + 1
  /\ linked' = TRUE
  /\ HandleDone /\ UNCHANGED current

(* The report taken as it came, without decrypting *)
HandleReportRaw ==
  /\ pc = "handle" /\ inFrame.cmd = Report /\ inFrame.part # "tail"
  /\ current' = inFrame.part
  /\ HandleDone /\ UNCHANGED <<linked, seqNo, hmacKey, toDev>>

(* Code 0x8: decrypt and parse into current; a document that does not      *)
(* parse leaves it empty.                                                  *)
HandleReport ==
  /\ pc = "handle" /\ inFrame.cmd = Report /\ inFrame.part # "tail"
  /\ current' = DecodedStatus(inFrame, hmacKey)
  /\ HandleDone /\ UNCHANGED <<linked, seqNo, hmacKey, toDev>>

(* The end of a frame whose start was read before: not a header. *)
HandleUnknown ==
  /\ pc = "handle" /\ inFrame.part = "tail"
  /\ HandleDone /\ UNCHANGED <<linked, seqNo, hmacKey, toDev, current>>

(* A command that does not wait for session.available() *)
SetDPSUnlinked ==
  /\ pc = "dps" /\ ~once
  /\ Write(OutMessage(Control, NoNonce))
  /\ seqNo' = seqNo + 1
  /\ once' = TRUE
  /\ pc' = "loop"
  /\ UNCHANGED <<linked, hmacKey, current, inFrame, netVars, devVars, toCtl>>

(* if (session.available() && !once): setDPS, and once whatever came of it *)
SetDPS ==
  /\ pc = "dps" /\ linked /\ ~once
  /\ Write(OutMessage(Control, NoNonce))
  /\ seqNo' = seqNo + 1
  /\ once' = TRUE
  /\ pc' = "loop"
  /\ UNCHANGED <<linked, hmacKey, current, inFrame, netVars, devVars, toCtl>>

SkipDPS ==
  /\ pc = "dps" /\ ~(linked /\ ~once)
  /\ pc' = "loop"
  /\ UNCHANGED <<once, linked, seqNo, hmacKey, current, inFrame, netVars,
                 devVars, toDev, toCtl>>

LoopTask ==
  \/ ConnectWifi \/ NewSession \/ StayInSession \/ LeaveSession
  \/ CheckSocket \/ ConnectDevice \/ SendLocalNonce \/ CheckSignal
  \/ Receive \/ ReceiveNothing
  \/ HandleGreeting \/ HandleReport \/ HandleUnknown
  \/ SetDPS \/ SkipDPS
-----------------------------------------------------------------------------
(* The bulb, as the session code expects it to behave (external). *)

(* A frame enters the stream whole or, if the transport may split it, as   *)
(* two parts that the controller may read at different times.              *)
Deliver(f) ==
  \/ /\ Len(toCtl) < MaxQueue
     /\ toCtl' = Append(toCtl, f)
  \/ /\ Splits /\ Len(toCtl) + 1 < MaxQueue
     /\ toCtl' = toCtl \o <<[f EXCEPT !.part = "head"],
                            [f EXCEPT !.part = "tail"]>>

(* What the bulb can do something with when it is next in the stream *)
Acceptable(f) ==
  \/ /\ f.cmd = Hello /\ f.key = LocalKey
     /\ dev.phase = "idle"
  \/ /\ f.cmd = Finish /\ f.key = LocalKey
     /\ dev.phase = "greeted" /\ f.nonce = dev.nonce
  \/ /\ f.cmd = Control /\ f.key = SessionKey(dev.nonce)
     /\ dev.phase = "linked"

DevTakes(cmd) ==
  /\ devUp /\ dev.conn /\ toDev # <<>>
  /\ Head(toDev).cmd = cmd
  /\ toDev' = Tail(toDev)
  /\ UNCHANGED <<ctlVars, netVars, devUp>>

DevGreets ==
  /\ DevTakes(Hello) /\ Acceptable(Head(toDev))
  /\ \E n \in Nonces :
       /\ dev' = [dev EXCEPT !.phase = "greeted", !.nonce = n,
                             !.seq = Head(toDev).seq]
       /\ Deliver(InMessage(Greeting, LocalKey, n, "blank"))
  /\ UNCHANGED <<light, applied>>

DevLinks ==
  /\ DevTakes(Finish) /\ Acceptable(Head(toDev))
  /\ dev' = [dev EXCEPT !.phase = "linked", !.seq = Head(toDev).seq]
  /\ UNCHANGED <<light, applied, toCtl>>

DevReports(status) ==
  Deliver(InMessage(Report, SessionKey(dev.nonce), NoNonce, status))

(* {"20": false} *)
DevObeys ==
  /\ DevTakes(Control) /\ Acceptable(Head(toDev))
  /\ dev' = [dev EXCEPT !.seq = Head(toDev).seq]
  /\ light' = "off" /\ applied' = applied + 1
  /\ DevReports("off")

(* A frame the bulb cannot verify or does not expect *)
DevIgnores ==
  /\ \E cmd \in {Hello, Finish, Control} : DevTakes(cmd)
  /\ ~Acceptable(Head(toDev))
  /\ dev' = [dev EXCEPT !.seq = Head(toDev).seq]
  /\ UNCHANGED <<light, applied, toCtl>>

(* Somebody uses the switch. *)
DevSwitched ==
  /\ devUp /\ dev.conn /\ dev.phase = "linked"
  /\ \E l \in Light \ {light} : light' = l /\ DevReports(l)
  /\ UNCHANGED <<ctlVars, netVars, devUp, dev, applied, toDev>>

Bulb == DevGreets \/ DevLinks \/ DevObeys \/ DevIgnores
-----------------------------------------------------------------------------
(* What may go wrong (external).  The socket is closed at once or outlives *)
(* the loss of the WiFi or of the bulb until the stack finds out.          *)

LosePath == sock' = FALSE \/ UNCHANGED sock

WifiDown ==
  /\ wifi
  /\ wifi' = FALSE
  /\ LosePath
  /\ UNCHANGED <<ctlVars, devVars, toDev, toCtl>>

(* The driver associates again on its own. *)
WifiUp ==
  /\ ~wifi /\ pc # "wifi"
  /\ wifi' = TRUE
  /\ UNCHANGED <<ctlVars, sock, devVars, toDev, toCtl>>

DevDown ==
  /\ devUp
  /\ devUp' = FALSE /\ dev' = Gone
  /\ LosePath
  /\ toDev' = <<>>
  /\ toCtl' \in {toCtl, <<>>}
  /\ UNCHANGED <<ctlVars, wifi, light, applied>>

DevBack ==
  /\ ~devUp
  /\ devUp' = TRUE
  /\ UNCHANGED <<ctlVars, netVars, dev, light, applied, toDev, toCtl>>

SockDown ==
  /\ sock /\ ~(wifi /\ devUp /\ dev.conn)
  /\ sock' = FALSE
  /\ UNCHANGED <<ctlVars, wifi, devVars, toDev, toCtl>>

Environment ==
  DevSwitched \/ WifiDown \/ WifiUp \/ DevDown \/ DevBack \/ SockDown

Next == LoopTask \/ Bulb \/ Environment

Spec == Init /\ [][Next]_vars

(* The loop task is always scheduled and none of its waits is unbounded;   *)
(* the bulb answers what reaches it; bytes in flight arrive in the end and *)
(* stay in the receive buffer, so that a task that polls for ever does not *)
(* miss them for ever.  Nothing is assumed of the rest.                    *)
Fairness == WF_vars(LoopTask) /\ SF_vars(Receive) /\ WF_vars(Bulb)
FairSpec == Spec /\ Fairness
-----------------------------------------------------------------------------
(* Properties *)

(* Every variable stays within its type. *)
TypeOK ==
  /\ wifi \in BOOLEAN /\ sock \in BOOLEAN
  /\ pc \in {"wifi", "session", "loop", "check", "connect", "hello",
             "signal", "receive", "handle", "dps"}
  /\ once \in BOOLEAN /\ linked \in BOOLEAN
  /\ seqNo \in Nat \ {0}
  /\ hmacKey \in Keys
  /\ current \in Status
  /\ inFrame \in InFrame \union {NoFrame}
  /\ toDev \in Seq(OutFrame) /\ toCtl \in Seq(InFrame)
  /\ devUp \in BOOLEAN
  /\ dev \in [conn : BOOLEAN, phase : {"idle", "greeted", "linked"},
              nonce : Nonces \union {NoNonce}, seq : Nat]
  /\ light \in Light
  /\ applied \in Nat

(* When both ends call the connection linked they hold the same session    *)
(* key, whatever drops, reconnections and late frames came before: the     *)
(* payload decrypted in place for encode_remote_hmac is the one            *)
(* encode_hmac_key uses.                                                   *)
KeyAgreement ==
  linked /\ dev.phase = "linked" => hmacKey = SessionKey(dev.nonce)

(* On its way to the bulb a handshake frame is always signed with the      *)
(* local key, a command always with a session key: handleSignal answers a  *)
(* greeting before it changes the key, and no session starts with the key  *)
(* or the link of an earlier connection.                                   *)
FrameKeys ==
  \A i \in 1..Len(toDev) :
    /\ toDev[i].cmd \in {Hello, Finish} => toDev[i].key = LocalKey
    /\ toDev[i].cmd = Control => toDev[i].key.kind = "session"

(* The bulb sees strictly increasing sequence numbers on a connection,     *)
(* although SEQ_NO restarts at 1 with every connectDevice.                 *)
SequenceOrder ==
  /\ \A i \in 1..Len(toDev) : dev.seq < toDev[i].seq
  /\ \A i, j \in 1..Len(toDev) : i < j => toDev[i].seq < toDev[j].seq

(* The command given at start-up goes out once at most, over all           *)
(* connections and sessions, and so the bulb obeys it once at most: nobody *)
(* finds the light switched off a second time because the WiFi came back.  *)
Commands == {i \in 1..Len(toDev) : toDev[i].cmd = Control}
CommandOnce ==
  /\ applied <= 1
  /\ ~once => applied = 0 /\ Commands = {}
  /\ \A i, j \in Commands : i = j
  /\ applied = 1 => Commands = {}

(* A status report that was received whole is decrypted with the key it    *)
(* was encrypted with: the bulb reports only what follows the handshake,   *)
(* and no report of an earlier connection survives connectDevice.          *)
ReportsReadable ==
  pc = "handle" /\ inFrame.cmd = Report /\ inFrame.part = "whole"
    => hmacKey = inFrame.key

(* A history in which no loss went unnoticed and no frame was split: the   *)
(* socket is open only while there is a path to a bulb that has it open.   *)
Noticed == sock => wifi /\ devUp /\ dev.conn
WholeFrames == \A i \in 1..Len(toCtl) : toCtl[i].part = "whole"
CleanHistory == [](Noticed /\ WholeFrames)

(* Where the socket never outlives the path and no frame is split, the     *)
(* bulb can accept every frame it gets: no command overtakes a handshake   *)
(* that was dropped.                                                       *)
NothingRefused ==
  CleanHistory => [](toDev # <<>> => Acceptable(Head(toDev)))

(* The session key of a linked session is never replaced: connectDevice,   *)
(* which starts the handshake over, ends the link first.                   *)
LinkKeepsKey == [][linked /\ linked' => hmacKey' = hmacKey]_vars

(* Once the WiFi and the bulb are up for good                              *)
Settled == sock /\ linked /\ dev.phase = "linked" /\ once
Stable == wifi /\ devUp

(* ... the controller links with the bulb, stays linked and has given its  *)
(* command, provided every earlier drop closed the socket.                 *)
StableLinks == CleanHistory => (<>[]Stable => <>[]Settled)

(* ... and if a drop went unnoticed, the only other way to end is with a   *)
(* socket that looks connected and a bulb that waits for a frame that will *)
(* not be sent again: there is no time-out and no retry in the handshake.  *)
Stuck == sock /\ dev.phase # "linked" /\ toDev = <<>>
StableLinksOrHangs == <>[]Stable => <>[]Settled \/ <>[]Stuck
-----------------------------------------------------------------------------
(* What each end holds as the result of a handshake, and the command *)
CtlNonce == IF linked THEN hmacKey.nonce ELSE NoNonce
BulbNonce == IF dev.phase = "linked" THEN dev.nonce ELSE NoNonce
CommandState ==
  IF applied > 0 THEN "obeyed" ELSE IF once THEN "given" ELSE "kept"

Link == INSTANCE TuyaLink WITH
  None <- NoNonce, ctl <- CtlNonce, bulb <- BulbNonce, command <- CommandState

(* The session keeps the promise of TuyaLink: every step of the loop task, *)
(* of the bulb or of the network is a step of the link or invisible to it. *)
ImplementsLink == Link!LinkSpec
=============================================================================
