------------------------- MODULE SessionHandshakeProofs -------------------------
(***************************************************************************)
(* A guest that takes its session for attached is served, for any time-    *)
(* outs, any range of session ids and any number of faults; and until the  *)
(* ids wrap a session serves the two streams of one attempt.               *)
(***************************************************************************)
EXTENDS SessionHandshake, SequenceTheorems, TLAPS

Peers   == {"none", "live", "dead"}

Connections == [id : Nat, live : BOOLEAN]

HandshakeType ==
  /\ hpc \in {"down", "accept", "select", "attach", "attached"}
  /\ hctl \in Peers /\ hin \in Peers
  /\ gpc \in {"retry", "hello", "input", "attach", "attached"}
  /\ reply \in {"none", "ok", "refused"}
  /\ eof \in BOOLEAN
  /\ {sid, nextId, gid} \subseteq Nat
  /\ ctlQ \in Seq(BOOLEAN)
  /\ inQ \in Seq(Connections)

\* The host has a control stream while it serves a session.
HostInv ==
  /\ hctl = "none" <=> hpc \in {"down", "accept"}
  /\ hin # "none" => hpc = "attached"

\* Only the newest control connection can be the one of the attempt in progress,
\* which has not been answered; once it is served there is none behind it.
ControlInv ==
  /\ \A i \in 1 .. Len(ctlQ) :
       ctlQ[i] => i = Len(ctlQ) /\ gpc = "hello" /\ hctl # "live" /\ reply = "none"
  /\ hctl = "live" => ctlQ = <<>> /\ gpc # "retry"
  /\ gpc = "hello" /\ reply = "ok" => ctlQ = <<>> /\ hctl # "dead"
  /\ gpc = "hello" /\ hctl = "live" => (hpc = "select" <=> reply = "none")
  /\ gpc \in {"input", "attach", "attached"} => ctlQ = <<>> /\ hctl # "dead" /\ hpc # "select"
  /\ hctl = "live" /\ hpc # "select" => sid = gid
  /\ gpc \in {"retry", "input"} => reply = "none"
  /\ gpc = "hello" => reply # "refused"

\* An input connection of the attempt in progress carries its id and is alone;
\* the answer to it comes with the input stream, and its end with that of the
\* stream.
InputInv ==
  /\ \A i \in 1 .. Len(inQ) : inQ[i].live =>
       /\ gpc = "attach" /\ inQ[i].id = gid /\ reply = "none" /\ hin # "live"
       /\ \A j \in 1 .. Len(inQ) : inQ[j].live => i = j
  /\ hin = "live" => hctl = "live" /\ gpc \in {"attach", "attached"}
  /\ gpc = "attach" /\ hin = "live" => reply = "ok"
  /\ gpc = "attach" /\ reply = "ok" /\ ~eof => hin = "live"
  /\ gpc = "attached" /\ ~eof => hin = "live"

HandshakeInv == HandshakeType /\ HostInv /\ ControlInv /\ InputInv

-----------------------------------------------------------------------------

\* Nobody is connected yet.
LEMMA InitHandshakeInv == Init => HandshakeInv
<1> SUFFICES ASSUME Init PROVE HandshakeInv
  OBVIOUS
<1>1. /\ ctlQ \in Seq(BOOLEAN) /\ inQ \in Seq(Connections)
      /\ 1 .. Len(ctlQ) = {} /\ 1 .. Len(inQ) = {}
  BY EmptySeq DEF Init
<1>2. eof \in BOOLEAN
  BY DEF Init
<1> QED BY <1>1, <1>2 DEF Init, HandshakeInv, HandshakeType, Peers, HostInv, ControlInv, InputInv

\* The end of an attempt leaves nothing alive, in the backlogs or at the host.
LEMMA GuestFailsInv ==
  ASSUME HandshakeInv, NEW delay, GuestFails(delay)
  PROVE  HandshakeInv'
<1>1. /\ ctlQ' = [i \in DOMAIN ctlQ |-> FALSE] /\ inQ' = [i \in DOMAIN inQ |-> [inQ[i] EXCEPT !.live = FALSE]]
      /\ hctl' = Killed(hctl) /\ hin' = Killed(hin)
      /\ gpc' = "retry" /\ reply' = "none" /\ eof' = FALSE
      /\ UNCHANGED <<hpc, sid, nextId, gid>>
  BY DEF GuestFails, CloseSockets
<1>2. /\ DOMAIN ctlQ = 1 .. Len(ctlQ) /\ DOMAIN inQ = 1 .. Len(inQ)
      /\ Len(ctlQ) \in Nat /\ Len(inQ) \in Nat
      /\ \A i \in 1 .. Len(inQ) : inQ[i] \in Connections
  BY LenProperties, ElementOfSeq DEF HandshakeInv, HandshakeType
<1>3. \A i \in 1 .. Len(inQ) : inQ'[i] \in Connections /\ inQ'[i].live = FALSE
  BY <1>1, <1>2 DEF Connections
<1>4. ctlQ' \in Seq(BOOLEAN) /\ Len(ctlQ') = Len(ctlQ) /\ \A i \in 1 .. Len(ctlQ) : ctlQ'[i] = FALSE
  <2>1. ctlQ' \in [1 .. Len(ctlQ) -> BOOLEAN]
    BY <1>1, <1>2
  <2> QED BY <1>1, <1>2, <2>1, SeqDef, LenProperties
<1>5. inQ' \in Seq(Connections) /\ Len(inQ') = Len(inQ)
  <2>1. inQ' \in [1 .. Len(inQ) -> Connections]
    BY <1>1, <1>2, <1>3
  <2> QED BY <1>2, <2>1, SeqDef, LenProperties
<1>6. HandshakeType'
  <2>1. eof' \in BOOLEAN
    BY <1>1
  <2> QED BY <1>1, <1>4, <1>5, <2>1 DEF HandshakeInv, HandshakeType, Killed, Peers
<1>7. HostInv'
  BY <1>1 DEF HandshakeInv, HandshakeType, HostInv, Killed
<1>8. ControlInv'
  <2>1. hctl' # "live" /\ hin' # "live"
    BY <1>1 DEF Killed
  <2> QED BY <1>1, <1>4, <2>1 DEF ControlInv
<1>9. InputInv'
  <2>1. hctl' # "live" /\ hin' # "live"
    BY <1>1 DEF Killed
  <2> QED BY <1>1, <1>3, <1>5, <2>1 DEF InputInv
<1> QED BY <1>6, <1>7, <1>8, <1>9 DEF HandshakeInv

\* The end of a session that nothing else ends with.
LEMMA EndSessionInv ==
  ASSUME HandshakeInv, EndSession, UNCHANGED queueVars
  PROVE  HandshakeInv'
<1>1. /\ hpc' = "accept" /\ hctl' = "none" /\ hin' = "none"
      /\ UNCHANGED <<sid, nextId, gpc, gid, reply, ctlQ, inQ>>
      /\ gpc \in {"attach", "attached"} /\ hin = "live" => eof' = TRUE
      /\ eof => eof' = TRUE
      /\ eof' \in BOOLEAN
  BY DEF EndSession, guestVars, queueVars, HandshakeInv, HandshakeType
<1>2. HandshakeType' /\ HostInv'
  BY <1>1 DEF HandshakeInv, HandshakeType, HostInv, Peers
<1>3. ControlInv'
  BY <1>1 DEF HandshakeInv, HandshakeType, HostInv, ControlInv
<1>4. InputInv'
  BY <1>1 DEF HandshakeInv, HandshakeType, HostInv, InputInv
<1> QED BY <1>2, <1>3, <1>4 DEF HandshakeInv

\* A step of the guest that goes on with its attempt.
LEMMA GuestStepInv ==
  ASSUME HandshakeInv, GuestStep
  PROVE  HandshakeInv'
<1> USE DEF HandshakeInv
<1>1. CASE ConnectControl
  <2>1. /\ gpc = "retry" /\ gpc' = "hello" /\ ctlQ' = Append(ctlQ, TRUE)
        /\ UNCHANGED <<hpc, hctl, hin, sid, nextId, inQ, gid, reply, eof>>
    BY <1>1 DEF ConnectControl, hostVars
  <2>2. TRUE \in BOOLEAN /\ ctlQ \in Seq(BOOLEAN)
    BY DEF HandshakeType
  <2>3. /\ ctlQ' \in Seq(BOOLEAN) /\ Len(ctlQ') = Len(ctlQ) + 1 /\ Len(ctlQ) \in Nat
        /\ \A i \in 1 .. Len(ctlQ) : ctlQ'[i] = ctlQ[i]
    BY <2>1, <2>2, AppendProperties, LenProperties
  <2>4. \A i \in 1 .. Len(ctlQ) : ~ctlQ[i]
    BY <2>1 DEF ControlInv
  <2>5. \A i \in 1 .. Len(ctlQ') : ctlQ'[i] => i = Len(ctlQ')
    BY <2>3, <2>4
  <2>6. hctl # "live" /\ reply = "none"
    BY <2>1 DEF ControlInv
  <2>7. HandshakeType' /\ HostInv' /\ InputInv'
    BY <2>1, <2>3, <2>6 DEF HandshakeType, HostInv, InputInv
  <2>8. ControlInv'
    BY <2>1, <2>5, <2>6 DEF ControlInv
  <2> QED BY <2>7, <2>8
<1>2. CASE ConnectRefused \/ AttemptFails \/ SessionLost
  BY <1>2, GuestFailsInv DEF ConnectRefused, AttemptFails, SessionLost
<1>3. CASE HelloAnswered
  <2>1. /\ gpc = "hello" /\ reply = "ok" /\ gpc' = "input" /\ reply' = "none" /\ eof' = FALSE
        /\ UNCHANGED <<hpc, hctl, hin, sid, nextId, ctlQ, inQ, gid>>
    BY <1>3 DEF HelloAnswered, hostVars, queueVars
  <2>2. HandshakeType'
    <3>1. eof' \in BOOLEAN
      BY <2>1
    <3> QED BY <2>1, <3>1 DEF HandshakeType
  <2>3. HostInv' /\ InputInv'
    BY <2>1 DEF HostInv, InputInv
  <2>4. ControlInv'
    <3>1. ctlQ = <<>> /\ hctl # "dead" /\ hpc # "select"
      BY <2>1 DEF ControlInv, HostInv, HandshakeType, Peers
    <3>2. 1 .. Len(ctlQ) = {}
      BY <3>1
    <3> QED BY <2>1, <3>1, <3>2 DEF ControlInv
  <2> QED BY <2>2, <2>3, <2>4
<1>4. CASE ConnectInput
  <2>1. /\ gpc = "input" /\ gpc' = "attach" /\ inQ' = Append(inQ, [id |-> gid, live |-> TRUE])
        /\ UNCHANGED <<hpc, hctl, hin, sid, nextId, ctlQ, gid, reply, eof>>
    BY <1>4 DEF ConnectInput, hostVars
  <2>2. [id |-> gid, live |-> TRUE] \in Connections /\ inQ \in Seq(Connections)
    BY DEF HandshakeType, Connections
  <2>3. /\ inQ' \in Seq(Connections) /\ Len(inQ') = Len(inQ) + 1 /\ Len(inQ) \in Nat
        /\ inQ'[Len(inQ) + 1] = [id |-> gid, live |-> TRUE]
        /\ \A i \in 1 .. Len(inQ) : inQ'[i] = inQ[i]
    BY <2>1, <2>2, AppendProperties, LenProperties
  <2>4. \A i \in 1 .. Len(inQ) : ~inQ[i].live
    BY <2>1 DEF InputInv
  <2>5. \A i \in 1 .. Len(inQ') : inQ'[i].live => i = Len(inQ') /\ inQ'[i].id = gid
    BY <2>3, <2>4
  <2>6. reply = "none" /\ hin # "live"
    BY <2>1 DEF ControlInv, InputInv
  <2>7. HandshakeType' /\ HostInv'
    BY <2>1, <2>3 DEF HandshakeType, HostInv
  <2>8. ControlInv'
    BY <2>1 DEF ControlInv
  <2>9. InputInv'
    BY <2>1, <2>5, <2>6 DEF InputInv
  <2> QED BY <2>7, <2>8, <2>9
<1>5. CASE AttachAnswered
  <2>1. /\ gpc = "attach" /\ reply = "ok" /\ gpc' = "attached" /\ reply' = "none"
        /\ UNCHANGED <<hpc, hctl, hin, sid, nextId, ctlQ, inQ, gid, eof>>
    BY <1>5 DEF AttachAnswered, hostVars, queueVars
  <2>2. HandshakeType' /\ HostInv'
    BY <2>1 DEF HandshakeType, HostInv
  <2>3. ControlInv' /\ InputInv'
    BY <2>1 DEF ControlInv, InputInv
  <2> QED BY <2>2, <2>3
<1> QED BY <1>1, <1>2, <1>3, <1>4, <1>5 DEF GuestStep

\* The oldest connection of a backlog.
LEMMA HeadIsFirst ==
  ASSUME NEW S, NEW s \in Seq(S), s # << >>
  PROVE  Head(s) = s[1]
OBVIOUS

\* The host takes the oldest control connection.
LEMMA AcceptControlInv ==
  ASSUME HandshakeInv, AcceptControl
  PROVE  HandshakeInv'
<1> USE DEF HandshakeInv
<1>1. /\ hpc = "accept" /\ hpc' = "select" /\ ctlQ # <<>>
      /\ hctl' = (IF Head(ctlQ) THEN "live" ELSE "dead") /\ ctlQ' = Tail(ctlQ)
      /\ sid' = nextId /\ nextId' = Successor(nextId)
      /\ UNCHANGED <<hin, inQ, gpc, gid, reply, eof>>
  BY DEF AcceptControl, guestVars
<1>2. /\ ctlQ \in Seq(BOOLEAN) /\ Len(ctlQ) \in Nat /\ Len(ctlQ) # 0 /\ Head(ctlQ) = ctlQ[1]
      /\ Tail(ctlQ) \in Seq(BOOLEAN) /\ Len(Tail(ctlQ)) = Len(ctlQ) - 1
      /\ \A i \in 1 .. Len(ctlQ) - 1 : Tail(ctlQ)[i] = ctlQ[i + 1]
  <2>1. ctlQ \in Seq(BOOLEAN)
    BY DEF HandshakeType
  <2>2. Len(ctlQ) \in Nat /\ Len(ctlQ) # 0
    BY <1>1, <2>1, LenProperties, EmptySeq
  <2>3. /\ Tail(ctlQ) \in Seq(BOOLEAN) /\ Len(Tail(ctlQ)) = Len(ctlQ) - 1
        /\ \A i \in 1 .. Len(Tail(ctlQ)) : Tail(ctlQ)[i] = ctlQ[i + 1]
    BY <1>1, <2>1, HeadTailProperties
  <2>4. Head(ctlQ) = ctlQ[1]
    BY <1>1, <2>1, HeadIsFirst
  <2> QED BY <2>1, <2>2, <2>3, <2>4
<1>3. gpc \notin {"input", "attach", "attached"} /\ ~(gpc = "hello" /\ reply = "ok") /\ hctl = "none"
  BY <1>1 DEF ControlInv, HostInv, HandshakeType
<1>7. sid' \in Nat /\ nextId' \in Nat
  <2>1. nextId \in Nat
    BY DEF HandshakeType
  <2>2. Successor(nextId) \in Nat
    BY <2>1 DEF Successor
  <2> QED BY <1>1, <2>1, <2>2
<1>4. \A i \in 1 .. Len(ctlQ') : ctlQ'[i] => i = Len(ctlQ') /\ gpc = "hello" /\ reply = "none"
  <2> SUFFICES ASSUME NEW i \in 1 .. Len(ctlQ) - 1, ctlQ[i + 1]
               PROVE  i = Len(ctlQ) - 1 /\ gpc = "hello" /\ reply = "none"
    BY <1>1, <1>2
  <2>1. i + 1 \in 1 .. Len(ctlQ)
    <3>1. Len(ctlQ) \in Nat
      BY <1>2
    <3> QED BY <3>1
  <2>2. i + 1 = Len(ctlQ) /\ gpc = "hello" /\ reply = "none"
    BY <2>1 DEF ControlInv
  <2>3. Len(ctlQ) \in Nat /\ i \in Int
    BY <1>2
  <2>4. i = Len(ctlQ) - 1
    BY <2>2, <2>3
  <2> QED BY <2>2, <2>4
<1>5. CASE ctlQ[1]
  <2>1. Len(ctlQ) = 1 /\ gpc = "hello" /\ reply = "none"
    <3>1. 1 \in 1 .. Len(ctlQ)
      BY <1>2
    <3> QED BY <3>1, <1>5 DEF ControlInv
  <2>2. hctl' = "live" /\ Tail(ctlQ) = <<>> /\ 1 .. Len(ctlQ') = {}
    <3>1. hctl' = "live"
      BY <1>1, <1>2, <1>5
    <3>2. Len(Tail(ctlQ)) = 0
      BY <1>2, <2>1
    <3>3. Tail(ctlQ) = <<>>
      BY <1>2, <3>2, EmptySeq
    <3>4. Len(ctlQ') = 0
      BY <1>1, <3>2
    <3> QED BY <3>1, <3>3, <3>4
  <2>3. HandshakeType' /\ HostInv'
    BY <1>1, <1>2, <1>7, <2>2 DEF HandshakeType, HostInv, Peers
  <2>4. ControlInv'
    BY <1>1, <1>4, <2>1, <2>2 DEF ControlInv
  <2>5. InputInv'
    BY <1>1, <1>3, <2>1 DEF InputInv
  <2> QED BY <2>3, <2>4, <2>5
<1>6. CASE ~ctlQ[1]
  <2>1. hctl' = "dead"
    BY <1>1, <1>2, <1>6
  <2>2. HandshakeType' /\ HostInv'
    BY <1>1, <1>2, <1>7, <2>1 DEF HandshakeType, HostInv, Peers
  <2>3. ControlInv'
    BY <1>1, <1>3, <1>4, <2>1 DEF ControlInv
  <2>4. InputInv'
    BY <1>1, <1>3, <2>1 DEF InputInv
  <2> QED BY <2>2, <2>3, <2>4
<1> QED BY <1>5, <1>6

\* HelloOk carries the id of the session to the guest, if it is still there.
LEMMA WritePreambleInv ==
  ASSUME HandshakeInv, WritePreamble
  PROVE  HandshakeInv'
<1> USE DEF HandshakeInv
<1>1. /\ hpc = "select" /\ hpc' = "attach"
      /\ IF hctl = "live" THEN reply' = "ok" /\ gid' = sid ELSE UNCHANGED <<reply, gid>>
      /\ UNCHANGED <<hctl, hin, sid, nextId, ctlQ, inQ, gpc, eof>>
  BY DEF WritePreamble, queueVars
<1>2. gpc \notin {"input", "attach", "attached"} /\ (hctl = "live" => gpc = "hello")
  BY <1>1 DEF ControlInv, HandshakeType
<1>3. HandshakeType' /\ HostInv'
  BY <1>1 DEF HandshakeType, HostInv
<1>4. ControlInv'
  <2>1. CASE hctl = "live"
    <3>1. ctlQ = <<>> /\ 1 .. Len(ctlQ) = {}
      BY <2>1, EmptySeq DEF ControlInv
    <3> QED BY <1>1, <1>2, <2>1, <3>1 DEF ControlInv
  <2>2. CASE hctl # "live"
    BY <1>1, <1>2, <2>2 DEF ControlInv
  <2> QED BY <2>1, <2>2
<1>5. InputInv'
  <2>1. \A i \in 1 .. Len(inQ) : ~inQ[i].live
    BY <1>2 DEF InputInv
  <2>2. hin = "none"
    BY <1>1 DEF HostInv
  <2> QED BY <1>1, <1>2, <2>1, <2>2 DEF InputInv
<1> QED BY <1>3, <1>4, <1>5

\* The host takes the oldest input connection: the guest's own one is accepted,
\* whatever other attempts left before it.
LEMMA AcceptInputInv ==
  ASSUME HandshakeInv, AcceptInput
  PROVE  HandshakeInv'
<1> USE DEF HandshakeInv
<1> DEFINE input == Head(inQ)
<1>1. /\ hpc = "attach" /\ inQ # <<>> /\ inQ' = Tail(inQ)
      /\ UNCHANGED <<sid, nextId, ctlQ, gpc, gid, eof>>
      /\ input.id = sid =>
           /\ hpc' = "attached" /\ hin' = (IF input.live THEN "live" ELSE "dead")
           /\ reply' = (IF input.live THEN "ok" ELSE reply) /\ hctl' = hctl
      /\ input.id # sid =>
           /\ hpc' = "accept" /\ hin' = "none" /\ hctl' = "none"
           /\ reply' = (IF input.live THEN "refused" ELSE reply)
  BY DEF AcceptInput
<1>2. /\ inQ \in Seq(Connections) /\ Len(inQ) \in Nat /\ Len(inQ) # 0 /\ input = inQ[1]
      /\ Tail(inQ) \in Seq(Connections) /\ Len(Tail(inQ)) = Len(inQ) - 1
      /\ \A i \in 1 .. Len(inQ) - 1 : Tail(inQ)[i] = inQ[i + 1]
  BY <1>1, HeadTailProperties, LenProperties, EmptySeq DEF HandshakeType
<1> HIDE DEF input
<1>3. hin = "none" /\ hctl # "none"
  BY <1>1 DEF HostInv, HandshakeType
<1>4. \A i \in 1 .. Len(inQ') : inQ'[i].live =>
        /\ gpc = "attach" /\ inQ'[i].id = gid /\ reply = "none" /\ ~input.live
        /\ \A j \in 1 .. Len(inQ') : inQ'[j].live => i = j
  <2>1. \A i \in 1 .. Len(inQ') : i + 1 \in 1 .. Len(inQ) /\ i + 1 # 1 /\ inQ'[i] = inQ[i + 1] /\ i \in Nat
    BY <1>1, <1>2
  <2>2. 1 \in 1 .. Len(inQ)
    BY <1>2
  <2>3. \A i, j \in 1 .. Len(inQ') : i + 1 = j + 1 => i = j
    BY <1>1, <1>2
  <2>4. \A i \in 1 .. Len(inQ) : inQ[i].live =>
          /\ gpc = "attach" /\ inQ[i].id = gid /\ reply = "none"
          /\ \A j \in 1 .. Len(inQ) : inQ[j].live => i = j
    BY DEF InputInv
  <2> QED BY <1>2, <2>1, <2>2, <2>3, <2>4
<1>5. input.live => gpc = "attach" /\ input.id = gid /\ reply = "none" /\ hctl = "live" /\ sid = gid
  <2>1. 1 \in 1 .. Len(inQ)
    BY <1>2
  <2> QED BY <1>1, <1>2, <1>3, <2>1 DEF InputInv, ControlInv, HandshakeType, Peers
<1>6. HandshakeType'
  BY <1>1, <1>2 DEF HandshakeType, Peers
<1>7. HostInv'
  BY <1>1, <1>3 DEF HostInv
<1>8. ControlInv'
  BY <1>1, <1>5 DEF ControlInv
<1>9. InputInv'
  <2>1. CASE input.live
    <3>1. input.id = sid /\ hin' = "live" /\ reply' = "ok" /\ hctl' = "live"
      BY <1>1, <1>5, <2>1
    <3>2. \A i \in 1 .. Len(inQ') : ~inQ'[i].live
      BY <1>4, <2>1
    <3> QED BY <1>1, <1>5, <2>1, <3>1, <3>2 DEF InputInv
  <2>2. CASE ~input.live
    <3>1. reply' = reply /\ hin' # "live"
      BY <1>1, <2>2
    <3>2. ~(gpc = "attach" /\ reply = "ok" /\ ~eof) /\ ~(gpc = "attached" /\ ~eof)
      BY <1>3 DEF InputInv
    <3> QED BY <1>1, <1>4, <3>1, <3>2 DEF InputInv
  <2> QED BY <2>1, <2>2
<1> QED BY <1>6, <1>7, <1>8, <1>9

\* The application quits and starts again.
LEMMA HostRestartInv ==
  ASSUME HandshakeInv, HostQuit \/ HostStart
  PROVE  HandshakeInv'
<1> USE DEF HandshakeInv
<1>1. CASE HostQuit
  <2>1. /\ hpc' = "down" /\ hctl' = "none" /\ hin' = "none" /\ ctlQ' = <<>> /\ inQ' = <<>>
        /\ eof' = (gpc \in {"hello", "attach", "attached"})
        /\ UNCHANGED <<sid, nextId, gpc, gid, reply>>
    BY <1>1 DEF HostQuit
  <2>2. /\ ctlQ' \in Seq(BOOLEAN) /\ inQ' \in Seq(Connections)
        /\ 1 .. Len(ctlQ') = {} /\ 1 .. Len(inQ') = {}
    BY <2>1, EmptySeq
  <2>3. eof' \in BOOLEAN
    BY <2>1
  <2>4. HandshakeType' /\ HostInv'
    BY <2>1, <2>2, <2>3 DEF HandshakeType, HostInv, Peers
  <2>5. ControlInv'
    BY <2>1, <2>2 DEF ControlInv
  <2>6. InputInv'
    BY <2>1, <2>2 DEF InputInv
  <2> QED BY <2>4, <2>5, <2>6
<1>2. CASE HostStart
  <2>1. /\ hpc = "down" /\ hpc' = "accept" /\ nextId' = 1
        /\ UNCHANGED <<hctl, hin, sid, ctlQ, inQ, gpc, gid, reply, eof>>
    BY <1>2 DEF HostStart, queueVars, guestVars
  <2>2. HandshakeType' /\ HostInv'
    BY <2>1 DEF HandshakeType, HostInv
  <2>3. ControlInv' /\ InputInv'
    BY <2>1 DEF ControlInv, InputInv, HostInv
  <2> QED BY <2>2, <2>3
<1> QED BY <1>1, <1>2

\* Steps that only move deadlines and budgets.
LEMMA OnlyTimeInv ==
  ASSUME HandshakeInv,
         UNCHANGED <<hpc, hctl, hin, sid, nextId, ctlQ, inQ, gpc, gid, reply, eof>>
  PROVE  HandshakeInv'
  BY DEF HandshakeInv, HandshakeType, HostInv, ControlInv, InputInv

\* Every step of the guest, of the host and of the faults keeps the pairing right.
LEMMA StepHandshakeInv == HandshakeInv /\ [Next]_vars => HandshakeInv'
<1> SUFFICES ASSUME HandshakeInv, [Next]_vars PROVE HandshakeInv'
  OBVIOUS
<1>1. CASE GuestStep
  BY <1>1, GuestStepInv
<1>2. CASE PreambleFails \/ AttachTimeout \/ EndAttached
  BY <1>2, EndSessionInv DEF PreambleFails, AttachTimeout, EndAttached
<1>3. CASE HostStep
  BY <1>2, <1>3, AcceptControlInv, WritePreambleInv, AcceptInputInv, HostRestartInv DEF HostStep
<1>4. CASE GuestCrash
  BY <1>4, GuestFailsInv DEF GuestCrash
<1>5. CASE GuestStall \/ Tick \/ UNCHANGED vars
  BY <1>5, OnlyTimeInv DEF GuestStall, Tick, vars, hostVars, queueVars, guestVars
<1> QED BY <1>1, <1>2, <1>3, <1>4, <1>5, HostRestartInv DEF Next, Faults

LEMMA HandshakeInvHolds == Spec => []HandshakeInv
<1> QED BY InitHandshakeInv, StepHandshakeInv, PTL DEF Spec

-----------------------------------------------------------------------------

\* Whatever ids, timeouts, suspensions, crashes and restarts do to the two
\* backlogs: a guest that believes in its session is served on both streams by
\* a session with its id, or the end of that session is on its way to it.
THEOREM BelievesRightly == Spec => []GuestAttachedIsServed
<1>1. HandshakeInv => GuestAttachedIsServed
  BY DEF HandshakeInv, HandshakeType, HostInv, ControlInv, InputInv, GuestAttachedIsServed
<1> QED BY <1>1, HandshakeInvHolds, PTL

-----------------------------------------------------------------------------
(* Sessions whose ids have not wrapped *)

IdsLeft == nextId # MaxSessionId

\* All ids a connection may carry are of the host process that runs now.
OneProcess == ~(Stalled /\ Restarted)

\* The guest has the id of a session and is about to attach with it.
Attaching == gpc = "input" \/ (gpc = "hello" /\ reply = "ok")

FaultsInv ==
  /\ budget \in [{"stall", "slow", "crash", "quit"} -> Nat]
  /\ budget.stall <= MaxStalls /\ budget.quit <= MaxQuits
  /\ {stall, htime} \subseteq Nat
  /\ stall > 0 => Stalled
  /\ hpc = "down" => Restarted

\* Ids are handed out before they are used.  A guest that is about to attach
\* does not wait, so it does not get over the tick a restart of the host takes.
IdsInv ==
  /\ hpc \in {"select", "attach", "attached"} => sid < nextId
  /\ OneProcess =>
       /\ \A i \in 1 .. Len(inQ) : inQ[i].id < nextId
       /\ Attaching => gid < nextId
       /\ hpc = "down" => Len(inQ) = 0 /\ (htime = 0 => ~Attaching)

\* An input connection for the session of a living control stream is of the
\* attempt that made that stream.
PairInv ==
  OneProcess /\ hctl = "live" =>
    /\ \A i \in 1 .. Len(inQ) : inQ[i].id = sid => inQ[i].live
    /\ hpc = "attached" => hin = "live"

FreshInv == FaultsInv /\ IdsInv /\ PairInv

LEMMA InitFreshInv == Init => FreshInv
<1> SUFFICES ASSUME Init PROVE FreshInv
  OBVIOUS
<1>1. budget = [stall |-> MaxStalls, slow |-> MaxSlowOpens, crash |-> MaxCrashes, quit |-> MaxQuits]
  BY DEF Init
<1>2. MaxStalls \in Nat /\ MaxQuits \in Nat /\ MaxSlowOpens \in Nat /\ MaxCrashes \in Nat
  BY BudgetAssumption
<1>3. FaultsInv
  <2>1. /\ budget \in [{"stall", "slow", "crash", "quit"} -> Nat]
        /\ budget.stall = MaxStalls /\ budget.quit = MaxQuits
    BY <1>1, <1>2
  <2> QED BY <1>2, <2>1 DEF Init, FaultsInv
<1>4. IdsInv /\ PairInv
  <2>1. Len(inQ) = 0 /\ 1 .. Len(inQ) = {}
    BY EmptySeq DEF Init
  <2> QED BY <2>1 DEF Init, IdsInv, PairInv, Attaching
<1> QED BY <1>3, <1>4 DEF FreshInv

\* Faults are only ever spent.
LEMMA SpendKeeps ==
  ASSUME FaultsInv, NEW kind \in {"stall", "slow", "crash", "quit"}, Spend(kind)
  PROVE  /\ budget' \in [{"stall", "slow", "crash", "quit"} -> Nat]
         /\ budget'.stall <= MaxStalls /\ budget'.quit <= MaxQuits
         /\ Stalled => Stalled'
         /\ Restarted => Restarted'
         /\ kind = "stall" => Stalled'
         /\ kind = "quit" => Restarted'
<1>1. /\ budget \in [{"stall", "slow", "crash", "quit"} -> Nat] /\ budget[kind] > 0
      /\ budget' = [budget EXCEPT ![kind] = @ - 1]
  BY DEF FaultsInv, Spend
<1>2. /\ MaxStalls \in Nat /\ MaxQuits \in Nat
      /\ budget.stall \in Nat /\ budget.quit \in Nat /\ budget[kind] \in Nat
      /\ budget.stall <= MaxStalls /\ budget.quit <= MaxQuits
  BY <1>1, BudgetAssumption DEF FaultsInv
<1>3. /\ budget'.stall = IF kind = "stall" THEN budget.stall - 1 ELSE budget.stall
      /\ budget'.quit = IF kind = "quit" THEN budget.quit - 1 ELSE budget.quit
      /\ budget' \in [{"stall", "slow", "crash", "quit"} -> Nat]
  BY <1>1, <1>2
<1> QED BY <1>1, <1>2, <1>3 DEF Stalled, Restarted

\* What every step does to the faults.
LEMMA StepFaultsInv ==
  ASSUME HandshakeInv, FaultsInv, [Next]_vars
  PROVE  /\ FaultsInv'
         /\ Stalled => Stalled'
         /\ Restarted => Restarted'
<1> USE DEF FaultsInv
<1>1. /\ HandshakeTimeout \in Nat /\ InputAttachTimeout \in Nat /\ RetryInterval \in Nat
      /\ HandshakeTimeout + InputAttachTimeout > 0
  BY TimesAssumption
<1>2. CASE GuestStep
  <2>1. UNCHANGED <<hpc, htime, stall, budget>>
    BY <1>2 DEF GuestStep, ConnectControl, ConnectRefused, HelloAnswered, ConnectInput,
                AttachAnswered, AttemptFails, SessionLost, GuestFails, hostVars
  <2> QED BY <2>1 DEF Stalled, Restarted
<1>3. CASE AcceptControl
  <2>1. /\ hpc' = "select" /\ UNCHANGED stall
        /\ htime' = 0 \/ htime' = HandshakeTimeout + 1
        /\ UNCHANGED budget \/ Spend("slow")
    BY <1>3 DEF AcceptControl
  <2>2. htime' \in Nat
    BY <1>1, <2>1
  <2>3. CASE UNCHANGED budget
    BY <2>1, <2>2, <2>3 DEF Stalled, Restarted
  <2>4. CASE Spend("slow")
    <3>1. /\ budget' \in [{"stall", "slow", "crash", "quit"} -> Nat]
          /\ budget'.stall <= MaxStalls /\ budget'.quit <= MaxQuits
          /\ Stalled => Stalled'
          /\ Restarted => Restarted'
      BY <2>4, SpendKeeps
    <3> QED BY <2>1, <2>2, <3>1
  <2> QED BY <2>1, <2>3, <2>4
<1>4. CASE WritePreamble \/ PreambleFails \/ AcceptInput \/ AttachTimeout \/ EndAttached \/ HostStart
  <2>1. /\ UNCHANGED <<stall, budget>> /\ hpc' # "down"
        /\ htime' \in {0, InputAttachTimeout, htime}
    BY <1>4 DEF WritePreamble, PreambleFails, AcceptInput, AttachTimeout, EndAttached,
                HostStart, EndSession
  <2> QED BY <1>1, <2>1 DEF Stalled, Restarted
<1>5. CASE GuestCrash
  <2>1. Spend("crash") /\ UNCHANGED <<hpc, htime, stall>>
    BY <1>5 DEF GuestCrash, GuestFails
  <2>2. /\ budget' \in [{"stall", "slow", "crash", "quit"} -> Nat]
        /\ budget'.stall <= MaxStalls /\ budget'.quit <= MaxQuits
        /\ Stalled => Stalled'
        /\ Restarted => Restarted'
    BY <2>1, SpendKeeps
  <2> QED BY <2>1, <2>2
<1>6. CASE GuestStall
  <2>1. Spend("stall") /\ UNCHANGED <<hpc, htime>> /\ stall' = HandshakeTimeout + InputAttachTimeout
    BY <1>6 DEF GuestStall, hostVars
  <2>2. /\ budget' \in [{"stall", "slow", "crash", "quit"} -> Nat]
        /\ budget'.stall <= MaxStalls /\ budget'.quit <= MaxQuits
        /\ Stalled'
        /\ Restarted => Restarted'
    BY <2>1, SpendKeeps
  <2> QED BY <1>1, <2>1, <2>2
<1>7. CASE HostQuit
  <2>1. Spend("quit") /\ UNCHANGED stall /\ htime' = 1
    BY <1>7 DEF HostQuit
  <2>2. /\ budget' \in [{"stall", "slow", "crash", "quit"} -> Nat]
        /\ budget'.stall <= MaxStalls /\ budget'.quit <= MaxQuits
        /\ Stalled => Stalled'
        /\ Restarted'
    BY <2>1, SpendKeeps
  <2> QED BY <2>1, <2>2
<1>8. CASE Tick
  <2>1. htime' = Down(htime) /\ stall' = Down(stall) /\ UNCHANGED <<hpc, budget>>
    BY <1>8 DEF Tick
  <2>2. htime' \in Nat /\ stall' \in Nat /\ (stall' > 0 => stall > 0)
    BY <2>1 DEF Down
  <2> QED BY <2>1, <2>2 DEF Stalled, Restarted
<1>9. CASE UNCHANGED vars
  BY <1>9 DEF vars, hostVars, Stalled, Restarted
<1> HIDE DEF FaultsInv
<1> QED BY <1>2, <1>3, <1>4, <1>5, <1>6, <1>7, <1>8, <1>9 DEF Next, HostStep, Faults

\* The end of an attempt takes its control stream with it, and changes no id.
LEMMA GuestFailsFresh ==
  ASSUME HandshakeInv, IdsInv, PairInv, NEW delay, GuestFails(delay),
         UNCHANGED htime, OneProcess' => OneProcess
  PROVE  IdsInv' /\ PairInv'
<1>1. /\ inQ' = [i \in DOMAIN inQ |-> [inQ[i] EXCEPT !.live = FALSE]]
      /\ hctl' # "live" /\ gpc' = "retry"
      /\ UNCHANGED <<hpc, sid, nextId, gid, htime>>
  BY DEF GuestFails, CloseSockets, Killed
<1>2. /\ inQ \in Seq(Connections) /\ DOMAIN inQ = 1 .. Len(inQ) /\ Len(inQ) \in Nat
      /\ \A i \in 1 .. Len(inQ) : inQ[i] \in Connections
  BY LenProperties, ElementOfSeq DEF HandshakeInv, HandshakeType
<1>3. \A i \in 1 .. Len(inQ) : inQ'[i] \in Connections /\ inQ'[i].id = inQ[i].id
  BY <1>1, <1>2 DEF Connections
<1>4. Len(inQ') = Len(inQ)
  <2>1. inQ' \in [1 .. Len(inQ) -> Connections]
    BY <1>1, <1>2, <1>3
  <2> QED BY <1>2, <2>1, SeqDef, LenProperties
<1>5. IdsInv'
  BY <1>1, <1>3, <1>4 DEF IdsInv, Attaching
<1>6. PairInv'
  BY <1>1 DEF PairInv
<1> QED BY <1>5, <1>6

\* A guest is given the id of a living session, attaches with it, and fails.
LEMMA GuestStepFresh ==
  ASSUME HandshakeInv, IdsInv, PairInv, GuestStep, OneProcess' => OneProcess
  PROVE  IdsInv' /\ PairInv'
<1>1. CASE ConnectControl
  BY <1>1 DEF ConnectControl, hostVars, IdsInv, PairInv, Attaching, HandshakeInv, ControlInv
<1>2. CASE ConnectRefused \/ AttemptFails \/ SessionLost
  <2>1. UNCHANGED htime
    BY <1>2 DEF ConnectRefused, AttemptFails, SessionLost, GuestFails
  <2> QED BY <1>2, <2>1, GuestFailsFresh DEF ConnectRefused, AttemptFails, SessionLost
<1>3. CASE HelloAnswered
  BY <1>3 DEF HelloAnswered, hostVars, queueVars, IdsInv, PairInv, Attaching
<1>4. CASE ConnectInput
  <2>1. /\ gpc = "input" /\ hpc # "down" /\ gpc' = "attach"
        /\ inQ' = Append(inQ, [id |-> gid, live |-> TRUE])
        /\ UNCHANGED <<hpc, hctl, hin, sid, nextId, htime, gid>>
    BY <1>4 DEF ConnectInput, hostVars
  <2>2. [id |-> gid, live |-> TRUE] \in Connections /\ inQ \in Seq(Connections)
    BY DEF HandshakeInv, HandshakeType, Connections
  <2>3. /\ Len(inQ') = Len(inQ) + 1 /\ Len(inQ) \in Nat
        /\ inQ'[Len(inQ) + 1] = [id |-> gid, live |-> TRUE]
        /\ \A i \in 1 .. Len(inQ) : inQ'[i] = inQ[i]
    BY <2>1, <2>2, AppendProperties, LenProperties
  <2>4. \A i \in 1 .. Len(inQ') : i \in 1 .. Len(inQ) \/ i = Len(inQ) + 1
    BY <2>3
  <2>5. IdsInv'
    BY <2>1, <2>3, <2>4 DEF IdsInv, Attaching
  <2>6. PairInv'
    BY <2>1, <2>3, <2>4 DEF PairInv
  <2> QED BY <2>5, <2>6
<1>5. CASE AttachAnswered
  BY <1>5 DEF AttachAnswered, hostVars, queueVars, IdsInv, PairInv, Attaching
<1> QED BY <1>1, <1>2, <1>3, <1>4, <1>5 DEF GuestStep

\* The id of a new session is on no connection yet.
LEMMA AcceptControlFresh ==
  ASSUME HandshakeInv, IdsInv, PairInv, IdsLeft, AcceptControl, OneProcess' => OneProcess
  PROVE  IdsInv' /\ PairInv'
<1>1. /\ hpc' = "select" /\ sid' = nextId /\ nextId' = nextId + 1
      /\ hpc = "accept" /\ UNCHANGED <<hin, inQ, gpc, gid, reply>>
  BY DEF AcceptControl, guestVars, Successor, IdsLeft
<1>2. /\ nextId \in Nat /\ gid \in Nat
      /\ \A i \in 1 .. Len(inQ) : inQ[i].id \in Nat
  <2>1. inQ \in Seq(Connections) /\ nextId \in Nat /\ gid \in Nat
    BY DEF HandshakeInv, HandshakeType
  <2>2. \A i \in 1 .. Len(inQ) : inQ[i] \in Connections
    BY <2>1, ElementOfSeq
  <2> QED BY <2>1, <2>2 DEF Connections
<1>3. IdsInv'
  <2>1. sid' < nextId'
    BY <1>1, <1>2
  <2>2. OneProcess => \A i \in 1 .. Len(inQ) : inQ[i].id < nextId'
    BY <1>1, <1>2 DEF IdsInv
  <2>3. OneProcess /\ Attaching => gid < nextId'
    BY <1>1, <1>2 DEF IdsInv
  <2> QED BY <1>1, <2>1, <2>2, <2>3 DEF IdsInv, Attaching
<1>4. PairInv'
  <2>1. OneProcess => \A i \in 1 .. Len(inQ) : inQ[i].id # sid'
    BY <1>1, <1>2 DEF IdsInv
  <2> QED BY <1>1, <2>1 DEF PairInv
<1> QED BY <1>3, <1>4

\* An input connection that carries the id of a session whose guest lives is
\* that guest's.
LEMMA AcceptInputFresh ==
  ASSUME HandshakeInv, IdsInv, PairInv, AcceptInput, OneProcess' => OneProcess
  PROVE  IdsInv' /\ PairInv'
<1> DEFINE input == Head(inQ)
<1>1. /\ hpc = "attach" /\ inQ # <<>> /\ inQ' = Tail(inQ) /\ hpc' # "down"
      /\ UNCHANGED <<sid, nextId, gpc, gid>>
      /\ input.id = sid =>
           /\ hpc' = "attached" /\ hin' = (IF input.live THEN "live" ELSE "dead") /\ hctl' = hctl
           /\ reply' = (IF input.live THEN "ok" ELSE reply)
      /\ input.id # sid =>
           /\ hpc' = "accept" /\ hctl' = "none"
           /\ reply' = (IF input.live THEN "refused" ELSE reply)
  BY DEF AcceptInput
<1>2. /\ inQ \in Seq(Connections) /\ Len(inQ) \in Nat /\ Len(inQ) # 0 /\ input = inQ[1]
      /\ Len(Tail(inQ)) = Len(inQ) - 1
      /\ \A i \in 1 .. Len(inQ) - 1 : Tail(inQ)[i] = inQ[i + 1]
  BY <1>1, HeadTailProperties, LenProperties, EmptySeq DEF HandshakeInv, HandshakeType
<1> HIDE DEF input
<1>3. /\ 1 \in 1 .. Len(inQ)
      /\ \A i \in 1 .. Len(inQ') : i + 1 \in 1 .. Len(inQ) /\ inQ'[i] = inQ[i + 1]
  BY <1>1, <1>2
<1>4. input.live => gpc = "attach"
  BY <1>2, <1>3 DEF HandshakeInv, InputInv
<1>5. Attaching' => Attaching
  BY <1>1, <1>4 DEF Attaching
<1>6. IdsInv'
  BY <1>1, <1>3, <1>5 DEF IdsInv
<1>7. PairInv'
  <2>1. \A i \in 1 .. Len(inQ) : OneProcess /\ hctl = "live" /\ inQ[i].id = sid => inQ[i].live
    BY DEF PairInv
  <2>2. \A i \in 1 .. Len(inQ') : OneProcess /\ hctl = "live" /\ inQ'[i].id = sid => inQ'[i].live
    BY <1>3, <2>1
  <2>3. OneProcess /\ hctl = "live" /\ input.id = sid => hin' = "live"
    BY <1>1, <1>2, <1>3, <2>1
  <2>4. hctl' = "live" => hctl = "live" /\ input.id = sid
    BY <1>1
  <2> QED BY <1>1, <2>2, <2>3, <2>4 DEF PairInv
<1> QED BY <1>6, <1>7

\* The other steps of the host.
LEMMA HostStepFresh ==
  ASSUME HandshakeInv, FaultsInv, IdsInv, PairInv, OneProcess' => OneProcess,
         WritePreamble \/ PreambleFails \/ AttachTimeout \/ EndAttached \/ HostQuit \/ HostStart
  PROVE  IdsInv' /\ PairInv'
<1>1. CASE WritePreamble
  <2>1. /\ hpc = "select" /\ hpc' = "attach"
        /\ IF hctl = "live" THEN reply' = "ok" /\ gid' = sid ELSE UNCHANGED <<reply, gid>>
        /\ UNCHANGED <<hctl, hin, sid, nextId, inQ, gpc>>
    BY <1>1 DEF WritePreamble, queueVars
  <2>2. gpc # "input" /\ (hctl = "live" => gpc = "hello")
    BY <2>1 DEF HandshakeInv, ControlInv, HandshakeType
  <2> QED BY <2>1, <2>2 DEF IdsInv, PairInv, Attaching
<1>2. CASE PreambleFails \/ AttachTimeout \/ EndAttached
  <2>1. /\ hpc' = "accept" /\ hctl' = "none"
        /\ UNCHANGED <<sid, nextId, inQ, gpc, gid, reply>>
    BY <1>2 DEF PreambleFails, AttachTimeout, EndAttached, EndSession, queueVars
  <2> QED BY <2>1 DEF IdsInv, PairInv, Attaching
<1>3. CASE HostQuit
  <2>1. /\ hpc' = "down" /\ hctl' = "none" /\ inQ' = <<>> /\ htime' = 1
        /\ UNCHANGED <<nextId, gpc, gid, reply>>
    BY <1>3 DEF HostQuit
  <2>2. Len(inQ') = 0 /\ 1 .. Len(inQ') = {}
    BY <2>1, EmptySeq
  <2> QED BY <2>1, <2>2 DEF IdsInv, PairInv, Attaching
<1>4. CASE HostStart
  <2>1. /\ hpc = "down" /\ htime = 0 /\ hpc' = "accept" /\ nextId' = 1
        /\ UNCHANGED <<hctl, inQ, gpc, gid, reply>>
    BY <1>4 DEF HostStart, queueVars, guestVars
  <2>2. hctl = "none"
    BY <2>1 DEF HandshakeInv, HostInv
  <2>3. OneProcess' => 1 .. Len(inQ) = {} /\ ~Attaching
    BY <2>1 DEF IdsInv
  <2> QED BY <2>1, <2>2, <2>3 DEF IdsInv, PairInv, Attaching
<1> QED BY <1>1, <1>2, <1>3, <1>4

\* While the host is down only a suspended guest lets time pass with the id of
\* a session in its hands.
LEMMA TickFresh ==
  ASSUME FaultsInv, IdsInv, PairInv, Tick, OneProcess' => OneProcess
  PROVE  IdsInv' /\ PairInv'
<1>1. /\ GuestWaits
      /\ UNCHANGED <<hpc, hctl, hin, sid, nextId, inQ, gpc, gid, reply>>
  BY DEF Tick, queueVars
<1>2. hpc = "down" /\ OneProcess => stall = 0
  BY DEF FaultsInv, OneProcess
<1>3. hpc = "down" /\ OneProcess => ~Attaching
  BY <1>1, <1>2 DEF GuestWaits, Attaching
<1> QED BY <1>1, <1>3 DEF IdsInv, PairInv, Attaching

\* While ids are left, every step keeps the streams of a session together.
LEMMA StepFreshInv == HandshakeInv /\ FreshInv /\ IdsLeft /\ [Next]_vars => FreshInv'
<1> SUFFICES ASSUME HandshakeInv, FreshInv, IdsLeft, [Next]_vars PROVE FreshInv'
  OBVIOUS
<1> USE DEF FreshInv
<1>1. FaultsInv' /\ (OneProcess' => OneProcess)
  BY StepFaultsInv DEF OneProcess
<1>2. CASE GuestStep
  BY <1>1, <1>2, GuestStepFresh
<1>3. CASE HostStep \/ EndAttached \/ HostQuit
  BY <1>1, <1>3, AcceptControlFresh, AcceptInputFresh, HostStepFresh DEF HostStep
<1>4. CASE GuestCrash
  <2>1. UNCHANGED htime
    BY <1>4 DEF GuestCrash, GuestFails
  <2> QED BY <1>1, <1>4, <2>1, GuestFailsFresh DEF GuestCrash
<1>5. CASE GuestStall \/ UNCHANGED vars
  <2>1. UNCHANGED <<hpc, hctl, hin, sid, nextId, htime, inQ, gpc, gid, reply>>
    BY <1>5 DEF GuestStall, vars, hostVars, queueVars, guestVars
  <2> QED BY <1>1, <2>1 DEF IdsInv, PairInv, Attaching
<1>6. CASE Tick
  BY <1>1, <1>6, TickFresh
<1> QED BY <1>2, <1>3, <1>4, <1>5, <1>6 DEF Next, Faults

\* As long as the ids of the host do not wrap, any timeouts and any number of
\* suspensions and crashes of the guest, or of restarts of the host, leave the
\* two streams of a session those of one attempt; only a suspension and a
\* restart together can pair a living guest's commands with a dead input.
THEOREM OneAttemptUntilIdsWrap == Spec /\ []IdsLeft => []StreamsOfOneAttempt
<1>1. FreshInv => StreamsOfOneAttempt
  BY DEF FreshInv, PairInv, OneProcess, StreamsOfOneAttempt
<1> QED BY <1>1, InitFreshInv, StepFreshInv, HandshakeInvHolds, PTL DEF Spec
=============================================================================
