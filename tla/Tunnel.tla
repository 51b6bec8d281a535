-------------------------------- MODULE Tunnel --------------------------------
(***************************************************************************)
(* `aws ec2-instance-connect open-tunnel`: the listener of                 *)
(* ec2instanceconnect.rs and, for each connection it accepts, the reader   *)
(* thread, the channel and the pump between the local connection and a     *)
(* websocket (websocket.rs).                                               *)
(*                                                                         *)
(* Data is counted in chunks: the local end sends chunks 1, 2, ..., and    *)
(* the far end (external) answers a chunk with one of the same number, or  *)
(* does not.  It may close, well or not, send text, ping, or vanish at any *)
(* moment.  A frame that cannot be read, or of an opcode that is not       *)
(* known, ends the pump as text does.                                      *)
(***************************************************************************)
EXTENDS Naturals, Sequences, SequencesExt, FiniteSets

CONSTANTS
  Conns,              (* the connections made to the listener              *)
  MaxLive,            (* --max-websocket-connections                       *)
  Chunks              (* bound: chunks a local end sends                   *)

(* The frames that are not data; data is its chunk's number. *)
Close == 101        (* the answer to the close frame of the local side   *)
Refusal == 102      (* a close frame with a code other than 1000         *)
Text == 103
Ping == 104
Pong == 105
Farewell == 106     (* a close frame of code 1000, or without a code,    *)
                    (* that the far end sends of its own accord          *)

VARIABLES
  tunnel,             (* "none", "connecting", "drain", "read", "ok",      *)
                      (* "error" or "refused": the pump thread             *)
  sent, eof,          (* the local end: chunks sent, and whether it is     *)
                      (* done sending                                      *)
  local,              (* chunks sent and not yet read                      *)
  reading,            (* whether the reader thread still runs              *)
  channel,            (* the channel from the reader to the pump           *)
  inputOpen,          (* input_open                                        *)
  closeSent,          (* WebSocket::closed                                 *)
  up, down,           (* the frames on the wire, to and from the far end   *)
  peer,               (* the far end: "open", "closed" or "gone"           *)
  got,                (* the chunks it received                            *)
  replied,            (* the chunks it sent                                *)
  delivered           (* the chunks written to the local end               *)

pumpVars == <<tunnel, inputOpen, closeSent>>
localVars == <<sent, eof, local, reading>>
wireVars == <<up, down>>
peerVars == <<peer, got, replied>>
tunnelVars == <<pumpVars, localVars, channel, wireVars, peerVars, delivered>>

Each(v) == [c \in Conns |-> v]

TunnelInit ==
  /\ tunnel = Each("none")
  /\ sent = Each(0) /\ eof = Each(FALSE) /\ local = Each(<<>>)
  /\ reading = Each(FALSE)
  /\ channel = Each(<<>>)
  /\ inputOpen = Each(TRUE) /\ closeSent = Each(FALSE)
  /\ up = Each(<<>>) /\ down = Each(<<>>)
  /\ peer = Each("open") /\ got = Each(<<>>) /\ replied = Each(<<>>)
  /\ delivered = Each(<<>>)

Put(f, c, frame) == [f EXCEPT ![c] = Append(@, frame)]
Drop(f, c) == [f EXCEPT ![c] = Tail(@)]
To(c, state) == tunnel' = [tunnel EXCEPT ![c] = state]

-----------------------------------------------------------------------------
(* The listener. *)
Live == {c \in Conns : tunnel[c] \in {"connecting", "drain", "read"}}

Accept(c) ==
  /\ tunnel[c] = "none"
  /\ IF Cardinality(Live) >= MaxLive THEN To(c, "refused") ELSE To(c, "connecting")
  /\ UNCHANGED <<inputOpen, closeSent, localVars, channel, wireVars, peerVars, delivered>>

(* A connection's own thread: the handshake, and the reader is spawned. *)
Connect(c) ==
  /\ tunnel[c] = "connecting"
  /\ \/ To(c, "drain") /\ reading' = [reading EXCEPT ![c] = TRUE]
     \/ To(c, "error") /\ UNCHANGED reading
  /\ UNCHANGED <<inputOpen, closeSent, sent, eof, local, channel, wireVars, peerVars, delivered>>

(* The reader thread: a read, and a send that fails once the pump is gone. *)
Pumping(c) == tunnel[c] \in {"drain", "read"}

Read(c) ==
  /\ reading[c]
  /\ local[c] # <<>>
  /\ local' = Drop(local, c)
  /\ IF Pumping(c) THEN channel' = Put(channel, c, Head(local[c])) /\ UNCHANGED reading
     ELSE reading' = [reading EXCEPT ![c] = FALSE] /\ UNCHANGED channel
  /\ UNCHANGED <<pumpVars, sent, eof, wireVars, peerVars, delivered>>

ReadEnd(c) ==
  /\ reading[c]
  /\ local[c] = <<>> /\ eof[c]
  /\ reading' = [reading EXCEPT ![c] = FALSE]
  /\ UNCHANGED <<pumpVars, sent, eof, local, channel, wireVars, peerVars, delivered>>

-----------------------------------------------------------------------------
(* The pump.  Leaving it closes the socket, if it has not been closed. *)
Leave(c, result) ==
  /\ To(c, result)
  /\ closeSent' = [closeSent EXCEPT ![c] = TRUE]
  /\ UNCHANGED inputOpen

(* Everything waiting from the local side goes out first.  A send may fail *)
(* once the far end has closed or vanished.                                *)
SendChunk(c) ==
  /\ tunnel[c] = "drain"
  /\ channel[c] # <<>>
  /\ channel' = Drop(channel, c)
  /\ \/ up' = Put(up, c, Head(channel[c])) /\ UNCHANGED pumpVars
     \/ peer[c] # "open" /\ Leave(c, "error") /\ UNCHANGED up
  /\ UNCHANGED <<localVars, down, peerVars, delivered>>

(* A mutant: the end of the input ends the tunnel. *)
TearDown(c) ==
  /\ tunnel[c] = "drain"
  /\ channel[c] = <<>>
  /\ IF reading[c] THEN To(c, "read") /\ UNCHANGED <<inputOpen, closeSent, up>>
     ELSE Leave(c, "ok") /\ up' = Put(up, c, Close)
  /\ UNCHANGED <<localVars, channel, down, peerVars, delivered>>

(* Nothing is waiting; when the local side is done sending, the tunnel is  *)
(* half-closed.                                                            *)
Drained(c) ==
  /\ tunnel[c] = "drain"
  /\ channel[c] = <<>>
  /\ To(c, "read")
  /\ IF reading[c] \/ ~inputOpen[c] THEN UNCHANGED <<inputOpen, closeSent, up>>
     ELSE /\ inputOpen' = [inputOpen EXCEPT ![c] = FALSE]
          /\ closeSent' = [closeSent EXCEPT ![c] = TRUE]
          /\ up' = Put(up, c, Close)
  /\ UNCHANGED <<localVars, channel, down, peerVars, delivered>>

(* read_frame found nothing in time. *)
PollTimeout(c) ==
  /\ tunnel[c] = "read"
  /\ down[c] = <<>> /\ peer[c] # "gone"
  /\ To(c, "drain")
  /\ UNCHANGED <<inputOpen, closeSent, localVars, channel, wireVars, peerVars, delivered>>

(* The far end vanished without a close frame: an ordinary end, unless the *)
(* connection was reset, which may take what is not read yet with it.      *)
ReadEof(c) ==
  /\ tunnel[c] = "read"
  /\ peer[c] = "gone"
  /\ \/ down[c] = <<>> /\ Leave(c, "ok")
     \/ Leave(c, "error")
  /\ UNCHANGED <<localVars, channel, wireVars, peerVars, delivered>>

ReadFrame(c) ==
  /\ tunnel[c] = "read"
  /\ down[c] # <<>>
  /\ down' = Drop(down, c)
  /\ LET frame == Head(down[c])
     IN  \/ /\ frame \in 1 .. Chunks
            /\ \/ delivered' = Put(delivered, c, frame) /\ To(c, "drain")
                  /\ UNCHANGED <<inputOpen, closeSent>>
               \/ Leave(c, "error") /\ UNCHANGED delivered   \* the write failed
            /\ UNCHANGED up
         \/ /\ frame = Ping
            /\ \/ up' = Put(up, c, Pong) /\ To(c, "drain")
                  /\ UNCHANGED <<inputOpen, closeSent>>
               \/ peer[c] # "open" /\ Leave(c, "error") /\ UNCHANGED up
            /\ UNCHANGED delivered
         \/ frame \in {Close, Farewell} /\ Leave(c, "ok") /\ UNCHANGED <<up, delivered>>
         \/ frame \in {Text, Refusal} /\ Leave(c, "error") /\ UNCHANGED <<up, delivered>>
  /\ UNCHANGED <<localVars, channel, peerVars>>

-----------------------------------------------------------------------------
(* The local end. *)
SendLocal(c) ==
  /\ ~eof[c] /\ sent[c] < Chunks
  /\ tunnel[c] # "refused"
  /\ sent' = [sent EXCEPT ![c] = @ + 1]
  /\ local' = Put(local, c, sent[c] + 1)
  /\ UNCHANGED <<pumpVars, eof, reading, channel, wireVars, peerVars, delivered>>

CloseLocal(c) ==
  /\ ~eof[c]
  /\ eof' = [eof EXCEPT ![c] = TRUE]
  /\ UNCHANGED <<pumpVars, sent, local, reading, channel, wireVars, peerVars, delivered>>

(* The far end: it takes a frame and may answer it, and it answers a close *)
(* with its own.                                                           *)
PeerTakes(c) ==
  /\ peer[c] = "open"
  /\ up[c] # <<>>
  /\ up' = Drop(up, c)
  /\ LET frame == Head(up[c])
     IN  \/ /\ frame \in 1 .. Chunks
            /\ got' = Put(got, c, frame)
            /\ \/ replied' = Put(replied, c, frame) /\ down' = Put(down, c, frame)
               \/ UNCHANGED <<replied, down>>
            /\ UNCHANGED peer
         \/ /\ frame = Close
            /\ down' = Put(down, c, Close)
            /\ peer' = [peer EXCEPT ![c] = "closed"]
            /\ UNCHANGED <<got, replied>>
         \/ frame = Pong /\ UNCHANGED <<peer, got, replied, down>>
  /\ UNCHANGED <<pumpVars, localVars, channel, delivered>>

PeerSays(c, frame) ==
  /\ peer[c] = "open"
  /\ Pumping(c)
  /\ Range(down[c]) \cap {Text, Ping, Refusal} = {} /\ Pong \notin Range(up[c])
  /\ down' = Put(down, c, frame)
  /\ peer' = IF frame \in {Refusal, Farewell} THEN [peer EXCEPT ![c] = "closed"] ELSE peer
  /\ UNCHANGED <<pumpVars, localVars, channel, up, got, replied, delivered>>

PeerVanishes(c) ==
  /\ peer[c] = "open"
  /\ Pumping(c)
  /\ peer' = [peer EXCEPT ![c] = "gone"]
  /\ UNCHANGED <<pumpVars, localVars, channel, wireVars, got, replied, delivered>>

ReaderStep(c) == Read(c) \/ ReadEnd(c)
PumpStep(c) ==
  \/ Connect(c) \/ SendChunk(c) \/ Drained(c)
  \/ PollTimeout(c) \/ ReadEof(c) \/ ReadFrame(c)
Outside(c) ==
  SendLocal(c) \/ CloseLocal(c) \/ PeerVanishes(c)
  \/ \E frame \in {Text, Ping, Refusal, Farewell} : PeerSays(c, frame)

TunnelNext ==
  \E c \in Conns :
    Accept(c) \/ ReaderStep(c) \/ PumpStep(c) \/ PeerTakes(c) \/ Outside(c)

TunnelSpec == TunnelInit /\ [][TunnelNext]_tunnelVars

(* The threads run, and the far end takes what it is sent. *)
Fairness ==
  \A c \in Conns : /\ WF_tunnelVars(ReaderStep(c))
                   /\ WF_tunnelVars(PumpStep(c))
                   /\ WF_tunnelVars(PeerTakes(c))
TunnelFairSpec == TunnelSpec /\ Fairness

-----------------------------------------------------------------------------
(* Chunks arrive in order at both ends; when the far end answers a close   *)
(* that the end of the input caused, it has received every chunk; and a    *)
(* tunnel that ends well has delivered everything the far end sent before  *)
(* its close, whichever end began to close, the last reply of the session  *)
(* included ("dropping it here would truncate the last reply of a          *)
(* session").  No more tunnels are open than the limit allows.             *)
LastReplyDelivered ==
  /\ Cardinality(Live) <= MaxLive
  /\ \A c \in Conns :
       /\ \A k \in DOMAIN got[c] : got[c][k] = k
       /\ IsPrefix(delivered[c], replied[c])
       /\ ~inputOpen[c] /\ peer[c] = "closed" /\ Close \in Range(down[c]) =>
            Len(got[c]) = sent[c]
       /\ tunnel[c] = "ok" /\ peer[c] # "gone" => delivered[c] = replied[c]

(* Once the local end is done sending, the tunnel ends. *)
TunnelOver == \A c \in Conns : ~(eof[c] /\ Pumping(c))
===============================================================================
