---------------------------- MODULE ContextCodec ----------------------------
(***************************************************************************)
(* The context extension on the wire: request_router/context.rs, which     *)
(* `write-context` encodes with and the router decodes with, and the       *)
(* classifiers of packet.rs the router asks next.                          *)
(*                                                                         *)
(* A packet is a sequence of cells.  A cell is a byte, or a four-byte      *)
(* integer where the format has one.  Of the bytes there are a control     *)
(* character, printable ones and one that is not UTF-8; the last, of ones  *)
(* only, is a length that no packet has.  The limits are small so that     *)
(* lengths below, at and above each of them fit a cell.                    *)
(***************************************************************************)
EXTENDS Integers, Sequences, SequencesExt

CONSTANTS MaxReasonSize, MaxCommandArguments, MaxCommandSize

ASSUME CodecAssumption ==
  {MaxReasonSize, MaxCommandArguments, MaxCommandSize} \subseteq Nat \ {0}

VARIABLES
  meant,   \* the context write-context was asked for, as a set of at most one
  wire     \* the packet on its way to the daemon, likewise

codecVars == <<meant, wire>>

Control == 0
Printable == {1, 2, 3}
NotUtf8 == -1
Cell == {Control, NotUtf8} \cup Printable

RequestIdentitiesType == 1
ExtensionType == 2
ContextExtension == <<1>>
SessionBindExtension == <<2>>
ContextVersion == 1

Strings(cells, n) == UNION {[1..k -> cells] : k \in 0..n}

(* A group ID stands for its digits, of which 3 is the upper case of 2.    *)
Groups == {1, 2}
Lower(digit) == IF digit = 3 THEN 2 ELSE digit
Digits(g) == {digit \in Printable : Lower(digit) = g}

(* It is written in the simple form and in lower case.  It is read in any  *)
(* case, in the simple form or in a longer one.                            *)
Simple(g) == <<g>>
Forms(g) == {<<digit>> : digit \in Digits(g)} \cup {<<Control, digit>> : digit \in Digits(g)}
GroupOf(text) == {g \in Groups : text \in Forms(g)}

-----------------------------------------------------------------------------
(* Decoding *)

PacketPayload(packet) == IF packet # <<>> /\ Head(packet) = Len(packet) - 1 THEN {Tail(packet)} ELSE {}

(* rest is what follows the decoder's offset.                              *)
HasString(rest) == rest # <<>> /\ Head(rest) \in 0..(Len(rest) - 1)
SshString(rest) == SubSeq(rest, 2, Head(rest) + 1)
AfterString(rest) == SubSeq(rest, Head(rest) + 2, Len(rest))

IsText(value, size) ==
  /\ Len(value) \in 1..size
  /\ \A i \in DOMAIN value : value[i] \in Printable

(* String::from_utf8_lossy: three bytes replace one that is not UTF-8.     *)
Character(byte) == IF byte = NotUtf8 THEN <<2, 2, 2>> ELSE <<byte>>

Lossy(value) ==
  LET text[i \in 0..Len(value)] == IF i = 0 THEN <<>> ELSE text[i - 1] \o Character(value[i])
  IN  text[Len(value)]

TakeArgument(s) ==
  LET argument == SshString(s.rest)
      size     == s.size + Len(argument)
  IN  IF s.ok /\ HasString(s.rest) /\ size <= MaxCommandSize
      THEN [ok |-> TRUE, rest |-> AfterString(s.rest), size |-> size,
            command |-> Append(s.command, Lossy(argument))]
      ELSE [s EXCEPT !.ok = FALSE]

TakeCommand(rest, count) ==
  LET taken[i \in 0..count] ==
        IF i = 0 THEN [ok |-> TRUE, rest |-> rest, size |-> 0, command |-> <<>>]
        ELSE TakeArgument(taken[i - 1])
  IN  taken[count]

(* Mutant: what follows the last argument is not looked at. *)
Finished_Lenient(rest) == TRUE

Finished(rest) == rest = <<>>

DecodeContext(rest) ==
  LET group   == Tail(rest)
      reason  == AfterString(group)
      count   == AfterString(reason)
      decoded == TakeCommand(Tail(count), Head(count))
      valid   == /\ rest # <<>> /\ Head(rest) = ContextVersion
                 /\ HasString(group) /\ GroupOf(SshString(group)) # {}
                 /\ HasString(reason) /\ IsText(SshString(reason), MaxReasonSize)
                 /\ count # <<>> /\ Head(count) \in 1..MaxCommandArguments
                 /\ decoded.ok /\ Finished(decoded.rest)
  IN  {[group |-> g, reason |-> SshString(reason), command |-> decoded.command] :
         g \in IF valid THEN GroupOf(SshString(group)) ELSE {}}

(* The payload is for another reader: Ok(None).                            *)
IsOther(payload) ==
  /\ payload # <<>>
  /\ \/ Head(payload) # ExtensionType
     \/ HasString(Tail(payload)) /\ SshString(Tail(payload)) # ContextExtension

(* Ok(Some(context)) for a member, an error or Ok(None) if there is none.  *)
Decode(packet) ==
  UNION {IF payload = <<>> \/ IsOther(payload) \/ ~HasString(Tail(payload)) THEN {}
         ELSE DecodeContext(AfterString(Tail(payload))) : payload \in PacketPayload(packet)}

Class(packet) ==
  IF \A payload \in PacketPayload(packet) : IsOther(payload) THEN "other"
  ELSE IF Decode(packet) = {} THEN "badContext" ELSE "context"

IsIdentityRequest(packet) == <<RequestIdentitiesType>> \in PacketPayload(packet)

IsSessionBindRequest(packet) ==
  \E payload \in PacketPayload(packet) :
    /\ payload # <<>> /\ Head(payload) = ExtensionType
    /\ HasString(Tail(payload)) /\ SshString(Tail(payload)) = SessionBindExtension

-----------------------------------------------------------------------------
(* Encoding *)

PushString(packet, value) == packet \o <<Len(value)>> \o value

(* The frame of a context with its group ID spelled so, whether its fields *)
(* are in bounds or not.                                                   *)
Prefix(group) == PushString(PushString(<<ExtensionType>>, ContextExtension) \o <<ContextVersion>>, group)

PushCommand(packet, command) ==
  LET pushed[i \in 0..Len(command)] ==
        IF i = 0 THEN packet \o <<Len(command)>> ELSE PushString(pushed[i - 1], command[i])
  IN  pushed[Len(command)]

FrameWith(group, context) ==
  LET text    == PushString(Prefix(group), context.reason)
      payload == PushCommand(text, context.command)
  IN  <<Len(payload)>> \o payload

ContextFrame(context) == FrameWith(Simple(context.group), context)

CommandSize(command) ==
  LET size[i \in 0..Len(command)] == IF i = 0 THEN 0 ELSE size[i - 1] + Len(command[i])
  IN  size[Len(command)]

(* Mutant: the size of the command is not checked. *)
Encodable_AnySize(context) ==
  /\ IsText(context.reason, MaxReasonSize)
  /\ Len(context.command) \in 1..MaxCommandArguments

Encodable(context) ==
  /\ IsText(context.reason, MaxReasonSize)
  /\ Len(context.command) \in 1..MaxCommandArguments
  /\ CommandSize(context.command) <= MaxCommandSize

Encode(context) == IF Encodable(context) THEN {ContextFrame(context)} ELSE {}

-----------------------------------------------------------------------------
(* Inputs: every string up to one above each limit. *)

Text == Cell \ {NotUtf8}
Contexts ==
  [group   : Groups,
   reason  : Strings(Text, MaxReasonSize + 1),
   command : Strings(Strings({Control, 2}, MaxCommandSize), MaxCommandArguments + 1)]

GroupTexts == {Simple(2), <<3>>, <<Control, 3>>, <<NotUtf8>>}
Prefixed == {Prefix(group) \o tail : group \in GroupTexts, tail \in Strings(Cell, 7)}

Packets == {<<Len(payload)>> \o payload : payload \in Strings(Cell, 5) \cup Prefixed}

CodecInit == meant = {} /\ wire = {}

(* A refused context is not written: write-context exits with the error.   *)
WriteContext(context) ==
  /\ meant' = {context}
  /\ wire' = Encode(context)

(* Any other local program sends a packet of its own.                      *)
SendPacket(packet) ==
  /\ wire' = {packet}
  /\ UNCHANGED meant

(* The daemon has decoded the packet.                                      *)
Consume ==
  /\ ~CodecInit
  /\ meant' = {} /\ wire' = {}

CodecNext ==
  \/ /\ CodecInit
     /\ \/ \E context \in Contexts : WriteContext(context)
        \/ \E packet \in Packets : SendPacket(packet)
  \/ Consume

CodecSpec == CodecInit /\ [][CodecNext]_codecVars

-----------------------------------------------------------------------------
(* Properties. *)

(* Encode and decode have the same limits: a context is refused before it  *)
(* is sent exactly when the daemon would refuse its frame, and one that is *)
(* sent arrives with the same group, reason and argument boundaries.       *)
RoundTrip ==
  \A context \in meant :
    /\ wire = {} <=> Decode(ContextFrame(context)) = {}
    /\ \A packet \in wire : Decode(packet) = {context}

(* A packet that the daemon takes as a context has no slack and no second  *)
(* reading: its fields are within the limits of `write-context`, and it is *)
(* the frame of that context with one of the spellings of the group ID,    *)
(* unless an argument is not UTF-8.  So two packets mean the same context  *)
(* only if they spell its group differently.  And it takes no packet of    *)
(* the SSH protocol for one.                                               *)
OneReading ==
  \A packet \in wire :
    /\ Class(packet) # "other" => ~IsIdentityRequest(packet) /\ ~IsSessionBindRequest(packet)
    /\ \A context \in Decode(packet) :
         \/ /\ Encodable(context)
            /\ \E text \in Forms(context.group) : packet = FrameWith(text, context)
         \/ NotUtf8 \in Range(packet)
=============================================================================
