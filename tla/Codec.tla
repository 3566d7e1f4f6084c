------------------------------- MODULE Codec --------------------------------
(***************************************************************************)
(* WebSocket messages and the codecs (codec.rs, the custom_codec example,  *)
(* and the conversions of hub_client.rs between the two WebSocket crates). *)
(*                                                                         *)
(* A message is its frame variant, the format of its payload and the value *)
(* that the payload stands for.  serde's formats are not looked into: a    *)
(* payload reads back as the value written if the format is the same.      *)
(***************************************************************************)
EXTENDS Naturals

Codecs == {"JsonCodec", "BinaryCodec", "MsgpackCodec"}

Variants == {"Text", "Binary", "Ping", "Pong", "Close", "Frame"}

NoMessage == [variant |-> "Frame", format |-> "none", value |-> 0]

\* Ping, Pong and Close: no payload a codec would read.
Control(variant) == [NoMessage EXCEPT !.variant = variant]

\* The variant that encode produces, and those that decode does not refuse.
Produces == [JsonCodec |-> "Text", BinaryCodec |-> "Binary",
             MsgpackCodec |-> "Binary"]
Accepts == [JsonCodec |-> {"Text", "Binary"}, BinaryCodec |-> {"Binary"},
            MsgpackCodec |-> {"Binary"}]

Encode(codec, value) ==
  [variant |-> Produces[codec], format |-> codec, value |-> value]

\* Ok, and then the value that Decode gives, or an error.
Decodes(codec, msg) == msg.variant \in Accepts[codec] /\ msg.format = codec
Decode(codec, msg) == msg.value

\* Close loses its reason, which Control leaves out anyway.
AxumToTung(msg) == IF msg.variant = "Close" THEN Control("Close") ELSE msg

TungToAxum(msg) ==
  IF msg.variant \in {"Text", "Binary"} THEN msg ELSE NoMessage
=============================================================================
