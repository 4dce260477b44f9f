----------------------------- MODULE NetChecksum -----------------------------
(***************************************************************************)
(* The Internet checksum of net_proto.c and the three places that store    *)
(* it: the IPv4 header, the ICMP echo reply and the UDP datagram with its  *)
(* pseudo header. Bytes have Base values instead of 256, so that a message *)
(* of several words can be read as one number.                             *)
(***************************************************************************)
EXTENDS Integers, Sequences, FiniteSetsExt

CONSTANTS Base,        \* values of a byte
          MaxLength,   \* bound on the length of a message
          AddressBytes \* bytes of the pseudo header's addresses

VARIABLES bytes, \* the message, its checksum field zero or not yet written
          sent   \* what a builder made of it, with the pseudo header before it
vars == <<bytes, sent>>

BaseAssumption == Base \in Nat /\ Base >= 2

Byte == 0 .. Base - 1
Word == Base * Base     \* stands for 65536
Addresses == AddressBytes \X AddressBytes

Nothing == [kind |-> "nothing", pseudo |-> <<>>, data |-> <<>>]

-----------------------------------------------------------------------------
\* The loop `while (sum >> 16)`: the carries are added back.
fold[sum \in Nat] == IF sum < Word THEN sum ELSE fold[(sum % Word) + (sum \div Word)]

\* A faulty variant: a last odd byte is added as the low half of its word.
WordLow(data, i) == IF i < Len(data) THEN data[i] * Base + data[i + 1] ELSE data[i]

\* read_be16, and a last odd byte as the high half of a word.
WordAt(data, i) == IF i < Len(data) THEN data[i] * Base + data[i + 1] ELSE data[i] * Base

checksum_add(sum, data) ==
    fold[sum + MapThenSumSet(LAMBDA i : WordAt(data, i), {i \in DOMAIN data : i % 2 = 1})]

checksum_finish(sum) == (Word - 1) - fold[sum]

josh_net_checksum(data) == checksum_finish(checksum_add(0, data))

\* transport_checksum_ipv4: address by address, then protocol and length, then
\* the segment, with the carries folded after each.
Pseudo(source, destination, length) ==
    source \o destination \o <<0, 1, length \div Base, length % Base>>

transport_checksum_ipv4(source, destination, data) ==
    LET a == checksum_add(0, source)
        b == checksum_add(a, destination)
        c == checksum_add(b, <<0, 1, Len(data) \div Base, Len(data) % Base>>)
    IN  checksum_finish(checksum_add(c, data))

\* write_be16 into the field, the third and fourth byte in all three formats
\* of this model.
Store(data, sum) == [data EXCEPT ![3] = sum \div Base, ![4] = sum % Base]

-----------------------------------------------------------------------------
\* The caller's message grows by a byte; the field is zero while it is summed.
Write(b) ==
    /\ Len(bytes) < MaxLength
    /\ bytes' = Append(bytes, IF Len(bytes) \in {2, 3} THEN 0 ELSE b)
    /\ sent' = Nothing

\* josh_ipv4_build: the header is summed with a zero field.
josh_ipv4_build ==
    /\ Len(bytes) >= 4
    /\ sent' = [kind |-> "ipv4", pseudo |-> <<>>,
                data |-> Store(bytes, josh_net_checksum(bytes))]
    /\ UNCHANGED bytes

\* josh_icmp_echo_reply to a request whose checksum is right: the type becomes
\* zero and the sum is taken anew.
josh_icmp_echo_reply ==
    /\ Len(bytes) >= 4
    /\ LET request == Store(bytes, josh_net_checksum(bytes))
           reply == [request EXCEPT ![1] = 0, ![3] = 0, ![4] = 0]
       IN  /\ josh_net_checksum(request) = 0
           /\ sent' = [kind |-> "icmp", pseudo |-> <<>>,
                       data |-> Store(reply, josh_net_checksum(reply))]
    /\ UNCHANGED bytes

\* josh_udp_build_ipv4: a sum of zero is sent as all ones, zero meaning none.
josh_udp_build_ipv4(source, destination) ==
    /\ Len(bytes) >= 4
    /\ LET sum == transport_checksum_ipv4(source, destination, bytes)
       IN  sent' = [kind |-> "udp", pseudo |-> Pseudo(source, destination, Len(bytes)),
                    data |-> Store(bytes, IF sum = 0 THEN Word - 1 ELSE sum)]
    /\ UNCHANGED bytes

Init == bytes = <<>> /\ sent = Nothing

Next ==
    \/ \E b \in Byte : Write(b)
    \/ josh_ipv4_build
    \/ josh_icmp_echo_reply
    \/ \E s, d \in Addresses : josh_udp_build_ipv4(s, d)

Spec == Init /\ [][Next]_vars

-----------------------------------------------------------------------------
(* Properties. *)

\* A message as one number, padded to whole words.
Padded(data) == IF Len(data) % 2 = 0 THEN data ELSE Append(data, 0)
NumberOf(data) ==
    MapThenSumSet(LAMBDA i : data[i] * Base ^ (Len(data) - i), DOMAIN data)

\* What a receiver that knows only the definition of the checksum sees in every
\* message the builders make: read as one number, pseudo header included, it is
\* a multiple of Word - 1 and not zero, whatever carries, odd lengths and
\* regrouping the code went through; and no datagram carries the zero that
\* means "no checksum".
ChecksumsVerify ==
    sent.kind # "nothing" =>
        /\ NumberOf(sent.pseudo \o Padded(sent.data)) % (Word - 1) = 0
        /\ NumberOf(sent.data) # 0
        /\ sent.kind = "udp" => SubSeq(sent.data, 3, 4) # <<0, 0>>
=============================================================================
