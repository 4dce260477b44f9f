------------------------------ MODULE NetParse ------------------------------
(***************************************************************************)
(* The packet parsers of net_proto.c, each handed the payload that the one *)
(* before it returned: Ethernet, then ARP or IPv4, then UDP or TCP, then   *)
(* the DHCP options or the DNS records, walked option by option and label  *)
(* by label.                                                               *)
(*                                                                         *)
(* A byte of the frame is chosen when the code reads it. The state is the  *)
(* slice of the frame the current parser was given (base, length), its     *)
(* cursor (offset, relative to the slice) and the bytes it touched last.   *)
(* Lengths are the code's own, so that length - offset is what size_t      *)
(* computes as long as it is not negative.                                 *)
(***************************************************************************)
EXTENDS Integers

CONSTANTS FrameLengths,  \* lengths of received frames
          HeaderWords,   \* nibbles that give the length of a header in words
          Claims,        \* 16-bit length fields of a message of so many bytes
          OptionLengths, \* length bytes of DHCP options
          LabelSizes,    \* length bytes of DNS labels
          RdLengths,     \* lengths of the data of DNS records
          MaxQuestions, MaxAnswers,  \* bounds on a DNS message
          MAX_LABELS     \* 127 in dns_skip_name

\* Lengths and the fields that are lengths are not negative.
FieldsAssumption ==
    /\ FrameLengths \cup HeaderWords \cup OptionLengths \cup LabelSizes \cup RdLengths
         \subseteq Nat
    /\ \A n \in FrameLengths : \A i \in 0 .. n : Claims[i] \subseteq Nat

VARIABLES frame,   \* length of the frame
          layer,   \* the parser at work, or the status it returned
          base, length, \* the slice it works on
          offset,  \* its cursor
          touched, \* first and number of the bytes last read, in the frame
          accepted, \* message_type of the DHCP reply is that of an offer or an ack
          dns      \* records still to come, labels of the name so far
vars == <<frame, layer, base, length, offset, touched, accepted, dns>>

Idle == [questions |-> 0, answers |-> 0, labels |-> 0]

\* Bytes n from o of the slice are read or copied.
Touch(o, n) == touched' = <<base + o, n>>

\* The next parser gets the slice of n bytes at o.
Descend(next, o, n) ==
    /\ layer' = next /\ base' = base + o /\ length' = n /\ offset' = 0

Stay == UNCHANGED <<frame, base, length>>

\* An early return.
Fail(status) ==
    /\ layer' = status
    /\ UNCHANGED <<frame, base, length, offset, touched, dns>>

-----------------------------------------------------------------------------
josh_eth_parse ==
    /\ layer = "eth"
    /\ \/ length < 14 /\ Fail("truncated")
       \/ /\ length >= 14
          /\ Touch(0, 14)
          /\ \E next \in {"arp", "ipv4"} : Descend(next, 14, length - 14)
          /\ UNCHANGED <<frame, dns>>

josh_arp_parse ==
    /\ layer = "arp"
    /\ \/ length < 28 /\ Fail("truncated")
       \/ /\ length >= 28
          /\ Touch(0, 28)
          /\ layer' \in {"unsupported", "malformed", "ok"}
          /\ Stay /\ UNCHANGED <<offset, dns>>

\* A faulty variant: the total length is compared with the header only.
TotalAtLeastHeader(total, header) == total >= header

\* The test on the total length of an IPv4 packet.
TotalOk(total, header) == total >= header /\ total <= length

\* josh_ipv4_parse: version and header length share the first byte; the header
\* length is four times a nibble, the checksum runs
\* over the header, and the payload ends at the total length.
josh_ipv4_parse ==
    /\ layer = "ipv4"
    /\ \/ length < 20 /\ Fail("truncated")
       \/ /\ length >= 20
          /\ \E version \in {4, 6}, ihl \in HeaderWords, total \in Claims[length] :
                /\ IF version # 4 \/ ihl < 5
                   THEN layer' = "malformed" /\ Touch(0, 1) /\ UNCHANGED <<base, length, offset>>
                   ELSE IF 4 * ihl > length \/ ~TotalOk(total, 4 * ihl)
                   THEN layer' = "truncated" /\ Touch(0, 4) /\ UNCHANGED <<base, length, offset>>
                   ELSE /\ Touch(0, 4 * ihl)
                        /\ \/ layer' = "checksum" /\ UNCHANGED <<base, length, offset>>
                           \/ \E next \in {"udp", "tcp", "icmp"} :
                                 Descend(next, 4 * ihl, total - 4 * ihl)
          /\ UNCHANGED <<frame, dns>>

\* josh_icmp_echo_reply: the whole message is summed and copied.
josh_icmp_echo_reply ==
    /\ layer = "icmp"
    /\ \/ length < 8 /\ Fail("truncated")
       \/ /\ length >= 8
          /\ Touch(0, length)
          /\ layer' \in {"buffer", "unsupported", "checksum", "ok"}
          /\ Stay /\ UNCHANGED <<offset, dns>>

josh_udp_parse ==
    /\ layer = "udp"
    /\ \/ length < 8 /\ Fail("truncated")
       \/ /\ length >= 8
          /\ Touch(0, 8)
          /\ \E encoded \in Claims[length] :
                /\ IF encoded < 8 \/ encoded > length
                   THEN layer' = "malformed" /\ UNCHANGED <<base, length, offset>>
                   ELSE \E next \in {"dhcp", "dns"} : Descend(next, 8, encoded - 8)
          /\ UNCHANGED <<frame, dns>>

josh_tcp_parse ==
    /\ layer = "tcp"
    /\ \/ length < 20 /\ Fail("truncated")
       \/ /\ length >= 20
          /\ Touch(0, 20)
          /\ \E words \in HeaderWords :
                IF 4 * words \in 20 .. length
                THEN Descend("ok", 4 * words, length - 4 * words)
                ELSE layer' = "malformed" /\ UNCHANGED <<base, length, offset>>
          /\ UNCHANGED <<frame, dns>>

-----------------------------------------------------------------------------
\* josh_dhcp_parse_reply up to its loop: the fixed part and the magic number.
DhcpFixed ==
    /\ layer = "dhcp"
    /\ \/ length < 240 /\ Fail("truncated")
       \/ /\ length >= 240
          /\ Touch(0, 240)
          /\ \/ layer' \in {"unsupported", "malformed"} /\ UNCHANGED offset
             \/ layer' = "options" /\ offset' = 240
          /\ Stay /\ UNCHANGED dns

\* The option's value lies in the packet: the cursor stands on its length byte.
OptionFits(n) == n <= length - (offset + 2)

\* How many bytes of an option's value of n bytes are read: the options the
\* parser knows each have a length of their own, and one of another length is
\* passed over like an unknown one.
ValueRead(code, n) ==
    CASE code = 53 /\ n = 1 -> 1
      [] code \in {1, 51, 54} /\ n = 4 -> 4
      [] code \in {3, 6} /\ n >= 4 -> 4
      [] OTHER -> 0

\* The codes that the parser knows, and one that it does not.
OptionCodes == {1, 3, 6, 12, 51, 53, 54}

\* After the loop the message type decides.
Verdict == IF accepted THEN "ok" ELSE "malformed"

\* One turn of the option loop: a pad byte, the end marker, or an option whose
\* length byte must be there and whose value must fit.
DhcpOption ==
    /\ layer = "options" /\ offset < length
    /\ \/ /\ Touch(offset, 1) /\ offset' = offset + 1
          /\ layer' \in {"options", Verdict}
          /\ UNCHANGED accepted
       \/ /\ offset + 1 >= length
          /\ Touch(offset, 1) /\ layer' = "truncated" /\ UNCHANGED <<offset, accepted>>
       \/ /\ offset + 1 < length
          /\ \E code \in OptionCodes, n \in OptionLengths :
                IF OptionFits(n)
                THEN /\ Touch(offset, 2 + ValueRead(code, n))
                     /\ offset' = offset + 2 + n /\ UNCHANGED layer
                     /\ IF code = 53 /\ n = 1 THEN accepted' \in BOOLEAN ELSE UNCHANGED accepted
                ELSE Touch(offset, 2) /\ layer' = "truncated" /\ UNCHANGED <<offset, accepted>>
    /\ Stay /\ UNCHANGED dns

\* The loop ran off the end.
DhcpEnd ==
    /\ layer = "options" /\ offset >= length
    /\ layer' = Verdict
    /\ UNCHANGED <<frame, base, length, offset, touched, dns>>

-----------------------------------------------------------------------------
\* Where the DNS parser goes on: a name of the next question or answer, or the
\* end without an address.
NextRecord(questions, answers) ==
    /\ layer' = IF questions + answers > 0 THEN "name" ELSE "unsupported"
    /\ dns' = [questions |-> questions, answers |-> answers, labels |-> 0]

\* josh_dns_parse_a_response up to its loops.
DnsFixed ==
    /\ layer = "dns"
    /\ \/ length < 12 /\ Fail("truncated")
       \/ /\ length >= 12
          /\ Touch(0, 12)
          /\ \/ layer' = "malformed" /\ UNCHANGED <<offset, dns>>
             \/ /\ offset' = 12
                /\ \E q \in 0 .. MaxQuestions, a \in 0 .. MaxAnswers : NextRecord(q, a)
          /\ Stay

\* A faulty variant: a pointer to the start of the records is followed.
PointerFollowed == offset' \in {12, 13} /\ layer' = "name"

\* A compression pointer ends the name and is skipped.
PointerSkipped == offset' = offset + 2 /\ layer' = "fixed"

\* One turn of dns_skip_name: the end of the name, a pointer that takes one
\* more byte and is not followed, or a label.
DnsLabel ==
    /\ layer = "name"
    /\ \/ /\ offset >= length
          /\ Fail("truncated")
       \/ /\ offset < length
          /\ \/ /\ Touch(offset, 1)
                /\ offset' = offset + 1 /\ layer' = "fixed" /\ UNCHANGED dns
             \/ /\ offset + 1 < length
                /\ Touch(offset, 2) /\ PointerSkipped /\ UNCHANGED dns
             \/ /\ offset + 1 >= length
                /\ Touch(offset, 1)
                /\ layer' = "truncated" /\ UNCHANGED <<offset, dns>>
             \/ \E size \in LabelSizes :
                   /\ Touch(offset, 1)
                   /\ IF size > 63 \/ size > length - (offset + 1) \/ dns.labels >= MAX_LABELS
                      THEN layer' = "malformed" /\ UNCHANGED <<offset, dns>>
                      ELSE /\ offset' = offset + 1 + size
                           /\ dns' = [dns EXCEPT !.labels = @ + 1]
                           /\ UNCHANGED layer
          /\ Stay

\* After the name of a question: four bytes are skipped.
DnsQuestion ==
    /\ layer = "fixed" /\ dns.questions > 0
    /\ IF length - offset < 4
       THEN layer' = "truncated" /\ UNCHANGED <<offset, dns>>
       ELSE offset' = offset + 4 /\ NextRecord(dns.questions - 1, dns.answers)
    /\ Stay /\ UNCHANGED touched

\* The data of a record lies in the packet.
RdataFits(rdlength) == rdlength <= length - (offset + 10)

\* After the name of an answer: ten bytes of fields and the data, which is the
\* address when type, class and length say so.
DnsAnswer ==
    /\ layer = "fixed" /\ dns.questions = 0
    /\ IF length - offset < 10
       THEN layer' = "truncated" /\ UNCHANGED <<offset, dns, touched>>
       ELSE \E rdlength \in RdLengths :
               /\ IF ~RdataFits(rdlength)
                  THEN layer' = "truncated" /\ Touch(offset, 10) /\ UNCHANGED <<offset, dns>>
                  ELSE \/ /\ rdlength = 4
                          /\ layer' = "ok" /\ Touch(offset, 14) /\ UNCHANGED <<offset, dns>>
                       \/ /\ offset' = offset + 10 + rdlength /\ Touch(offset, 10)
                          /\ NextRecord(0, dns.answers - 1)
    /\ Stay

-----------------------------------------------------------------------------
Init ==
    /\ frame \in FrameLengths
    /\ layer = "eth" /\ base = 0 /\ length = frame /\ offset = 0
    /\ touched = <<0, 0>> /\ accepted = FALSE /\ dns = Idle

Next ==
    \/ /\ \/ josh_eth_parse \/ josh_arp_parse \/ josh_ipv4_parse \/ josh_icmp_echo_reply
          \/ josh_udp_parse \/ josh_tcp_parse
          \/ DhcpFixed \/ DhcpEnd
          \/ DnsFixed \/ DnsLabel \/ DnsQuestion \/ DnsAnswer
       /\ UNCHANGED accepted
    \/ DhcpOption

\* A parser is a plain loop: it goes on until it returns.
Spec == Init /\ [][Next]_vars /\ WF_vars(Next)

-----------------------------------------------------------------------------
(* Properties. *)

\* Whatever the length fields of the nested headers claim, the parsers only
\* touch bytes of the frame, hand on slices of it, and keep their cursor inside
\* their slice, so that length - offset never wraps.
StaysInsideFrame ==
    /\ base + length <= frame
    /\ offset <= length
    /\ touched[1] + touched[2] <= frame

Statuses == {"ok", "truncated", "malformed", "checksum", "unsupported", "buffer"}

\* Every parse returns: the option loop and the name and record loops advance
\* with each turn, whatever the packet says.
ParseReturns == <>(layer \in Statuses)
=============================================================================
