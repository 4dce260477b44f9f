----------------------------- MODULE MCNetwork -----------------------------
(***************************************************************************)
(* The network for TLC: the driver with its card, the packet parsers, the  *)
(* packet builders and the checksum.  They share no state and each         *)
(* property is about one of them: `part` names the one that a behaviour    *)
(* runs, and the others stay as they began.                                *)
(***************************************************************************)
EXTENDS E1000, Integers

VARIABLES part,
          frame, layer, base, length, offset, touched, accepted, dns,
          at, capacity, out, labels, result,
          bytes, sent

parseVars == <<frame, layer, base, length, offset, touched, accepted, dns>>
buildVars == <<at, capacity, out, labels, result>>
sumVars == <<bytes, sent>>
all == <<part, vars, parseVars, buildVars, sumVars>>

-----------------------------------------------------------------------------
\* Values a 16-bit length field may hold, around those that matter for n.
NearLengths ==
  [n \in 0 .. 290 |-> {0, 7, 8, 19, 20, n - 1, n, n + 1, 65535} \cap (0 .. 65535)]

\* Lengths on every boundary of the nested headers, of options and of records.
Parse == INSTANCE NetParse WITH
  FrameLengths <- {13, 33, 34, 41, 42, 54, 58, 67, 74, 140, 290},
  HeaderWords <- {4, 5, 6, 15}, Claims <- NearLengths,
  OptionLengths <- {0, 1, 4, 5, 255}, LabelSizes <- {1, 63, 64},
  RdLengths <- {0, 4, 16, 65535},
  MaxQuestions <- 2, MaxAnswers <- 2, MAX_LABELS <- 3

ASSUME FieldsAssumption == Parse!FieldsAssumption

\* Buffers and payloads on every boundary of the builders' tests.
Build == INSTANCE NetBuild WITH
  Capacities <- {0, 13, 14, 16, 17, 18, 19, 20, 22, 27, 28, 85, 86, 148,
                 255, 256, 257, 258, 262, 263, 264},
  PayloadLengths <- {0, 1, 6, 250, 65516, 65528},
  LabelLengths <- {0, 1, 2, 62, 63, 64}, MaxLabels <- 4

ASSUME BuildAssumption == Build!LengthsAssumption

\* Bytes of three values, messages of up to seven.
Checksum == INSTANCE NetChecksum WITH
  Base <- 3, MaxLength <- 7, AddressBytes <- {0, 2}

ASSUME ChecksumAssumption == Checksum!BaseAssumption

-----------------------------------------------------------------------------
NetworkInit ==
  /\ part \in {"e1000", "parse", "build", "checksum"}
  /\ Init /\ Parse!Init /\ Build!Init /\ Checksum!Init
  /\ part # "parse" => frame = 13
  /\ part # "build" => capacity = 0

NetworkNext ==
  \/ part = "e1000" /\ Next /\ UNCHANGED <<part, parseVars, buildVars, sumVars>>
  \/ part = "parse" /\ Parse!Next /\ UNCHANGED <<part, vars, buildVars, sumVars>>
  \/ part = "build" /\ Build!Next /\ UNCHANGED <<part, vars, parseVars, sumVars>>
  \/ part = "checksum" /\ Checksum!Next /\ UNCHANGED <<part, vars, parseVars, buildVars>>

NetworkSpec ==
  /\ NetworkInit /\ [][NetworkNext]_all
  /\ WF_vars(part = "e1000" /\ Transmit) /\ WF_vars(part = "e1000" /\ Poll)
  /\ WF_vars(part = "e1000" /\ CardSends)
  /\ WF_parseVars(part = "parse" /\ Parse!Next)

-----------------------------------------------------------------------------
\* No parser touches a byte outside its frame or computes a negative length.
StaysInsideFrame == Parse!StaysInsideFrame

\* Every parser returns, whatever lengths, labels and options it meets.
ParseReturns == part = "parse" => Parse!ParseReturns

\* No builder writes past the buffer, and it returns the length it wrote.
WritesFit == Build!WritesFit

\* What the IPv4, ICMP and UDP builders store makes the message verify.
ChecksumsVerify == Checksum!ChecksumsVerify
=============================================================================
