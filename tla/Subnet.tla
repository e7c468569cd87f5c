-------------------------------- MODULE Subnet --------------------------------
(***************************************************************************)
(* module2/3/3.2: how many of N random addresses are in the network of a    *)
(* gateway.  An unsigned int is the set of its bits that are 1; in the code *)
(* an octet has eight bits and the word 32.  The network is a mask of       *)
(* octets or a prefix /n.  Numbers in the arguments are not negative.       *)
(***************************************************************************)
EXTENDS Integers, Sequences, FiniteSets

CONSTANTS
  OctetBits,   \* 8
  Gateways,    \* the first argument: four numbers, as between the dots
  Masks,       \* the second one without '/', likewise
  N            \* the number of tests, the third argument

VARIABLES
  gateway,     \* numbers between the dots
  network,     \* the mask, in octets; or the prefix; or no prefix that sscanf can read
  ip,          \* the last address tested
  answer,      \* what isIpInNetwork said of it
  i,
  count        \* by how much count has grown: main does not initialise it

vars == <<gateway, network, ip, answer, i, count>>

Octets == 4
WordBits == Octets * OctetBits
Word == 0 .. WordBits - 1
Unread == -1
NetMasks == [form : {"mask"}, octets : Masks]
Prefixes == [form : {"prefix"}, number : {Unread} \cup 0 .. WordBits + 1]
Unasked == [form |-> "none"]

Init ==
  /\ gateway \in Gateways /\ network = Unasked
  /\ ip = {} /\ answer = FALSE /\ i = 0 /\ count = 0

-----------------------------------------------------------------------------
BitsOf(number) == {k \in Word : (number \div 2 ^ k) % 2 = 1}
ShiftLeft(b, by) == {k + by : k \in b} \cap Word

\* A number that is too large reaches into the octet before it.
IpToInt(address) ==
  UNION {ShiftLeft(BitsOf(address[k]), OctetBits * (Octets - k)) : k \in 1 .. Octets}

\* A shift by the width of the word or by less than zero is undefined: x86 shifts by
\* the rest that the width leaves.
PrefixToNetworkNum(number) ==
  IF number = Unread THEN {} ELSE ShiftLeft(Word, (WordBits - number) % WordBits)

NetworkNum ==
  IF network.form = "prefix" THEN PrefixToNetworkNum(network.number) ELSE IpToInt(network.octets)
IsIpInNetwork(number) == IpToInt(gateway) \cap NetworkNum = number \cap NetworkNum

\* The arguments are read.
Start(n) ==
  /\ network = Unasked
  /\ network' = n
  /\ UNCHANGED <<gateway, ip, answer, i, count>>

\* One round of the loop; generateRandomInt may return any word.
Test(number) ==
  /\ network # Unasked /\ i < N
  /\ ip' = number /\ answer' = IsIpInNetwork(number)
  /\ count' = IF answer' THEN count + 1 ELSE count
  /\ i' = i + 1
  /\ UNCHANGED <<gateway, network>>

Next ==
  \/ \E n \in NetMasks \cup Prefixes : Start(n)
  \/ \E number \in SUBSET Word : Test(number)

Spec == Init /\ [][Next]_vars

-----------------------------------------------------------------------------
(* Properties.                                                             *)

\* Every variable keeps its type.
TypeOK ==
  /\ gateway \in Gateways /\ network \in NetMasks \cup Prefixes \cup {Unasked}
  /\ ip \subseteq Word /\ answer \in BOOLEAN
  /\ i \in 0 .. N /\ count \in 0 .. i

\* Addresses as numbers of base 2^OctetBits; how many bits of a mask are the network's.
IsProper(address) == \A k \in 1 .. Octets : address[k] < 2 ^ OctetBits
Value(address) ==
  LET sum[k \in 0 .. Octets] == IF k = 0 THEN 0 ELSE sum[k - 1] * 2 ^ OctetBits + address[k]
  IN  sum[Octets]
ValueOf(b) == LET sum[k \in 0 .. WordBits] ==
                    IF k = 0 THEN 0 ELSE sum[k - 1] + (IF k - 1 \in b THEN 2 ^ (k - 1) ELSE 0)
              IN  sum[WordBits]
NetworkBits ==
  IF network.form = "prefix" THEN {network.number} \cap 1 .. WordBits
  ELSE {n \in 1 .. WordBits :
          IsProper(network.octets) /\ Value(network.octets) = 2 ^ WordBits - 2 ^ (WordBits - n)}

\* For a gateway of proper octets and a mask that is a prefix of 1 to 32 bits in either
\* form, an address is in the network exactly if it and the gateway, as numbers, have
\* the same quotient by the network's size.
SameNetwork ==
  i > 0 /\ IsProper(gateway) =>
    \A n \in NetworkBits :
      LET size == 2 ^ (WordBits - n)
      IN  answer <=> ValueOf(ip) \div size = Value(gateway) \div size

=============================================================================
