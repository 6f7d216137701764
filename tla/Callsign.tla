------------------------------ MODULE Callsign ------------------------------
(***************************************************************************)
(* Callsigns and their passcodes (aprsr-core/src/callsign.rs, passcode.rs),*)
(* on the bytes of a callsign.                                             *)
(***************************************************************************)
EXTENDS Words, FiniteSets

MaxCallsignLen == 9
MinLoginLen == 3
MaxSsidLen == 2

Dash == 45
Upper == 65 .. 90
LowerLetter == 97 .. 122
Digit == 48 .. 57

Dashes(call) == {i \in DOMAIN call : call[i] = Dash}

(* validate.                                                               *)
Valid(call) ==
  /\ Len(call) \in 1 .. MaxCallsignLen
  /\ Range(call) \subseteq Upper \cup Digit \cup {Dash}
  /\ \A i, j \in Dashes(call) : i = j
  /\ \A i \in Dashes(call) : i > 1 /\ Len(call) - i \in 1 .. MaxSsidLen

(* Callsign::parse_login.                                                  *)
ParsesAsLogin(word) ==
  /\ word \in DOMAIN Bytes
  /\ Len(Bytes[word]) >= MinLoginLen
  /\ Valid(Bytes[word])

-----------------------------------------------------------------------------
(* The passcode: a hash of the callsign without its SSID.                  *)

Seed == 29666                                  \* 0x73e2
HashModulus == 2 ^ 15                          \* MASK + 1

Bit(n, i) == (n \div 2 ^ i) % 2

(* The exclusive or of numbers: of each bit, whether an odd number of them *)
(* has it.                                                                 *)
Xor(numbers) ==
  LET odd(i) == Cardinality({k \in DOMAIN numbers : Bit(numbers[k], i) = 1}) % 2
  IN FoldLeft(LAMBDA sum, i : sum + 2 ^ (i - 1) * odd(i - 1), 0, [i \in 1 .. 16 |-> i])

UpperCase(byte) == IF byte \in LowerLetter THEN byte - 32 ELSE byte

(* What is in front of the first dash.                                     *)
BaseOf(call) ==
  SubSeq(call, 1, CHOOSE n \in 0 .. Len(call) :
                    /\ \A i \in 1 .. n : call[i] # Dash
                    /\ n = Len(call) \/ call[n + 1] = Dash)

(* generate: the bytes in turn into the high and the low half.             *)
Generate(call) ==
  LET base == BaseOf(call)
      halves == [i \in DOMAIN base |-> UpperCase(base[i]) * (IF i % 2 = 1 THEN 256 ELSE 1)]
  IN Xor(<<Seed>> \o halves) % HashModulus

ReceiveOnly == -1

(* verify.                                                                 *)
Verify(word, presented) ==
  IF presented = ReceiveOnly THEN "receive-only"
  ELSE IF presented = Generate(Bytes[word]) THEN "valid" ELSE "invalid"
=============================================================================
