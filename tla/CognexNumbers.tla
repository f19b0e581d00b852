---------------------------- MODULE CognexNumbers ----------------------------
(***************************************************************************)
(* Numbers in texts: std::to_string(), and std::stoul(), which skips white *)
(* space, takes a sign, reads digits as far as they go and leaves the rest *)
(* of the text unread. A digit is a symbol.                                *)
(***************************************************************************)
EXTENDS CognexTokens, SequencesExt

CONSTANT SizeModulus   \* 2^64

ASSUME SizeAssumption == SizeModulus \in Nat \ {0}

Digits == <<"0", "1", "2", "3", "4", "5", "6", "7", "8", "9">>

Digit(c) == CHOOSE d \in 0 .. 9 : Digits[d + 1] = c

(* std::to_string() *)
Decimal(n) ==
  LET digits[m \in 0 .. n] ==
        IF m < 10 THEN <<Digits[m + 1]>>
        ELSE Append(digits[m \div 10], Digits[(m % 10) + 1])
  IN  digits[n]

(* The number that digits stand for. *)
Number(digits) ==
  LET upTo[i \in 0 .. Len(digits)] ==
        IF i = 0 THEN 0 ELSE 10 * upTo[i - 1] + Digit(digits[i])
  IN  upTo[Len(digits)]

(* The text from its first symbol that is not in S. *)
Without(S, text) ==
  LET others == {i \in DOMAIN text : text[i] \notin S}
  IN  IF others = {} THEN <<>> ELSE SubSeq(text, Min(others), Len(text))

(* A mutant of Signed: the sign is skipped. *)
SignedSkipped(sign, n) == n

(* A negative number is no error: it wraps. *)
Signed(sign, n) == IF sign = "-" THEN (SizeModulus - n) % SizeModulus ELSE n

(* std::stoul(): {} if it throws, for want of digits or with too many of them. *)
Stoul(text) ==
  LET signed == Without(White, text)
      sign   == IF signed # <<>> /\ Head(signed) \in {"-", "+"} THEN Head(signed) ELSE "+"
      number == IF signed # <<>> /\ Head(signed) = sign THEN Tail(signed) ELSE signed
      rest   == Without(Range(Digits), number)
      n      == Number(SubSeq(number, 1, Len(number) - Len(rest)))
  IN  IF rest = number \/ n >= SizeModulus THEN {}
      ELSE {Signed(sign, n)}
=============================================================================
