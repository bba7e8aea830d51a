-------------------------------- MODULE Iban --------------------------------
(***************************************************************************)
(* The numbers of accounts: IbanGenerator, and the check of IbanValidator  *)
(* that every request with an IBAN passes.  An IBAN is "BY", check digits, *)
(* four letters of the bank and sixteen digits; as a number it is the      *)
(* letters (A is 10) and digits with the first four characters behind.     *)
(* The numbers are beyond TLC's integers: what is here is proved.          *)
(***************************************************************************)
EXTENDS Integers, TLAPS

TenTo16 == 10000 * 10000 * 10000 * 10000
TwoTo63 == 65536 * 65536 * 65536 * 32768

Longs == (-TwoTo63)..(TwoTo63 - 1)
AccountNumbers == 0..(TenTo16 - 1)
Letters == 10..35
BankCodes == {bank \in Nat : \E a, b, c, d \in Letters :
                                 bank = ((a * 100 + b) * 100 + c) * 100 + d}
BANK == 1110 * 10000 + 2320

(* The remainder of Java has the sign of the dividend. *)
JavaMod(n, m) == IF n >= 0 THEN n % m ELSE -((-n) % m)
Abs(n) == IF n >= 0 THEN n ELSE -n

(* What a digit of the account's number stands for, by its place. *)
Places == {x * y : x \in {1, 10, 100, 1000},
                   y \in {1, 10000, 10000 * 10000, 10000 * 10000 * 10000}}

(* generateIban, for what the random generator gives. *)
AccountNumber(random) == Abs(JavaMod(random, TenTo16))

(* convertLettersToNumbers of bank, account, "BY" and the check digits. *)
IbanNumber(bank, account, digits) ==
    ((bank * TenTo16 + account) * 10000 + 1134) * 100 + digits

CheckDigits(bank, account) == 98 - (IbanNumber(bank, account, 0) % 97)

IsValid(bank, account, digits) == digits = CheckDigits(bank, account)

Generated(random) ==
    [bank |-> BANK, account |-> AccountNumber(random),
     digits |-> CheckDigits(BANK, AccountNumber(random))]
-----------------------------------------------------------------------------
LEMMA BigNumbers == TenTo16 \in Nat \ {0} /\ TwoTo63 \in Nat
BY DEF TenTo16, TwoTo63

LEMMA BanksAndAccounts == BankCodes \subseteq Nat /\ AccountNumbers \subseteq Nat
<1>1. BankCodes \subseteq Nat
  BY DEF BankCodes
<1>2. AccountNumbers \subseteq Nat
  BY BigNumbers DEF AccountNumbers
<1> QED
  BY <1>1, <1>2

LEMMA NumbersAreNumbers ==
    ASSUME NEW bank \in Nat, NEW account \in Nat
    PROVE  /\ IbanNumber(bank, account, 0) \in Nat
           /\ \A d \in Nat : IbanNumber(bank, account, d) = IbanNumber(bank, account, 0) + d
BY BigNumbers DEF IbanNumber

(* For every number the generator may draw, the smallest long too, the     *)
(* number of the account has sixteen digits, so that its IBAN has the form *)
(* that the validator asks for, and the check digits are two digits.       *)
THEOREM GeneratedIbansHaveTheForm ==
    ASSUME NEW random \in Longs
    PROVE  /\ Generated(random).account \in AccountNumbers
           /\ Generated(random).digits \in 2..98
           /\ IsValid(Generated(random).bank, Generated(random).account, Generated(random).digits)
<1>1. random \in Int
  BY BigNumbers DEF Longs
<1>2. \A n \in Nat : n % TenTo16 \in AccountNumbers
  BY BigNumbers DEF AccountNumbers
<1>3. AccountNumber(random) \in AccountNumbers
  <2>1. CASE random >= 0
    BY <1>1, <1>2, <2>1, BigNumbers DEF AccountNumber, JavaMod, Abs, AccountNumbers
  <2>2. CASE random < 0
    BY <1>1, <1>2, <2>2, BigNumbers DEF AccountNumber, JavaMod, Abs, AccountNumbers
  <2> QED
    BY <1>1, <2>1, <2>2
<1>4. AccountNumber(random) \in Nat /\ BANK \in Nat
  BY <1>3, BigNumbers DEF AccountNumbers, BANK
<1>5. IbanNumber(BANK, AccountNumber(random), 0) \in Nat
  BY <1>4, NumbersAreNumbers
<1>6. CheckDigits(BANK, AccountNumber(random)) \in 2..98
  BY <1>5 DEF CheckDigits
<1> QED
  BY <1>3, <1>6 DEF Generated, IsValid

(* What the validator accepts is valid by the standard: the whole number   *)
(* is 1 modulo 97.  And of the check digits that the standard allows it    *)
(* accepts all: those that are not 00, 01 or 99.                           *)
THEOREM ValidIbansAreOneModulo97 ==
    ASSUME NEW bank \in BankCodes, NEW account \in AccountNumbers, NEW digits \in 0..99
    PROVE  IsValid(bank, account, digits) <=>
               IbanNumber(bank, account, digits) % 97 = 1 /\ digits \in 2..98
<1> DEFINE n == IbanNumber(bank, account, 0)
<1>1. bank \in Nat /\ account \in Nat /\ digits \in Nat
  BY BanksAndAccounts
<1>2. n \in Nat /\ IbanNumber(bank, account, digits) = n + digits
  BY <1>1, NumbersAreNumbers
<1>3. IsValid(bank, account, digits) <=> digits = 98 - (n % 97)
  BY DEF IsValid, CheckDigits
<1> HIDE DEF n
<1>4. digits = 98 - (n % 97) <=> (n + digits) % 97 = 1 /\ digits \in 2..98
  BY <1>1, <1>2
<1> QED
  BY <1>2, <1>3, <1>4

(* The place of a digit: no factor of 97 in it. *)
LEMMA TenTimes ==
    ASSUME NEW n \in Int, (10 * n) % 97 = 0
    PROVE  n % 97 = 0
OBVIOUS

LEMMA TenThousandTimes ==
    ASSUME NEW n \in Int, (10000 * n) % 97 = 0
    PROVE  n % 97 = 0
OBVIOUS

LEMMA PlacesHaveNoFactor97 ==
    ASSUME NEW place \in Places, NEW n \in Int, (place * n) % 97 = 0
    PROVE  place \in Nat /\ n % 97 = 0
<1>1. PICK x \in {1, 10, 100, 1000}, y \in {1, 10000, 10000 * 10000, 10000 * 10000 * 10000} :
         place = x * y
  BY DEF Places
<1>2. x \in Nat /\ y \in Nat /\ y * n \in Int /\ place \in Nat
  BY <1>1
<1>3. (x * (y * n)) % 97 = 0
  BY <1>1, <1>2
<1>4. (y * n) % 97 = 0
  <2> DEFINE m == y * n
  <2> HIDE DEF m
  <2>1. m \in Int /\ (x * m) % 97 = 0
    BY <1>2, <1>3 DEF m
  <2>2. m % 97 = 0
    BY <2>1
  <2> QED
    BY <2>2 DEF m
<1>5. n % 97 = 0
  BY <1>4, TenThousandTimes
<1> QED
  BY <1>2, <1>5

(* One wrong digit in the number of the account, or two neighbours in the  *)
(* wrong order (a difference of nine times a digit), and the validator     *)
(* refuses the IBAN: the transfer does not reach another account.          *)
THEOREM MistypedIbansAreRefused ==
    ASSUME NEW bank \in BankCodes, NEW account \in AccountNumbers, NEW typed \in AccountNumbers,
           NEW place \in Places, NEW error \in -96..96, typed = account + error * place,
           NEW digits \in 0..99,
           IsValid(bank, account, digits), IsValid(bank, typed, digits)
    PROVE  typed = account
<1> DEFINE n == IbanNumber(bank, account, 0)
           m == IbanNumber(bank, typed, 0)
<1>1. bank \in Nat /\ account \in Nat /\ typed \in Nat
  BY BanksAndAccounts
<1>2. place \in Nat
  BY DEF Places
<1>3. n \in Nat /\ m \in Nat /\ n % 97 = m % 97
  <2>1. n \in Nat /\ m \in Nat
    BY <1>1, NumbersAreNumbers
  <2>2. 98 - (n % 97) = 98 - (m % 97)
    BY DEF IsValid, CheckDigits
  <2> HIDE DEF n, m
  <2> QED
    BY <2>1, <2>2
<1>4. m - n = 1000000 * (place * error)
  BY <1>1, <1>2, BigNumbers DEF IbanNumber
<1> HIDE DEF n, m
<1>5. place * error \in Int
  BY <1>2
<1>6. (1000000 * (place * error)) % 97 = 0
  BY <1>3, <1>4, <1>5
<1>7. (place * error) % 97 = 0
  BY <1>5, <1>6
<1>8. error % 97 = 0
  BY <1>7, PlacesHaveNoFactor97
<1>9. error = 0
  BY <1>8
<1> QED
  BY <1>1, <1>2, <1>9
=============================================================================
