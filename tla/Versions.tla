------------------------------ MODULE Versions ------------------------------
(***************************************************************************)
(* How each format orders versions: CompareVersions of formats/deb, rpm,   *)
(* apk, pypi and raw.  prune sorts with it and deletes the tail, and the   *)
(* verification sample takes the two ends, so it must be an order.         *)
(*                                                                         *)
(* Text is a sequence of character codes.  A version is given as the code  *)
(* has it after splitting (deb, rpm) or parsing (apk, pypi, raw): a record *)
(* of its parts.  A comparison is -1, 0 or 1.                              *)
(***************************************************************************)
EXTENDS Integers, Sequences, SequencesExt, FiniteSetsExt

CONSTANTS
  MaxInt64,    \* the largest number strconv.ParseInt accepts
  Candidates   \* format -> the versions to compare

VARIABLES format, left, right
vars == <<format, left, right>>

Sign(n) == IF n < 0 THEN -1 ELSE IF n > 0 THEN 1 ELSE 0
Digits == 48 .. 57
Letters == (65 .. 90) \union (97 .. 122)
isDigit(c) == c \in Digits
isAlpha(c) == c \in Letters
Tilde == 126
Caret == 94

(* The first comparison of a list that decides.                            *)
First(list) ==
  LET deciding == {i \in DOMAIN list : list[i] # 0}
  IN  IF deciding = {} THEN 0 ELSE list[Min(deciding)]

Part(list, i, absent) == IF i <= Len(list) THEN list[i] ELSE absent

(* strings.Compare                                                         *)
Lexical(l, r) ==
  First([i \in 1 .. Max({Len(l), Len(r)}) |-> Sign(Part(l, i, -1) - Part(r, i, -1))])

TakeWhile(s, accepted) ==
  LET refused == {i \in DOMAIN s : s[i] \notin accepted}
  IN  IF refused = {} THEN s ELSE SubSeq(s, 1, Min(refused) - 1)

Rest(s, taken) == SubSeq(s, Len(taken) + 1, Len(s))
TrimLeft(s, c) == Rest(s, TakeWhile(s, {c}))
TrimRight(s, c) == Reverse(TrimLeft(Reverse(s), c))

(* compareNumeric, compareNumericString: without leading zeros, the longer *)
(* number is the larger.                                                   *)
compareNumeric(l, r) ==
  LET a == TrimLeft(l, 48)
      b == TrimLeft(r, 48)
  IN  IF Len(a) # Len(b) THEN Sign(Len(a) - Len(b)) ELSE Lexical(a, b)

-----------------------------------------------------------------------------
(* Debian                                                                  *)

(* versionOrder of the first byte; the end of the text weighs as a digit.  *)
versionOrder(s) ==
  IF s = <<>> THEN 0
  ELSE LET c == Head(s)
       IN  CASE c = Tilde -> -1 [] isDigit(c) -> 0 [] isAlpha(c) -> c [] OTHER -> c + 256

NonDigit(s) == s # <<>> /\ ~isDigit(Head(s))
Skip(s) == IF NonDigit(s) THEN Tail(s) ELSE s

RECURSIVE compareVersionPart(_, _)
compareVersionPart(l, r) ==
  IF l = <<>> /\ r = <<>> THEN 0
  ELSE IF NonDigit(l) \/ NonDigit(r)
  THEN IF versionOrder(l) # versionOrder(r) THEN Sign(versionOrder(l) - versionOrder(r))
       ELSE compareVersionPart(Skip(l), Skip(r))
  ELSE LET a == TakeWhile(l, Digits)
           b == TakeWhile(r, Digits)
       IN  IF compareNumeric(a, b) # 0 THEN compareNumeric(a, b)
           ELSE compareVersionPart(Rest(l, a), Rest(r, b))

debCompare(l, r) ==
  First(<<compareNumeric(l.epoch, r.epoch), compareVersionPart(l.upstream, r.upstream),
          compareVersionPart(l.revision, r.revision)>>)

-----------------------------------------------------------------------------
(* RPM                                                                     *)

Starts(s, c) == s # <<>> /\ Head(s) = c
trimSeparators(s) ==
  Rest(s, TakeWhile(s, (0 .. 255) \ (Digits \union Letters \union {Tilde, Caret})))

(* rpmvercmp, the left text starting with a segment of digits or letters.  *)
RECURSIVE CompareSegments(_, _)
CompareSegments(l, r) ==
  LET one == trimSeparators(l)
      two == trimSeparators(r)
      numeric == isDigit(Head(one))
      a == IF numeric THEN TakeWhile(one, Digits) ELSE TakeWhile(one, Letters)
      b == IF numeric THEN TakeWhile(two, Digits) ELSE TakeWhile(two, Letters)
      segment == IF numeric THEN compareNumeric(a, b) ELSE Lexical(a, b)
  IN  CASE l = r -> 0
        [] l # r /\ (Starts(one, Tilde) \/ Starts(two, Tilde)) ->
             IF Starts(one, Tilde) /\ Starts(two, Tilde) THEN CompareSegments(Tail(one), Tail(two))
             ELSE IF Starts(two, Tilde) THEN 1 ELSE -1
        [] l # r /\ ~(Starts(one, Tilde) \/ Starts(two, Tilde))
                 /\ (Starts(one, Caret) \/ Starts(two, Caret)) ->
             IF one = <<>> THEN -1
             ELSE IF two = <<>> THEN 1
             ELSE IF Starts(one, Caret) /\ Starts(two, Caret) THEN CompareSegments(Tail(one), Tail(two))
             ELSE IF Starts(two, Caret) THEN 1 ELSE -1
        [] OTHER ->
             IF one = <<>> \/ two = <<>> THEN Sign(Len(one)) - Sign(Len(two))
             ELSE IF b = <<>> THEN (IF numeric THEN 1 ELSE -1)
             ELSE IF segment # 0 THEN segment
             ELSE CompareSegments(Rest(one, a), Rest(two, b))

rpmCompare(l, r) ==
  First(<<Sign(l.epoch - r.epoch), CompareSegments(l.version, r.version),
          CompareSegments(l.release, r.release)>>)

-----------------------------------------------------------------------------
(* Alpine                                                                  *)

Value(s) == FoldLeft(LAMBDA n, c : 10 * n + (c - 48), 0, s)

(* Mutation: a part is a fraction only when both sides have the zero.      *)
compareNumberBoth(l, r) ==
  IF Head(l) = 48 /\ Head(r) = 48 /\ (Len(l) > 1 \/ Len(r) > 1)
  THEN Lexical(TrimRight(l, 48), TrimRight(r, 48))
  ELSE IF Value(l) > MaxInt64 \/ Value(r) > MaxInt64 THEN Lexical(l, r)
  ELSE Sign(Value(l) - Value(r))

(* compareNumber: a leading zero makes a part a fraction, compared as text *)
(* without its trailing zeros; so is a number ParseInt refuses.            *)
compareNumber(l, r) ==
  IF (Head(l) = 48 \/ Head(r) = 48) /\ (Len(l) > 1 \/ Len(r) > 1)
  THEN Lexical(TrimRight(l, 48), TrimRight(r, 48))
  ELSE IF Value(l) > MaxInt64 \/ Value(r) > MaxInt64 THEN Lexical(l, r)
  ELSE Sign(Value(l) - Value(r))

NoSuffix == [rank |-> 0, number |-> 0]
compareSuffix(l, r) == First(<<Sign(l.rank - r.rank), Sign(l.number - r.number)>>)

(* revision is -1 when there is none: "1.0" is below "1.0-r0".             *)
apkCompare(l, r) ==
  LET parts == 1 .. Max({Len(l.numbers), Len(r.numbers)})
      suffixes == 1 .. Max({Len(l.suffixes), Len(r.suffixes)})
  IN  First(<<First([i \in parts |-> compareNumber(Part(l.numbers, i, <<48>>), Part(r.numbers, i, <<48>>))]),
              Lexical(l.letter, r.letter),
              First([i \in suffixes |->
                       compareSuffix(Part(l.suffixes, i, NoSuffix), Part(r.suffixes, i, NoSuffix))]),
              Sign(l.revision - r.revision)>>)

-----------------------------------------------------------------------------
(* PEP 440.  pre is <<>> or <<phase, number>>, post and dev <<>> or        *)
(* <<number>>, local a list of segments.                                   *)

compareRelease(l, r) ==
  First([i \in 1 .. Max({Len(l), Len(r)}) |-> compareNumeric(Part(l, i, <<48>>), Part(r, i, <<48>>))])

preRank(v) == IF v.pre # <<>> THEN 0 ELSE IF v.dev # <<>> /\ v.post = <<>> THEN -1 ELSE 1

comparePre(l, r) ==
  IF preRank(l) # preRank(r) THEN Sign(preRank(l) - preRank(r))
  ELSE IF preRank(l) # 0 THEN 0
  ELSE First(<<Sign(l.pre[1] - r.pre[1]), compareNumeric(l.pre[2], r.pre[2])>>)

compareOptionalNumber(l, r, presentRank) ==
  IF l = <<>> /\ r = <<>> THEN 0
  ELSE IF r = <<>> THEN presentRank
  ELSE IF l = <<>> THEN -presentRank
  ELSE compareNumeric(l[1], r[1])

numericSegment(s) == s # <<>> /\ \A i \in DOMAIN s : isDigit(s[i])

compareLocalSegment(l, r) ==
  CASE numericSegment(l) /\ ~numericSegment(r) -> 1
    [] ~numericSegment(l) /\ numericSegment(r) -> -1
    [] numericSegment(l) /\ numericSegment(r) -> compareNumeric(l, r)
    [] OTHER -> Lexical(l, r)

compareLocal(l, r) ==
  IF l = <<>> \/ r = <<>> THEN Sign(Len(l)) - Sign(Len(r))
  ELSE First([i \in 1 .. Min({Len(l), Len(r)}) |-> compareLocalSegment(l[i], r[i])]
             \o <<Sign(Len(l) - Len(r))>>)

pypiCompare(l, r) ==
  First(<<compareNumeric(l.epoch, r.epoch), compareRelease(l.release, r.release), comparePre(l, r),
          compareOptionalNumber(l.post, r.post, 1), compareOptionalNumber(l.dev, r.dev, -1),
          compareLocal(l.local, r.local)>>)

-----------------------------------------------------------------------------
(* Raw: SemVer below what only parses as fields.  semver is an integer key *)
(* standing for the library's order, or 0 for a version it refuses.        *)
Numeric(s) == numericSegment(s) /\ Value(s) <= 2 * MaxInt64 + 1

compareField(l, r) ==
  CASE l = <<>> -> -1
    [] l # <<>> /\ r = <<>> -> 1
    [] l # <<>> /\ r # <<>> /\ Numeric(l) /\ Numeric(r) -> Sign(Value(l) - Value(r))
    [] l # <<>> /\ r # <<>> /\ Numeric(l) # Numeric(r) -> IF Numeric(l) THEN 1 ELSE -1
    [] OTHER -> Lexical(l, r)

compareNatural(l, r) ==
  First([i \in 1 .. Max({Len(l), Len(r)}) |-> compareField(Part(l, i, <<>>), Part(r, i, <<>>))])

rawCompare(l, r) ==
  CASE l.semver # 0 /\ r.semver # 0 -> Sign(l.semver - r.semver)
    [] l.semver # 0 /\ r.semver = 0 -> -1
    [] l.semver = 0 /\ r.semver # 0 -> 1
    [] OTHER -> compareNatural(l.fields, r.fields)

-----------------------------------------------------------------------------
CompareVersions(f, l, r) ==
  CASE f = "deb" -> debCompare(l, r)
    [] f = "rpm" -> rpmCompare(l, r)
    [] f = "apk" -> apkCompare(l, r)
    [] f = "pypi" -> pypiCompare(l, r)
    [] f = "raw" -> rawCompare(l, r)

Init ==
  /\ format \in DOMAIN Candidates
  /\ left \in Candidates[format]
  /\ right = left

Next ==
  /\ right = left
  /\ right' \in Candidates[format]
  /\ UNCHANGED <<format, left>>

(* CompareVersions is a total preorder, so that "the newest", "the oldest" *)
(* and "the last `keep` of the sorted list" do not depend on the order the *)
(* versions came in (state.PrunePlacements, SampleVerificationCases); and  *)
(* in deb and rpm what ends in a tilde, a pre-release, is below the text   *)
(* it is appended to.                                                      *)
OrdersVersions ==
  /\ CompareVersions(format, left, right) = -CompareVersions(format, right, left)
  /\ CompareVersions(format, left, left) = 0
  /\ CompareVersions(format, left, right) <= 0 =>
       \A third \in Candidates[format] :
         CompareVersions(format, right, third) <= 0 => CompareVersions(format, left, third) <= 0
  /\ format = "deb" => debCompare([left EXCEPT !.upstream = Append(@, Tilde)], left) = -1
  /\ format = "rpm" => rpmCompare([left EXCEPT !.version = Append(@, Tilde)], left) = -1
=============================================================================
