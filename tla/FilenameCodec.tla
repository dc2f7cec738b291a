--------------------------- MODULE FilenameCodec ---------------------------
(***************************************************************************)
(* The backup file name codec of src/core/src/backup/metadata.rs:          *)
(*   - get_backup_file_name, the format! of the five identifying fields;  *)
(*   - MetadataFromFileName::from_str: BACKUP_FILE_NAME_REGEX, then the    *)
(*     field parses in the order timestamp, os, device_id, version;        *)
(*   - BackupVersion's FromStr and TryFrom<i64>.                           *)
(* A string is a sequence of characters; the literal segments             *)
(* "sealvault_backup_" and ".zip" of the pattern are single symbols, and   *)
(* NdDigit stands for any non-ASCII Unicode decimal digit, which the       *)
(* regex class \d (Unicode-aware in the regex crate) accepts and i64's     *)
(* FromStr rejects.  Integers are IntWidth-bit two's complement (i64 in    *)
(* the code).                                                              *)
(*                                                                         *)
(* The harness is one caller that formats a backup's name and parses it    *)
(* back, or parses a name that the storage lists.                          *)
(***************************************************************************)
EXTENDS Integers, Sequences, SequencesExt

CONSTANTS
    IntWidth,           \* width of the signed integers (64 for i64)
    AsciiLetters,       \* the letters [A-Za-z] that occur in tokens
    OsTokens,           \* Display strings of the OperatingSystem variants
    ParseIntErrorKind,  \* kind of Error converted From<ParseIntError>
    MetaDomain,         \* backups whose names are formatted
    ListedNames,        \* names listed by the storage
    None

ASSUME WidthAssumption == IntWidth \in Nat \ {0, 1}
ASSUME KindAssumption == ParseIntErrorKind \in {"Fatal", "Retriable"}

VARIABLES
    meta,    \* the backup whose name was formatted, or None
    name,    \* the file name under decoding, or None
    result   \* what MetadataFromFileName::from_str returned, or None

vars == <<meta, name, result>>

-----------------------------------------------------------------------------
(* Characters and literals *)

Prefix == "sealvault_backup_"
Suffix == ".zip"
NdDigit == "<nd>"
DigitChar == <<"0", "1", "2", "3", "4", "5", "6", "7", "8", "9">>
AsciiDigits == {DigitChar[i] : i \in 1..10}

\* BackupScheme::V1 as formatted by its Display.
V1 == <<"v", "1">>

\* [A-Za-z0-9-] and \d of the regex.
WordClass == AsciiLetters \cup AsciiDigits \cup {"-"}
DigitClass == AsciiDigits \cup {NdDigit}

MinInt == -(2^(IntWidth - 1))
MaxInt == 2^(IntWidth - 1) - 1
Int64 == MinInt..MaxInt

-----------------------------------------------------------------------------
(* Encoding *)

\* Display of an integer: decimal digits, a '-' in front of a negative one.
RECURSIVE Decimal(_)
Decimal(n) == IF n < 10 THEN <<DigitChar[n + 1]>>
              ELSE Decimal(n \div 10) \o <<DigitChar[(n % 10) + 1]>>

FormatInt(n) == IF n < 0 THEN <<"-">> \o Decimal(-n) ELSE Decimal(n)

\* Variant of GetBackupFileName writing the device id before the timestamp.
GetBackupFileNameSwapped(backup_scheme, os, timestamp, device_id, backup_version) ==
    <<Prefix>> \o backup_scheme \o <<"_">> \o os \o <<"_">>
        \o device_id \o <<"_">> \o FormatInt(timestamp) \o <<"_">>
        \o FormatInt(backup_version) \o <<Suffix>>

\* get_backup_file_name
GetBackupFileName(backup_scheme, os, timestamp, device_id, backup_version) ==
    <<Prefix>> \o backup_scheme \o <<"_">> \o os \o <<"_">>
        \o FormatInt(timestamp) \o <<"_">> \o device_id \o <<"_">>
        \o FormatInt(backup_version) \o <<Suffix>>

\* BackupMetadata::backup_file_name
BackupFileName(m) ==
    GetBackupFileName(m.backup_scheme, m.operating_system, m.timestamp,
                      m.device_id, m.backup_version)

-----------------------------------------------------------------------------
(* Decoding *)

Ok(v) == [ok |-> TRUE, val |-> v]
Error(kind) == [ok |-> FALSE, kind |-> kind]

\* The '_'-separated pieces of a string.
SplitUnderscore(s) ==
    LET seps == <<0>> \o SetToSortSeq({i \in 1..Len(s) : s[i] = "_"}, <)
                      \o <<Len(s) + 1>>
    IN [k \in 1..Len(seps) - 1 |-> SubSeq(s, seps[k] + 1, seps[k + 1] - 1)]

\* A non-empty string over a character class (C+ of the regex).
Plus(s, class) == Len(s) > 0 /\ \A i \in 1..Len(s) : s[i] \in class

\* BACKUP_FILE_NAME_REGEX.captures: the named groups, or None.  No class
\* of the pattern contains '_' or '.', so the groups are the pieces between
\* the anchored literal segments.
Captures(s) ==
    IF Len(s) < 2 \/ s[1] # Prefix \/ s[Len(s)] # Suffix THEN None
    ELSE LET f == SplitUnderscore(SubSeq(s, 2, Len(s) - 1)) IN
         IF /\ Len(f) = 5
            /\ Plus(f[1], WordClass) /\ Plus(f[2], WordClass)
            /\ Plus(f[3], DigitClass) /\ Plus(f[4], WordClass)
            /\ Plus(f[5], DigitClass)
         THEN [scheme |-> f[1], os |-> f[2], timestamp |-> f[3],
               device_id |-> f[4], version |-> f[5]]
         ELSE None

\* <i64 as FromStr>::from_str: an optional sign, then at least one ASCII
\* digit; a value out of range is an error.
ParseInt(s) ==
    LET neg == Len(s) > 0 /\ s[1] = "-"
        digits == IF Len(s) > 0 /\ s[1] \in {"-", "+"} THEN Tail(s) ELSE s
        step(acc, c) ==
            IF acc = None \/ c \notin AsciiDigits THEN None
            ELSE LET v == 10 * acc + (CHOOSE d \in 0..9 : DigitChar[d + 1] = c)
                 IN IF v > MaxInt + (IF neg THEN 1 ELSE 0) THEN None ELSE v
        mag == FoldLeft(step, 0, digits)
    IN IF digits = <<>> \/ mag = None THEN None
       ELSE IF neg THEN -mag ELSE mag

\* BackupVersion::try_from(i64)
BackupVersionTryFrom(value) ==
    IF value < 0 THEN Error("Fatal") ELSE Ok(value)

\* BackupVersion::from_str: a failed i64 parse is Error::Retriable.
BackupVersionFromStr(s) ==
    IF ParseInt(s) = None THEN Error("Retriable")
    ELSE BackupVersionTryFrom(ParseInt(s))

\* parse_field_from_backup_file_name for each field type.
ParseTimestamp(s) ==
    IF ParseInt(s) = None THEN Error(ParseIntErrorKind) ELSE Ok(ParseInt(s))
ParseOs(s) == IF s \in OsTokens THEN Ok(s) ELSE Error("Fatal")
ParseDeviceId(s) == Ok(s)

\* MetadataFromFileName::from_str: no match is Error::Fatal; then the
\* first field that fails to parse decides the error.
MetadataFromFileName(s) ==
    LET c == Captures(s) IN
    IF c = None THEN Error("Fatal")
    ELSE LET t == ParseTimestamp(c.timestamp)
             o == ParseOs(c.os)
             d == ParseDeviceId(c.device_id)
             v == BackupVersionFromStr(c.version)
         IN IF ~t.ok THEN t ELSE IF ~o.ok THEN o ELSE IF ~d.ok THEN d
            ELSE IF ~v.ok THEN v
            ELSE Ok([timestamp |-> t.val, os |-> o.val,
                     device_id |-> d.val, backup_version |-> v.val])

-----------------------------------------------------------------------------
(* The caller *)

Init ==
    /\ meta = None
    /\ name = None
    /\ result = None

\* The backup flow names the archive of a backup.
Encode(m) ==
    /\ name = None
    /\ meta' = m
    /\ name' = BackupFileName(m)
    /\ result' = None

\* A name comes from list_backup_file_names.
List(n) ==
    /\ name = None
    /\ meta' = None
    /\ name' = n
    /\ result' = None

\* MetadataFromFileName::from_str on the current name.
Decode ==
    /\ name # None
    /\ result = None
    /\ result' = MetadataFromFileName(name)
    /\ UNCHANGED <<meta, name>>

\* The caller is done with the result.
Finish ==
    /\ result # None
    /\ meta' = None
    /\ name' = None
    /\ result' = None

Next ==
    \/ Finish
    \/ \E m \in MetaDomain : Encode(m)
    \/ \E n \in ListedNames : List(n)
    \/ Decode

Spec == Init /\ [][Next]_vars

-----------------------------------------------------------------------------
(* Properties *)

Parsed == [timestamp: Int64, os: OsTokens, device_id: Seq(WordClass),
           backup_version: 0..MaxInt]

TypeOK ==
    /\ meta \in MetaDomain \cup {None}
    /\ result \in {None} \cup [ok: {TRUE}, val: Parsed]
                  \cup [ok: {FALSE}, kind: {"Fatal", "Retriable"}]

\* parse(encode(m)) never yields another backup's fields, and recovers the
\* timestamp, os, device id and version of every backup whose timestamp is
\* non-negative (spec 4.4); two backups that differ in one of them never
\* share a file name.  format! writes a negative i64 timestamp with a '-'
\* that the regex's \d+ rejects, so such a name may only fail to parse.
RoundTrip ==
    meta # None /\ result # None =>
        /\ result.ok => result.val = [timestamp |-> meta.timestamp,
                                      os |-> meta.operating_system,
                                      device_id |-> meta.device_id,
                                      backup_version |-> meta.backup_version]
        /\ meta.timestamp >= 0 => result.ok

\* Spec 4.4: every file name that fails to parse fails non-retriably.
FileNameErrorsFatal ==
    result # None /\ ~result.ok => result.kind = "Fatal"

=============================================================================
