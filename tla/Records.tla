-------------------------------- MODULE Records --------------------------------
(***************************************************************************)
(* The data processor's pipeline on a batch of records: clean, validate,   *)
(* deduplicate, score.  A record is a function from the keys it has to     *)
(* values; a value stands for all values the pipeline treats alike.        *)
(***************************************************************************)
EXTENDS Naturals, SequencesExt, Subsequences

CONSTANTS
  Field,      \* the keys a record may have
  Required    \* required_fields of the request

ASSUME RecordsAssumption == IsFiniteSet(Field) /\ Required \subseteq Field

\* "none" is null, "zero" the number and "false" the truth value; all others are
\* texts.  "hollow" is one of tags only, "nbsp" one of entities that decode to
\* blanks, and "escaped" has a tag written with entities.
Value == {"none", "zero", "false", "empty", "blank", "plain", "padded", "tagged",
          "hollow", "escaped", "nbsp"}

Record == UNION {[keys -> Value] : keys \in SUBSET Field}

\* What clean() takes for empty and what a validator takes for missing.
Falsy == {"none", "zero", "false", "empty"}

-------------------------------------------------------------------------------
(* DataCleaner                                                             *)

\* str.strip(), and with it the " ".join(text.split()) at the end.
Strip(v) == CASE v = "blank"  -> "empty"
              [] v = "padded" -> "plain"
              [] OTHER        -> v

RemoveTags(v) == CASE v = "tagged" -> "plain"
                   [] v = "hollow" -> "empty"
                   [] OTHER        -> v

Unescape(v) == CASE v = "escaped" -> "tagged"
                 [] v = "nbsp"    -> "blank"
                 [] OTHER         -> v

\* Mutant: the tags are removed after the entities are decoded.
CleanString_TagsLast(v) == Strip(RemoveTags(Unescape(Strip(v))))

CleanString(v) == Strip(Unescape(RemoveTags(Strip(v))))

CleanRecord(r) == [f \in DOMAIN r |-> CleanString(r[f])]

Discarded(r) == \A f \in DOMAIN r : r[f] \in Falsy

CleanAll(raw) == [i \in DOMAIN raw |-> CleanRecord(raw[i])]

Clean(raw) ==
  LET all == CleanAll(raw) IN Picked(all, {i \in DOMAIN all : ~Discarded(all[i])})

-------------------------------------------------------------------------------
(* SchemaValidator and Deduplicator                                        *)

Has(r, f) == f \in DOMAIN r /\ r[f] \notin Falsy

Complete(r) == \A f \in Required : Has(r, f)

Valid(records) == Picked(records, {i \in DOMAIN records : Complete(records[i])})

\* The rejected records, without the reason the validator writes into them.
Invalid(records) == Picked(records, {i \in DOMAIN records : ~Complete(records[i])})

\* Mutant: only neighbours are compared.
Deduplicate_Neighbours(records) ==
  LET Add(unique, r) == IF unique # <<>> /\ unique[Len(unique)] = r
                          THEN unique ELSE Append(unique, r)
  IN FoldLeft(Add, <<>>, records)

Deduplicate(records) ==
  LET Unique[n \in 0..Len(records)] ==
        IF n = 0 THEN <<>>
        ELSE IF Contains(Unique[n - 1], records[n]) THEN Unique[n - 1]
        ELSE Append(Unique[n - 1], records[n])
  IN Unique[Len(records)]

CleanRecords(raw) == Deduplicate(Valid(Clean(raw)))

RejectedRecords(raw) == Invalid(Clean(raw))

-------------------------------------------------------------------------------
(* QualityScorer and QualityReport, in exact arithmetic: a score is kept   *)
(* as the pair of its numerator and its denominator.                       *)

Filled(r) == {f \in DOMAIN r : r[f] \notin {"none", "empty"}}

Completeness(records) == <<Len(Valid(records)), Len(records)>>

Validity(records) ==
  <<Total([i \in DOMAIN records |-> Cardinality(Filled(records[i]))]),
    Total([i \in DOMAIN records |-> Cardinality(DOMAIN records[i])])>>

\* 0.40 completeness + 0.30 validity + 0.20 uniqueness + 0.10 freshness >= t%,
\* brought to the product of the three denominators.
ScoreAtLeast(t, complete, valid, unique) ==
  40 * (complete[1] * valid[2] * unique[2])
    + 30 * (valid[1] * complete[2] * unique[2])
    + 20 * (unique[1] * complete[2] * valid[2])
    + 10 * (complete[2] * valid[2] * unique[2])
  >= t * (complete[2] * valid[2] * unique[2])

\* Mutant: uniqueness is measured against the records that were kept.
Grade_OfKept(raw, records) ==
  LET AtLeast(t) == ScoreAtLeast(t, Completeness(records), Validity(records),
                                 <<Len(records), Len(records)>>)
  IN CASE records = <<>> -> "poor"
       [] records # <<>> /\ AtLeast(90) -> "excellent"
       [] records # <<>> /\ ~AtLeast(90) /\ AtLeast(70) -> "good"
       [] OTHER -> "fair"

\* Without records the report keeps its zeros.
Grade(raw, records) ==
  LET AtLeast(t) == ScoreAtLeast(t, Completeness(records), Validity(records),
                                 <<Len(records), Len(raw)>>)
  IN IF records = <<>> THEN "poor"
     ELSE IF AtLeast(90) THEN "excellent"
     ELSE IF AtLeast(70) THEN "good"
     ELSE IF AtLeast(50) THEN "fair"
     ELSE "poor"
===============================================================================
