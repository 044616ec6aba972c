------------------------------ MODULE RecordGate ------------------------------
(***************************************************************************)
(* validation.py of the agent service: the policy for generated code and   *)
(* the gate for the records it returns, as operators.                      *)
(*                                                                         *)
(* A program is what the policy looks at: whether it is blank and parses,  *)
(* the kinds of its top-level statements, and the banned names it uses.  A *)
(* record is a JSON value: a dict from fields to kinds of values, or else. *)
(***************************************************************************)
EXTENDS Naturals, FiniteSets, SequencesExt, Subsequences

CONSTANTS
  Field,      \* the fields of records
  MinTenths   \* agent_min_field_completeness, in tenths

ASSUME GateAssumption == MinTenths \in 0..10 /\ IsFiniteSet(Field)

Statements == {"import", "scrape", "function", "literal", "computed", "docstring", "other"}

Banned == {"import", "call", "dunder"}

Program == [blank : BOOLEAN, parses : BOOLEAN, body : SUBSET Statements, uses : SUBSET Banned]

\* validate_generated_code
Violations(program) ==
  IF program.blank THEN {"empty"} ELSE IF ~program.parses THEN {"syntax"}
  ELSE (program.body \cap {"computed", "other"})
         \cup (IF "scrape" \in program.body THEN {} ELSE {"no scrape"})
         \cup program.uses

-------------------------------------------------------------------------------

Values == {"text", "number", "blank", "null", "absent"}

Json == [dict : BOOLEAN, fields : [Field -> Values]]

\* isinstance(record, dict) and not empty
Dict(record) == record.dict /\ \E f \in Field : record.fields[f] # "absent"

\* The records that stay: of the first max ones the non-empty dicts, once each.
Normalized(records, max) ==
  Picked(records, {i \in DOMAIN records :
                     /\ i <= max /\ Dict(records[i])
                     /\ \A j \in 1..(i - 1) : records[j] # records[i]})

\* Mutant: equal records stay.
Normalized_Repeats(records, max) ==
  LET Good(record) == Dict(record)
  IN SelectSeq(IF Len(records) > max THEN SubSeq(records, 1, max) ELSE records, Good)

\* Neither None nor "".
Present(record, f) == record.fields[f] \notin {"blank", "null", "absent"}

\* Mutant: a record counts as soon as it has one of the fields.
Complete_Any(kept, required) ==
  10 * Cardinality({i \in DOMAIN kept : \E f \in required : Present(kept[i], f)})
    >= MinTenths * Len(kept)

\* completeness < min_field_completeness is an error; without required fields
\* completeness is 1.
Complete(kept, required) ==
  required = {} \/
    10 * Cardinality({v \in (DOMAIN kept) \X required : Present(kept[v[1]], v[2])})
      >= MinTenths * Len(kept) * Cardinality(required)
===============================================================================
