-------------------------- MODULE MCKafkaConsumer --------------------------
(* Small instances of KafkaConsumer for TLC. *)
EXTENDS KafkaConsumer, TLC

(* The processes of a group run the same code. *)
MemberSymmetry == Permutations(Members)
=============================================================================
