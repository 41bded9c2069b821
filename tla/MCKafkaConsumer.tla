--------------------------- MODULE MCKafkaConsumer ---------------------------
(* Small instances of KafkaConsumer.                                       *)
EXTENDS KafkaConsumer, TLC

ConsumerSymmetry == Permutations(Consumers)
==============================================================================
