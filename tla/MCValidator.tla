---------------------------- MODULE MCValidator ----------------------------
(***************************************************************************)
(* One validation attempt for validators shaped like the registered ones: *)
(* a benchmark with an output file compared byte for byte (blowfish,      *)
(* jpeg-d, qsort, ...), one whose console output is ignored and checked by *)
(* validate_sha_output (sha), and a ghostscript-like one with a setup      *)
(* hook; each unsanitized and under ASan.                                  *)
(***************************************************************************)
EXTENDS Validator

CONSTANTS o1, d1, d2

MCOutFiles == {o1}
MCData == {d1, d2}
MCRawOutputs ==
    { [data |-> d1, markers |-> {}, utf8 |-> TRUE],
      [data |-> d2, markers |-> {}, utf8 |-> TRUE],
      [data |-> d1, markers |-> {"LeakSanitizer", "AddressSanitizer"}, utf8 |-> TRUE],
      [data |-> d1, markers |-> {}, utf8 |-> FALSE],
      [data |-> d2, markers |-> {}, utf8 |-> FALSE] }

MCConfigs ==
    { [sanitizer |-> s, compare_output |-> TRUE, output_files |-> <<o1>>,
       validate_result |-> FALSE, pre_execution_callback |-> FALSE] : s \in {NoSan, "ASAN"} }
    \cup
    { [sanitizer |-> s, compare_output |-> FALSE, output_files |-> <<>>,
       validate_result |-> TRUE, pre_execution_callback |-> FALSE] : s \in {NoSan, "ASAN"} }
    \cup
    { [sanitizer |-> NoSan, compare_output |-> TRUE, output_files |-> <<o1>>,
       validate_result |-> FALSE, pre_execution_callback |-> TRUE] }

=============================================================================
