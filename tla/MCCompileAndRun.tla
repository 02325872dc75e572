-------------------------- MODULE MCCompileAndRun --------------------------
(* One call of _compile_and_run_bitcode_file with one output file, two     *)
(* contents and console outputs that exercise every classifier branch.    *)
EXTENDS CompileAndRun

CONSTANTS o1, d1, d2

MCOutFiles == {o1}
MCData == {d1, d2}
MCRawOutputs ==
    { [data |-> d1, markers |-> {}, utf8 |-> TRUE],
      [data |-> d2, markers |-> {"LeakSanitizer", "AddressSanitizer"}, utf8 |-> TRUE],
      [data |-> d1, markers |-> {"AddressSanitizer", "Segmentation fault"}, utf8 |-> TRUE],
      [data |-> d2, markers |-> {"MemorySanitizer", "Illegal Instruction"}, utf8 |-> TRUE],
      [data |-> d1, markers |-> {"AddressSanitizer"}, utf8 |-> FALSE] }

=============================================================================
