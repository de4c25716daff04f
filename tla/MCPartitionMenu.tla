-------------------------- MODULE MCPartitionMenu --------------------------
(* Cards too small for a step, a little over one step and a few steps.    *)
EXTENDS PartitionMenu

MB == 1048576

(* Not ready; under 1 MB (mbsd = 0); 100, 200 and 300 MB.                  *)
MCCardBytes == {0, MB \div 2, 100 * MB, 200 * MB, 300 * MB}
=============================================================================
