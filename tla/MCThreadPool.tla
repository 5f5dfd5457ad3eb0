---- MODULE MCThreadPool ----
EXTENDS ThreadPool

\* Eight chunks: claimed one by one by one or two threads, re-split by three.
MCGraph == << [op |-> "mul_mat", chunks |-> 8], [op |-> "nop", chunks |-> 0],
              [op |-> "plain", chunks |-> 0] , [op |-> "mul_mat", chunks |-> 8] >>
====
