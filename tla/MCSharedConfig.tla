--------------------------- MODULE MCSharedConfig ---------------------------
(* All credentials, the probe URL alone or nothing in the environment.     *)
EXTENDS SharedConfig

SomeInputs ==
  {c \cup o : c \in {{}, {"probe"}, Fields},
              o \in {{"mc"}, {"clusterID"}, {"clusterID", "metrics"},
                     {"clusterID", "topology", "mc"}}}
=============================================================================
