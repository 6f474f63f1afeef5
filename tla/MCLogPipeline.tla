--------------------------- MODULE MCLogPipeline ---------------------------
(* Two units and two providers: a grave message that fills a batch alone,  *)
(* a short one, one that is not UTF-8 and one without a text.              *)
EXTENDS LogPipeline

CONSTANTS docker, kernel

Entry(u, p, n, v) == [unit |-> u, priority |-> p, size |-> n, valid |-> v]

MCEntries == {Entry(docker, 2, 3, TRUE), Entry(docker, 6, 0, TRUE),
              Entry(kernel, 4, 1, TRUE), Entry(kernel, None, 1, FALSE)}

=============================================================================
