----------------------------- MODULE MCJobStream -----------------------------
(* One text request, for the model checking of JobStream. *)
EXTENDS JobStream

TextRequest ==
    [j \in Job |->
        [modular |-> TRUE, task |-> "text2image", batching |-> TRUE, prompt |-> "text",
         media |-> FALSE, images |-> 1, shape |-> CHOOSE s \in Shape : TRUE]]
===============================================================================
