------------------------------ MODULE MCParser ------------------------------
(***************************************************************************)
(* Callback tables and options for ParserContract: no table, a table with  *)
(* everything but yajl_number, one with yajl_number, and one that leaves   *)
(* out the closing callbacks and the numbers.                              *)
(***************************************************************************)
EXTENDS ParserContract

MCTables ==
    {NoTable, CallbackNames \ {"yajl_number"}, CallbackNames,
     {"yajl_null", "yajl_start_map", "yajl_map_key", "yajl_start_array"}}
MCSettable ==
    {"allow_trailing_garbage", "allow_multiple_values", "allow_partial_values"}
=============================================================================
