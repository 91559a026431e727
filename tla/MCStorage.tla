------------------------------ MODULE MCStorage ----------------------------
(* Every table in some behaviour; relations with more entries than the     *)
(* limit of a fetch, receipts of different lengths, indices above a byte.  *)
EXTENDS Storage

MCKeys ==
    [ t \in AllTables |->
        CASE t \in Singletons -> { Unit }
          [] t = "index_to_message_id" -> { << <<0>>, <<0>> >>, << <<0>>, <<1>> >>, << <<1>>, <<0>> >> }
          [] t = "message_id_to_message_id" -> { << <<0>>, <<1>> >>, << <<1>>, <<0>> >> }
          [] t = "ed25519_address_to_output_id" ->
                { << <<0>>, [transaction_id |-> <<1>>, index |-> 2] >>,
                  << <<0>>, [transaction_id |-> <<1>>, index |-> 1] >> }
          [] t \in {"output_id_to_created_output", "output_id_to_consumed_output", "output_id_unspent"} ->
                { [transaction_id |-> <<0>>, index |-> 2] }
          [] t = "milestone_index_to_unreferenced_message" -> { << 1, <<0>> >>, << 2, <<0>> >> }
          [] t = "milestone_index_to_receipt" ->
                { << 1, [last |-> 0, funds |-> <<1>>, included_in |-> 1] >>, << 1, [last |-> 0, funds |-> <<>>, included_in |-> 1] >> }
          [] t = "spent_to_treasury_output" -> { << TRUE, <<1>> >>, << FALSE, <<1>> >> }
          [] t \in {"milestone_index_to_milestone", "milestone_index_to_output_diff"} -> { 2 }
          [] t = "message_id_to_message" -> { <<0>>, <<1>> }
          [] OTHER -> { <<1>> } ]

MCTableSets ==
    { {"index_to_message_id"},
      {"message_id_to_message_id"},
      {"ed25519_address_to_output_id", "ledger_index"},
      {"milestone_index_to_receipt"},
      {"milestone_index_to_unreferenced_message"},
      {"spent_to_treasury_output"},
      {"message_id_to_message"},
      {"address_to_balance", "message_id_to_metadata"},
      {"output_id_unspent", "snapshot_info"},
      {"output_id_to_created_output", "solid_entry_point_to_milestone_index"},
      {"milestone_index_to_milestone"},
      {"output_id_to_consumed_output", "milestone_index_to_output_diff"} }
=============================================================================
