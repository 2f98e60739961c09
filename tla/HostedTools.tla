---------------------------- MODULE HostedTools ----------------------------
(***************************************************************************)
(* The tools registered beside those of src/index.ts: service files        *)
(* (src/service-files.ts), the sessions and operations of a VM             *)
(* (src/remote-tools.ts) and the orders of a hosted connection             *)
(* (src/remote-orders.ts). Transfers of local files have modules of their  *)
(* own, FileUpload and FileDownload; how a file operation answered with    *)
(* 202 is followed is SettleOperation.                                     *)
(***************************************************************************)
EXTENDS ToolRows

\* The three sets of annotations of the file tools' table.
READ        == TFT
ADDITIVE    == FFF
DESTRUCTIVE == FTF

\* Tools of scope files:read. A second download URL is as good as the first.
FileReads ==
  Each({"get_service_file_capabilities", "get_service_file_operation"}, READ @@ Get)
  @@ Each({"list_service_files", "stat_service_file", "read_service_file",
           "search_service_files"}, READ @@ Polls @@ Get)
  @@ [get_service_file_download_url |-> ADDITIVE @@ Changes("adds") @@ Polls @@ Get]

\* Tools of scope files:manage.
FileChanges ==
  Each({"create_service_directory", "extract_service_file_archive"},
       ADDITIVE @@ Changes("adds") @@ Polls @@ Post)
  @@ Each({"move_service_file", "delete_service_files"}, DESTRUCTIVE @@ Asks @@ Polls @@ Post)
  @@ [write_service_file |-> DESTRUCTIVE @@ Polls @@ Post,
      list_service_file_uploads |-> READ @@ Get,
      abort_service_file_upload |-> DESTRUCTIVE @@ Delete]

\* Any failure of an operation is told as: inspect the state before repeating
\* a change. run_vm_command and the others only queue an operation, whose
\* result get_vm_operation reads. A session that cannot be opened is told so
\* in a word; opening one again finds it by its binding.
VmTools ==
  Each({"run_vm_command", "write_vm_file"}, FT @@ Keyed @@ SaysInspect @@ Post)
  @@ Each({"inspect_vm", "read_vm_file", "create_vm_file"},
          FF @@ Keyed @@ SaysInspect @@ Changes("adds") @@ Post)
  @@ [get_update_info |-> TFT @@ Get,
      get_connected_account |-> TF @@ Get,
      get_vm_operation |-> TF @@ SaysInspect @@ Get,
      open_vm_session |-> FT @@ Bare @@ Changes("adds") @@ Post,
      cancel_vm_operation |-> FT @@ SaysInspect @@ Settles @@ Post]

\* Orders of a hosted connection.
OrderTools ==
  [quote_service_order |-> FFF @@ Keyed @@ Changes("adds") @@ Post,
   confirm_service_order |-> FTT @@ Keyed @@ Asks @@ Pays @@ Post,
   get_purchase_result |-> TFT @@ Get]

HostedToolsRows == FileReads @@ FileChanges @@ VmTools @@ OrderTools
=============================================================================
