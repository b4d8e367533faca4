-------------------------- MODULE ServiceProtocol ---------------------------
(***************************************************************************)
(* The messages of the other services: the directory (tacenta-directory,   *)
(* protocol.rs), the accounts (tacenta-accounts, protocol.rs) and          *)
(* provisioning (tacenta-transport, provisioning.rs).                      *)
(***************************************************************************)
EXTENDS Codec

put_bytes == Bytes(U32)
take_bytes == Bytes(U32)
put_addr == Fields(<<put_bytes, UInt(U32)>>)
take_addr == Fields(<<Text(U32), UInt(U32)>>)

PutDirRequest == Sum(<<
    Arm("Register", 1, <<put_addr, put_bytes, put_bytes, put_bytes>>),
    Arm("Lookup", 2, <<put_addr>>),
    Arm("Rotate", 3, <<put_addr, put_bytes, put_bytes, put_bytes, put_bytes>>),
    Arm("SetRecovery", 4, <<put_addr, put_bytes, put_bytes>>),
    Arm("Recover", 5, <<put_addr, put_bytes, put_bytes, put_bytes, put_bytes>>),
    Arm("DepositPrekeys", 6, <<put_addr, put_bytes, Many(U32, put_bytes), put_bytes>>),
    Arm("Witness", 7, <<put_addr, UInt(U64), put_bytes>>)>>)

TakeDirRequest == Sum(<<
    Arm("Register", 1, <<take_addr, take_bytes, take_bytes, take_bytes>>),
    Arm("Lookup", 2, <<take_addr>>),
    Arm("Rotate", 3, <<take_addr, take_bytes, take_bytes, take_bytes, take_bytes>>),
    Arm("SetRecovery", 4, <<take_addr, take_bytes, take_bytes>>),
    Arm("Recover", 5, <<take_addr, take_bytes, take_bytes, take_bytes, take_bytes>>),
    Arm("DepositPrekeys", 6, <<take_addr, take_bytes, Many(U32, take_bytes), take_bytes>>),
    Arm("Witness", 7, <<take_addr, UInt(U64), take_bytes>>)>>)

encode_dir_request(request) == Put(PutDirRequest, request)
decode_dir_request(bytes) == Whole(TakeDirRequest, bytes)

(* Most responses are a tag alone. *)
Bare(op, tag) == Arm(op, tag, <<>>)

PutDirResponse == Sum(<<
    Bare("Registered", 1), Bare("Refreshed", 2), Bare("Rejected", 3), Bare("PossessionFailed", 4),
    Arm("Found", 5, <<put_bytes, put_bytes>>),
    Bare("NotFound", 6), Bare("Rotated", 7), Bare("Unauthorized", 8), Bare("Unregistered", 9),
    Bare("RecoverySet", 10), Bare("NoRecovery", 11),
    Arm("Deposited", 12, <<UInt(U32)>>),
    Bare("DepositRejected", 13), Bare("ReservedHandle", 14), Bare("Fresh", 15),
    Bare("RolledBack", 16), Bare("RateLimited", 17), Bare("RegistrationClosed", 18)>>)

TakeDirResponse == Sum(<<
    Bare("Registered", 1), Bare("Refreshed", 2), Bare("Rejected", 3), Bare("PossessionFailed", 4),
    Arm("Found", 5, <<take_bytes, take_bytes>>),
    Bare("NotFound", 6), Bare("Rotated", 7), Bare("Unauthorized", 8), Bare("Unregistered", 9),
    Bare("RecoverySet", 10), Bare("NoRecovery", 11),
    Arm("Deposited", 12, <<UInt(U32)>>),
    Bare("DepositRejected", 13), Bare("ReservedHandle", 14), Bare("Fresh", 15),
    Bare("RolledBack", 16), Bare("RateLimited", 17), Bare("RegistrationClosed", 18)>>)

encode_dir_response(response) == Put(PutDirResponse, response)
decode_dir_response(bytes) == Whole(TakeDirResponse, bytes)

-----------------------------------------------------------------------------
(* The accounts. *)

put_str == Bytes(U32)
take_str == Text(U32)

PutAccountRequest == Sum(<<
    Arm("SignUpTenant", 1, <<put_str, put_str, put_str>>),
    Arm("SignUpUser", 2, <<put_str, put_str, put_str>>),
    Arm("SignIn", 3, <<put_str, put_str, put_str>>)>>)

TakeAccountRequest == Sum(<<
    Arm("SignUpTenant", 1, <<take_str, take_str, take_str>>),
    Arm("SignUpUser", 2, <<take_str, take_str, take_str>>),
    Arm("SignIn", 3, <<take_str, take_str, take_str>>)>>)

encode_account_request(request) == Put(PutAccountRequest, request)
decode_account_request(bytes) == Whole(TakeAccountRequest, bytes)

reason_tag == Sum(<<
    Arm("UsernameTaken", 1, <<>>), Arm("EmailTaken", 2, <<>>), Arm("InvalidUsername", 3, <<>>),
    Arm("InvalidEmail", 4, <<>>), Arm("WeakPassword", 5, <<>>)>>)

tag_reason == Sum(<<
    Arm("UsernameTaken", 1, <<>>), Arm("EmailTaken", 2, <<>>), Arm("InvalidUsername", 3, <<>>),
    Arm("InvalidEmail", 4, <<>>), Arm("WeakPassword", 5, <<>>)>>)

PutAccountResponse == Sum(<<
    Arm("TenantCreated", 1, <<put_str, put_str>>),
    Arm("UserCreated", 2, <<put_str>>),
    Arm("SignedIn", 3, <<put_str, put_str>>),
    Arm("SignupRefused", 4, <<reason_tag>>),
    Arm("SignInRefused", 5, <<>>), Arm("UnknownTenant", 6, <<>>),
    Arm("ServerError", 7, <<>>), Arm("RateLimited", 8, <<>>)>>)

TakeAccountResponse == Sum(<<
    Arm("TenantCreated", 1, <<take_str, take_str>>),
    Arm("UserCreated", 2, <<take_str>>),
    Arm("SignedIn", 3, <<take_str, take_str>>),
    Arm("SignupRefused", 4, <<tag_reason>>),
    Arm("SignInRefused", 5, <<>>), Arm("UnknownTenant", 6, <<>>),
    Arm("ServerError", 7, <<>>), Arm("RateLimited", 8, <<>>)>>)

encode_account_response(response) == Put(PutAccountResponse, response)
decode_account_response(bytes) == Whole(TakeAccountResponse, bytes)

-----------------------------------------------------------------------------
(* Provisioning. *)

PutProvisionRequest == Fields(<<Bytes(U32), UInt(U32), Bytes(U32), Bytes(U32), Bytes(U32)>>)
TakeProvisionRequest == Fields(<<Text(U32), UInt(U32), Bytes(U32), Bytes(U32), Bytes(U32)>>)

encode_provision_request(request) == Put(PutProvisionRequest, request)
decode_provision_request(bytes) == Whole(TakeProvisionRequest, bytes)

PutProvisionOutcome == Sum(<<
    Arm("Provisioned", 1, <<Bytes(U32)>>), Arm("BadSession", 2, <<>>),
    Arm("PossessionFailed", 3, <<>>), Arm("Rejected", 4, <<>>), Arm("ServerError", 5, <<>>)>>)

TakeProvisionOutcome == Sum(<<
    Arm("Provisioned", 1, <<Text(U32)>>), Arm("BadSession", 2, <<>>),
    Arm("PossessionFailed", 3, <<>>), Arm("Rejected", 4, <<>>), Arm("ServerError", 5, <<>>)>>)

encode_provision_outcome(outcome) == Put(PutProvisionOutcome, outcome)
decode_provision_outcome(bytes) == Whole(TakeProvisionOutcome, bytes)
=============================================================================
