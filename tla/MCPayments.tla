----------------------------- MODULE MCPayments -----------------------------
(* Small instances of Payments.                                            *)
EXTENDS PaymentsProps

AnyCheckout == { "uploading", "by_admin", "opening" }
AnyMethod == { "transfer", "card", "voucher" }
ByGateway  == { "opening" }
GatewayMethods == { "card", "voucher" }
AdminOnly == { "by_admin" }
TransferOnly == { "transfer" }
VoucherOnly == { "voucher" }
AnyAmount == { "exact", "other" }
OnlyExact == { "exact" }
=============================================================================
