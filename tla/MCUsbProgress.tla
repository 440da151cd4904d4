---------------------------- MODULE MCUsbProgress ----------------------------
(* usb_read_progress with its real constants, over the lengths where its  *)
(* arithmetic changes: 0, just below, at and above one transfer; twice a  *)
(* transfer; around 100 transfers, where roundup(len / 100, 4096) leaves  *)
(* 4096; and lengths whose slices are larger than one transfer and do     *)
(* not divide the payload.                                                 *)
EXTENDS UsbProgress

MCXfer == 4096
MCLens == {0, 1, 4095, 4096, 4097, 8191, 8192, 409599, 409600, 409601,
           819201, 1000000}
=============================================================================
