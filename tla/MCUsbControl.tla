---------------------------- MODULE MCUsbControl ----------------------------
(* Small instance of UsbControl: packets of three bytes, descriptors of one *)
(* packet and a bit, of two packets, and of two and a bit.                  *)
EXTENDS UsbControl

MCDescriptorSize == [k \in DescriptorKinds |->
                       CASE k = "GetDeviceDescriptor" -> 4
                         [] k = "GetConfigurationDescriptor" -> 7
                         [] k = "GetStringDescriptor" -> 6]
============================================================================
