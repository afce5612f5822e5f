--------------------------- MODULE DispatchTables ---------------------------
(***************************************************************************)
(* global_simple_intercept/generated.rs: the functions of the next layer   *)
(* that the wrappers call when a hook is Unhandled. A dispatch table is    *)
(* that of a core version or of an extension. The next layer is asked for  *)
(* each entry of it by the name of the entry, and all of its wrappers call *)
(* the entry of their own name.                                            *)
(***************************************************************************)
EXTENDS TLC

Through(feature, names) == [n \in names |-> feature]

-----------------------------------------------------------------------------
(* The wrappers that use the dispatch table of an instance.                *)

InstanceCore10 ==
  Through("1.0", {"vkGetPhysicalDeviceFeatures", "vkGetPhysicalDeviceFormatProperties",
    "vkGetPhysicalDeviceImageFormatProperties", "vkGetPhysicalDeviceProperties",
    "vkGetPhysicalDeviceQueueFamilyProperties", "vkGetPhysicalDeviceMemoryProperties",
    "vkGetPhysicalDeviceSparseImageFormatProperties"})
InstanceCore11 ==
  Through("1.1", {"vkGetPhysicalDeviceFeatures2", "vkGetPhysicalDeviceProperties2",
    "vkGetPhysicalDeviceFormatProperties2", "vkGetPhysicalDeviceImageFormatProperties2",
    "vkGetPhysicalDeviceQueueFamilyProperties2", "vkGetPhysicalDeviceMemoryProperties2",
    "vkGetPhysicalDeviceSparseImageFormatProperties2",
    "vkGetPhysicalDeviceExternalBufferProperties", "vkGetPhysicalDeviceExternalFenceProperties",
    "vkGetPhysicalDeviceExternalSemaphoreProperties"})
InstanceCore13 == Through("1.3", {"vkGetPhysicalDeviceToolProperties"})
InstanceKHRSurface ==
  Through("KHRSurface", {"vkDestroySurfaceKHR", "vkGetPhysicalDeviceSurfaceSupportKHR",
    "vkGetPhysicalDeviceSurfaceCapabilitiesKHR", "vkGetPhysicalDeviceSurfaceFormatsKHR",
    "vkGetPhysicalDeviceSurfacePresentModesKHR"})
InstanceKHRSwapchain == Through("KHRSwapchain", {"vkGetPhysicalDevicePresentRectanglesKHR"})
InstanceKHRDisplay ==
  Through("KHRDisplay", {"vkGetPhysicalDeviceDisplayPropertiesKHR",
    "vkGetPhysicalDeviceDisplayPlanePropertiesKHR", "vkGetDisplayPlaneSupportedDisplaysKHR",
    "vkGetDisplayModePropertiesKHR", "vkCreateDisplayModeKHR",
    "vkGetDisplayPlaneCapabilitiesKHR", "vkCreateDisplayPlaneSurfaceKHR"})
InstanceKHRXlibSurface ==
  Through("KHRXlibSurface", {"vkCreateXlibSurfaceKHR",
    "vkGetPhysicalDeviceXlibPresentationSupportKHR"})
InstanceKHRXcbSurface ==
  Through("KHRXcbSurface", {"vkCreateXcbSurfaceKHR",
    "vkGetPhysicalDeviceXcbPresentationSupportKHR"})
InstanceKHRWaylandSurface ==
  Through("KHRWaylandSurface", {"vkCreateWaylandSurfaceKHR",
    "vkGetPhysicalDeviceWaylandPresentationSupportKHR"})
InstanceKHRAndroidSurface == Through("KHRAndroidSurface", {"vkCreateAndroidSurfaceKHR"})
InstanceKHRWin32Surface ==
  Through("KHRWin32Surface", {"vkCreateWin32SurfaceKHR",
    "vkGetPhysicalDeviceWin32PresentationSupportKHR"})
InstanceKHRVideoQueue ==
  Through("KHRVideoQueue", {"vkGetPhysicalDeviceVideoCapabilitiesKHR",
    "vkGetPhysicalDeviceVideoFormatPropertiesKHR"})
InstanceKHRPerformanceQuery ==
  Through("KHRPerformanceQuery",
    {"vkEnumeratePhysicalDeviceQueueFamilyPerformanceQueryCountersKHR",
    "vkGetPhysicalDeviceQueueFamilyPerformanceQueryPassesKHR"})
InstanceKHRGetSurfaceCapabilities2 ==
  Through("KHRGetSurfaceCapabilities2", {"vkGetPhysicalDeviceSurfaceCapabilities2KHR",
    "vkGetPhysicalDeviceSurfaceFormats2KHR"})
InstanceKHRGetDisplayProperties2 ==
  Through("KHRGetDisplayProperties2", {"vkGetPhysicalDeviceDisplayProperties2KHR",
    "vkGetPhysicalDeviceDisplayPlaneProperties2KHR", "vkGetDisplayModeProperties2KHR",
    "vkGetDisplayPlaneCapabilities2KHR"})
InstanceKHRFragmentShadingRate ==
  Through("KHRFragmentShadingRate", {"vkGetPhysicalDeviceFragmentShadingRatesKHR"})
InstanceEXTDebugReport ==
  Through("EXTDebugReport", {"vkCreateDebugReportCallbackEXT",
    "vkDestroyDebugReportCallbackEXT", "vkDebugReportMessageEXT"})
InstanceGGPStreamDescriptorSurface ==
  Through("GGPStreamDescriptorSurface", {"vkCreateStreamDescriptorSurfaceGGP"})
InstanceNVExternalMemoryCapabilities ==
  Through("NVExternalMemoryCapabilities",
    {"vkGetPhysicalDeviceExternalImageFormatPropertiesNV"})
InstanceNNViSurface == Through("NNViSurface", {"vkCreateViSurfaceNN"})
InstanceEXTDirectModeDisplay == Through("EXTDirectModeDisplay", {"vkReleaseDisplayEXT"})
InstanceEXTAcquireXlibDisplay ==
  Through("EXTAcquireXlibDisplay", {"vkAcquireXlibDisplayEXT", "vkGetRandROutputDisplayEXT"})
InstanceEXTDisplaySurfaceCounter ==
  Through("EXTDisplaySurfaceCounter", {"vkGetPhysicalDeviceSurfaceCapabilities2EXT"})
InstanceMVKIosSurface == Through("MVKIosSurface", {"vkCreateIOSSurfaceMVK"})
InstanceMVKMacosSurface == Through("MVKMacosSurface", {"vkCreateMacOSSurfaceMVK"})
InstanceEXTDebugUtils ==
  Through("EXTDebugUtils", {"vkCreateDebugUtilsMessengerEXT", "vkDestroyDebugUtilsMessengerEXT",
    "vkSubmitDebugUtilsMessageEXT"})
InstanceEXTSampleLocations ==
  Through("EXTSampleLocations", {"vkGetPhysicalDeviceMultisamplePropertiesEXT"})
InstanceEXTCalibratedTimestamps ==
  Through("EXTCalibratedTimestamps", {"vkGetPhysicalDeviceCalibrateableTimeDomainsEXT"})
InstanceFUCHSIAImagepipeSurface ==
  Through("FUCHSIAImagepipeSurface", {"vkCreateImagePipeSurfaceFUCHSIA"})
InstanceEXTMetalSurface == Through("EXTMetalSurface", {"vkCreateMetalSurfaceEXT"})
InstanceNVCooperativeMatrix ==
  Through("NVCooperativeMatrix", {"vkGetPhysicalDeviceCooperativeMatrixPropertiesNV"})
InstanceNVCoverageReductionMode ==
  Through("NVCoverageReductionMode",
    {"vkGetPhysicalDeviceSupportedFramebufferMixedSamplesCombinationsNV"})
InstanceEXTFullScreenExclusive ==
  Through("EXTFullScreenExclusive", {"vkGetPhysicalDeviceSurfacePresentModes2EXT"})
InstanceEXTHeadlessSurface == Through("EXTHeadlessSurface", {"vkCreateHeadlessSurfaceEXT"})
InstanceEXTAcquireDrmDisplay ==
  Through("EXTAcquireDrmDisplay", {"vkAcquireDrmDisplayEXT", "vkGetDrmDisplayEXT"})
InstanceNVAcquireWinrtDisplay ==
  Through("NVAcquireWinrtDisplay", {"vkAcquireWinrtDisplayNV", "vkGetWinrtDisplayNV"})
InstanceEXTDirectfbSurface ==
  Through("EXTDirectfbSurface", {"vkCreateDirectFBSurfaceEXT",
    "vkGetPhysicalDeviceDirectFBPresentationSupportEXT"})
InstanceQNXScreenSurface ==
  Through("QNXScreenSurface", {"vkCreateScreenSurfaceQNX",
    "vkGetPhysicalDeviceScreenPresentationSupportQNX"})
InstanceNVOpticalFlow ==
  Through("NVOpticalFlow", {"vkGetPhysicalDeviceOpticalFlowImageFormatsNV"})

\* InstanceDispatchTable.
InstanceEntries ==
  InstanceCore10 @@ InstanceCore11 @@ InstanceCore13 @@ InstanceKHRSurface
     @@ InstanceKHRSwapchain @@ InstanceKHRDisplay @@ InstanceKHRXlibSurface
     @@ InstanceKHRXcbSurface @@ InstanceKHRWaylandSurface @@ InstanceKHRAndroidSurface
     @@ InstanceKHRWin32Surface @@ InstanceKHRVideoQueue @@ InstanceKHRPerformanceQuery
     @@ InstanceKHRGetSurfaceCapabilities2 @@ InstanceKHRGetDisplayProperties2
     @@ InstanceKHRFragmentShadingRate @@ InstanceEXTDebugReport
     @@ InstanceGGPStreamDescriptorSurface @@ InstanceNVExternalMemoryCapabilities
     @@ InstanceNNViSurface @@ InstanceEXTDirectModeDisplay @@ InstanceEXTAcquireXlibDisplay
     @@ InstanceEXTDisplaySurfaceCounter @@ InstanceMVKIosSurface @@ InstanceMVKMacosSurface
     @@ InstanceEXTDebugUtils @@ InstanceEXTSampleLocations @@ InstanceEXTCalibratedTimestamps
     @@ InstanceFUCHSIAImagepipeSurface @@ InstanceEXTMetalSurface
     @@ InstanceNVCooperativeMatrix @@ InstanceNVCoverageReductionMode
     @@ InstanceEXTFullScreenExclusive @@ InstanceEXTHeadlessSurface
     @@ InstanceEXTAcquireDrmDisplay @@ InstanceNVAcquireWinrtDisplay
     @@ InstanceEXTDirectfbSurface @@ InstanceQNXScreenSurface @@ InstanceNVOpticalFlow

-----------------------------------------------------------------------------
(* The wrappers that use the dispatch table of a device.                   *)

DeviceCore10 ==
  Through("1.0", {"vkGetDeviceQueue", "vkQueueSubmit", "vkQueueWaitIdle", "vkDeviceWaitIdle",
    "vkAllocateMemory", "vkFreeMemory", "vkMapMemory", "vkUnmapMemory",
    "vkFlushMappedMemoryRanges", "vkInvalidateMappedMemoryRanges",
    "vkGetDeviceMemoryCommitment", "vkBindBufferMemory", "vkBindImageMemory",
    "vkGetBufferMemoryRequirements", "vkGetImageMemoryRequirements",
    "vkGetImageSparseMemoryRequirements", "vkQueueBindSparse", "vkCreateFence",
    "vkDestroyFence", "vkResetFences", "vkGetFenceStatus", "vkWaitForFences",
    "vkCreateSemaphore", "vkDestroySemaphore", "vkCreateEvent", "vkDestroyEvent",
    "vkGetEventStatus", "vkSetEvent", "vkResetEvent", "vkCreateQueryPool", "vkDestroyQueryPool",
    "vkGetQueryPoolResults", "vkCreateBuffer", "vkDestroyBuffer", "vkCreateBufferView",
    "vkDestroyBufferView", "vkCreateImage", "vkDestroyImage", "vkGetImageSubresourceLayout",
    "vkCreateImageView", "vkDestroyImageView", "vkCreateShaderModule", "vkDestroyShaderModule",
    "vkCreatePipelineCache", "vkDestroyPipelineCache", "vkGetPipelineCacheData",
    "vkMergePipelineCaches", "vkCreateGraphicsPipelines", "vkCreateComputePipelines",
    "vkDestroyPipeline", "vkCreatePipelineLayout", "vkDestroyPipelineLayout", "vkCreateSampler",
    "vkDestroySampler", "vkCreateDescriptorSetLayout", "vkDestroyDescriptorSetLayout",
    "vkCreateDescriptorPool", "vkDestroyDescriptorPool", "vkResetDescriptorPool",
    "vkAllocateDescriptorSets", "vkFreeDescriptorSets", "vkUpdateDescriptorSets",
    "vkCreateFramebuffer", "vkDestroyFramebuffer", "vkCreateRenderPass", "vkDestroyRenderPass",
    "vkGetRenderAreaGranularity", "vkCreateCommandPool", "vkDestroyCommandPool",
    "vkResetCommandPool", "vkAllocateCommandBuffers", "vkFreeCommandBuffers",
    "vkBeginCommandBuffer", "vkEndCommandBuffer", "vkResetCommandBuffer", "vkCmdBindPipeline",
    "vkCmdSetViewport", "vkCmdSetScissor", "vkCmdSetLineWidth", "vkCmdSetDepthBias",
    "vkCmdSetBlendConstants", "vkCmdSetDepthBounds", "vkCmdSetStencilCompareMask",
    "vkCmdSetStencilWriteMask", "vkCmdSetStencilReference", "vkCmdBindDescriptorSets",
    "vkCmdBindIndexBuffer", "vkCmdBindVertexBuffers", "vkCmdDraw", "vkCmdDrawIndexed",
    "vkCmdDrawIndirect", "vkCmdDrawIndexedIndirect", "vkCmdDispatch", "vkCmdDispatchIndirect",
    "vkCmdCopyBuffer", "vkCmdCopyImage", "vkCmdBlitImage", "vkCmdCopyBufferToImage",
    "vkCmdCopyImageToBuffer", "vkCmdUpdateBuffer", "vkCmdFillBuffer", "vkCmdClearColorImage",
    "vkCmdClearDepthStencilImage", "vkCmdClearAttachments", "vkCmdResolveImage",
    "vkCmdSetEvent", "vkCmdResetEvent", "vkCmdWaitEvents", "vkCmdPipelineBarrier",
    "vkCmdBeginQuery", "vkCmdEndQuery", "vkCmdResetQueryPool", "vkCmdWriteTimestamp",
    "vkCmdCopyQueryPoolResults", "vkCmdPushConstants", "vkCmdBeginRenderPass",
    "vkCmdNextSubpass", "vkCmdEndRenderPass", "vkCmdExecuteCommands"})
DeviceCore11 ==
  Through("1.1", {"vkBindBufferMemory2", "vkBindImageMemory2",
    "vkGetDeviceGroupPeerMemoryFeatures", "vkCmdSetDeviceMask", "vkCmdDispatchBase",
    "vkGetImageMemoryRequirements2", "vkGetBufferMemoryRequirements2",
    "vkGetImageSparseMemoryRequirements2", "vkTrimCommandPool", "vkGetDeviceQueue2",
    "vkCreateSamplerYcbcrConversion", "vkDestroySamplerYcbcrConversion",
    "vkCreateDescriptorUpdateTemplate", "vkDestroyDescriptorUpdateTemplate",
    "vkUpdateDescriptorSetWithTemplate", "vkGetDescriptorSetLayoutSupport"})
DeviceCore12 ==
  Through("1.2", {"vkCmdDrawIndirectCount", "vkCmdDrawIndexedIndirectCount",
    "vkCreateRenderPass2", "vkCmdBeginRenderPass2", "vkCmdNextSubpass2", "vkCmdEndRenderPass2",
    "vkResetQueryPool", "vkGetSemaphoreCounterValue", "vkWaitSemaphores", "vkSignalSemaphore",
    "vkGetBufferDeviceAddress", "vkGetBufferOpaqueCaptureAddress",
    "vkGetDeviceMemoryOpaqueCaptureAddress"})
DeviceCore13 ==
  Through("1.3", {"vkCreatePrivateDataSlot", "vkDestroyPrivateDataSlot", "vkSetPrivateData",
    "vkGetPrivateData", "vkCmdSetEvent2", "vkCmdResetEvent2", "vkCmdWaitEvents2",
    "vkCmdPipelineBarrier2", "vkCmdWriteTimestamp2", "vkQueueSubmit2", "vkCmdCopyBuffer2",
    "vkCmdCopyImage2", "vkCmdCopyBufferToImage2", "vkCmdCopyImageToBuffer2", "vkCmdBlitImage2",
    "vkCmdResolveImage2", "vkCmdBeginRendering", "vkCmdEndRendering", "vkCmdSetCullMode",
    "vkCmdSetFrontFace", "vkCmdSetPrimitiveTopology", "vkCmdSetViewportWithCount",
    "vkCmdSetScissorWithCount", "vkCmdBindVertexBuffers2", "vkCmdSetDepthTestEnable",
    "vkCmdSetDepthWriteEnable", "vkCmdSetDepthCompareOp", "vkCmdSetDepthBoundsTestEnable",
    "vkCmdSetStencilTestEnable", "vkCmdSetStencilOp", "vkCmdSetRasterizerDiscardEnable",
    "vkCmdSetDepthBiasEnable", "vkCmdSetPrimitiveRestartEnable",
    "vkGetDeviceBufferMemoryRequirements", "vkGetDeviceImageMemoryRequirements",
    "vkGetDeviceImageSparseMemoryRequirements"})
DeviceKHRSwapchain ==
  Through("KHRSwapchain", {"vkCreateSwapchainKHR", "vkDestroySwapchainKHR",
    "vkGetSwapchainImagesKHR", "vkAcquireNextImageKHR", "vkQueuePresentKHR",
    "vkGetDeviceGroupPresentCapabilitiesKHR", "vkGetDeviceGroupSurfacePresentModesKHR",
    "vkAcquireNextImage2KHR"})
DeviceKHRDisplaySwapchain == Through("KHRDisplaySwapchain", {"vkCreateSharedSwapchainsKHR"})
DeviceKHRVideoQueue ==
  Through("KHRVideoQueue", {"vkCreateVideoSessionKHR", "vkDestroyVideoSessionKHR",
    "vkGetVideoSessionMemoryRequirementsKHR", "vkBindVideoSessionMemoryKHR",
    "vkCreateVideoSessionParametersKHR", "vkUpdateVideoSessionParametersKHR",
    "vkDestroyVideoSessionParametersKHR", "vkCmdBeginVideoCodingKHR", "vkCmdEndVideoCodingKHR",
    "vkCmdControlVideoCodingKHR"})
DeviceKHRVideoDecodeQueue == Through("KHRVideoDecodeQueue", {"vkCmdDecodeVideoKHR"})
DeviceKHRExternalMemoryWin32 ==
  Through("KHRExternalMemoryWin32", {"vkGetMemoryWin32HandleKHR",
    "vkGetMemoryWin32HandlePropertiesKHR"})
DeviceKHRExternalMemoryFd ==
  Through("KHRExternalMemoryFd", {"vkGetMemoryFdKHR", "vkGetMemoryFdPropertiesKHR"})
DeviceKHRExternalSemaphoreWin32 ==
  Through("KHRExternalSemaphoreWin32", {"vkImportSemaphoreWin32HandleKHR",
    "vkGetSemaphoreWin32HandleKHR"})
DeviceKHRExternalSemaphoreFd ==
  Through("KHRExternalSemaphoreFd", {"vkImportSemaphoreFdKHR", "vkGetSemaphoreFdKHR"})
DeviceKHRPushDescriptor ==
  Through("KHRPushDescriptor", {"vkCmdPushDescriptorSetKHR",
    "vkCmdPushDescriptorSetWithTemplateKHR"})
DeviceKHRSharedPresentableImage ==
  Through("KHRSharedPresentableImage", {"vkGetSwapchainStatusKHR"})
DeviceKHRExternalFenceWin32 ==
  Through("KHRExternalFenceWin32", {"vkImportFenceWin32HandleKHR", "vkGetFenceWin32HandleKHR"})
DeviceKHRExternalFenceFd ==
  Through("KHRExternalFenceFd", {"vkImportFenceFdKHR", "vkGetFenceFdKHR"})
DeviceKHRPerformanceQuery ==
  Through("KHRPerformanceQuery", {"vkAcquireProfilingLockKHR", "vkReleaseProfilingLockKHR"})
DeviceKHRFragmentShadingRate ==
  Through("KHRFragmentShadingRate", {"vkCmdSetFragmentShadingRateKHR"})
DeviceKHRPresentWait == Through("KHRPresentWait", {"vkWaitForPresentKHR"})
DeviceKHRDeferredHostOperations ==
  Through("KHRDeferredHostOperations", {"vkCreateDeferredOperationKHR",
    "vkDestroyDeferredOperationKHR", "vkGetDeferredOperationMaxConcurrencyKHR",
    "vkGetDeferredOperationResultKHR", "vkDeferredOperationJoinKHR"})
DeviceKHRPipelineExecutableProperties ==
  Through("KHRPipelineExecutableProperties", {"vkGetPipelineExecutablePropertiesKHR",
    "vkGetPipelineExecutableStatisticsKHR",
    "vkGetPipelineExecutableInternalRepresentationsKHR"})
DeviceKHRVideoEncodeQueue == Through("KHRVideoEncodeQueue", {"vkCmdEncodeVideoKHR"})
DeviceKHRSynchronization2 ==
  Through("KHRSynchronization2", {"vkCmdWriteBufferMarker2AMD", "vkGetQueueCheckpointData2NV"})
DeviceKHRRayTracingMaintenance1 ==
  Through("KHRRayTracingMaintenance1", {"vkCmdTraceRaysIndirect2KHR"})
DeviceANDROIDNativeBuffer ==
  Through("ANDROIDNativeBuffer", {"vkGetSwapchainGrallocUsageANDROID", "vkAcquireImageANDROID",
    "vkQueueSignalReleaseImageANDROID", "vkGetSwapchainGrallocUsage2ANDROID"})
DeviceEXTDebugMarker ==
  Through("EXTDebugMarker", {"vkDebugMarkerSetObjectTagEXT", "vkDebugMarkerSetObjectNameEXT",
    "vkCmdDebugMarkerBeginEXT", "vkCmdDebugMarkerEndEXT", "vkCmdDebugMarkerInsertEXT"})
DeviceEXTTransformFeedback ==
  Through("EXTTransformFeedback", {"vkCmdBindTransformFeedbackBuffersEXT",
    "vkCmdBeginTransformFeedbackEXT", "vkCmdEndTransformFeedbackEXT",
    "vkCmdBeginQueryIndexedEXT", "vkCmdEndQueryIndexedEXT", "vkCmdDrawIndirectByteCountEXT"})
DeviceNVXBinaryImport ==
  Through("NVXBinaryImport", {"vkCreateCuModuleNVX", "vkCreateCuFunctionNVX",
    "vkDestroyCuModuleNVX", "vkDestroyCuFunctionNVX", "vkCmdCuLaunchKernelNVX"})
DeviceNVXImageViewHandle ==
  Through("NVXImageViewHandle", {"vkGetImageViewHandleNVX", "vkGetImageViewAddressNVX"})
DeviceAMDShaderInfo == Through("AMDShaderInfo", {"vkGetShaderInfoAMD"})
DeviceNVExternalMemoryWin32 == Through("NVExternalMemoryWin32", {"vkGetMemoryWin32HandleNV"})
DeviceEXTConditionalRendering ==
  Through("EXTConditionalRendering", {"vkCmdBeginConditionalRenderingEXT",
    "vkCmdEndConditionalRenderingEXT"})
DeviceNVClipSpaceWScaling == Through("NVClipSpaceWScaling", {"vkCmdSetViewportWScalingNV"})
DeviceEXTDisplayControl ==
  Through("EXTDisplayControl", {"vkDisplayPowerControlEXT", "vkRegisterDeviceEventEXT",
    "vkRegisterDisplayEventEXT", "vkGetSwapchainCounterEXT"})
DeviceGOOGLEDisplayTiming ==
  Through("GOOGLEDisplayTiming", {"vkGetRefreshCycleDurationGOOGLE",
    "vkGetPastPresentationTimingGOOGLE"})
DeviceEXTDiscardRectangles == Through("EXTDiscardRectangles", {"vkCmdSetDiscardRectangleEXT"})
DeviceEXTHdrMetadata == Through("EXTHdrMetadata", {"vkSetHdrMetadataEXT"})
DeviceEXTDebugUtils ==
  Through("EXTDebugUtils", {"vkSetDebugUtilsObjectNameEXT", "vkSetDebugUtilsObjectTagEXT",
    "vkQueueBeginDebugUtilsLabelEXT", "vkQueueEndDebugUtilsLabelEXT",
    "vkQueueInsertDebugUtilsLabelEXT", "vkCmdBeginDebugUtilsLabelEXT",
    "vkCmdEndDebugUtilsLabelEXT", "vkCmdInsertDebugUtilsLabelEXT"})
DeviceANDROIDExternalMemoryAndroidHardwareBuffer ==
  Through("ANDROIDExternalMemoryAndroidHardwareBuffer",
    {"vkGetAndroidHardwareBufferPropertiesANDROID", "vkGetMemoryAndroidHardwareBufferANDROID"})
DeviceEXTSampleLocations == Through("EXTSampleLocations", {"vkCmdSetSampleLocationsEXT"})
DeviceEXTImageDrmFormatModifier ==
  Through("EXTImageDrmFormatModifier", {"vkGetImageDrmFormatModifierPropertiesEXT"})
DeviceEXTValidationCache ==
  Through("EXTValidationCache", {"vkCreateValidationCacheEXT", "vkDestroyValidationCacheEXT",
    "vkMergeValidationCachesEXT", "vkGetValidationCacheDataEXT"})
DeviceNVShadingRateImage ==
  Through("NVShadingRateImage", {"vkCmdBindShadingRateImageNV",
    "vkCmdSetViewportShadingRatePaletteNV", "vkCmdSetCoarseSampleOrderNV"})
DeviceNVRayTracing ==
  Through("NVRayTracing", {"vkCreateAccelerationStructureNV",
    "vkDestroyAccelerationStructureNV", "vkGetAccelerationStructureMemoryRequirementsNV",
    "vkBindAccelerationStructureMemoryNV", "vkCmdBuildAccelerationStructureNV",
    "vkCmdCopyAccelerationStructureNV", "vkCmdTraceRaysNV", "vkCreateRayTracingPipelinesNV",
    "vkGetAccelerationStructureHandleNV", "vkCmdWriteAccelerationStructuresPropertiesNV",
    "vkCompileDeferredNV"})
DeviceKHRRayTracingPipeline ==
  Through("KHRRayTracingPipeline", {"vkGetRayTracingShaderGroupHandlesKHR", "vkCmdTraceRaysKHR",
    "vkCreateRayTracingPipelinesKHR", "vkGetRayTracingCaptureReplayShaderGroupHandlesKHR",
    "vkCmdTraceRaysIndirectKHR", "vkGetRayTracingShaderGroupStackSizeKHR",
    "vkCmdSetRayTracingPipelineStackSizeKHR"})
DeviceEXTExternalMemoryHost ==
  Through("EXTExternalMemoryHost", {"vkGetMemoryHostPointerPropertiesEXT"})
DeviceAMDBufferMarker == Through("AMDBufferMarker", {"vkCmdWriteBufferMarkerAMD"})
DeviceEXTCalibratedTimestamps ==
  Through("EXTCalibratedTimestamps", {"vkGetCalibratedTimestampsEXT"})
DeviceNVMeshShader ==
  Through("NVMeshShader", {"vkCmdDrawMeshTasksNV", "vkCmdDrawMeshTasksIndirectNV",
    "vkCmdDrawMeshTasksIndirectCountNV"})
DeviceNVScissorExclusive == Through("NVScissorExclusive", {"vkCmdSetExclusiveScissorNV"})
DeviceNVDeviceDiagnosticCheckpoints ==
  Through("NVDeviceDiagnosticCheckpoints", {"vkCmdSetCheckpointNV",
    "vkGetQueueCheckpointDataNV"})
DeviceINTELPerformanceQuery ==
  Through("INTELPerformanceQuery", {"vkInitializePerformanceApiINTEL",
    "vkUninitializePerformanceApiINTEL", "vkCmdSetPerformanceMarkerINTEL",
    "vkCmdSetPerformanceStreamMarkerINTEL", "vkCmdSetPerformanceOverrideINTEL",
    "vkAcquirePerformanceConfigurationINTEL", "vkReleasePerformanceConfigurationINTEL",
    "vkQueueSetPerformanceConfigurationINTEL", "vkGetPerformanceParameterINTEL"})
DeviceAMDDisplayNativeHdr == Through("AMDDisplayNativeHdr", {"vkSetLocalDimmingAMD"})
DeviceEXTFullScreenExclusive ==
  Through("EXTFullScreenExclusive", {"vkAcquireFullScreenExclusiveModeEXT",
    "vkReleaseFullScreenExclusiveModeEXT", "vkGetDeviceGroupSurfacePresentModes2EXT"})
DeviceEXTLineRasterization == Through("EXTLineRasterization", {"vkCmdSetLineStippleEXT"})
DeviceEXTSwapchainMaintenance1 ==
  Through("EXTSwapchainMaintenance1", {"vkReleaseSwapchainImagesEXT"})
DeviceNVDeviceGeneratedCommands ==
  Through("NVDeviceGeneratedCommands", {"vkGetGeneratedCommandsMemoryRequirementsNV",
    "vkCmdPreprocessGeneratedCommandsNV", "vkCmdExecuteGeneratedCommandsNV",
    "vkCmdBindPipelineShaderGroupNV", "vkCreateIndirectCommandsLayoutNV",
    "vkDestroyIndirectCommandsLayoutNV"})
DeviceEXTMetalObjects == Through("EXTMetalObjects", {"vkExportMetalObjectsEXT"})
DeviceEXTDescriptorBuffer ==
  Through("EXTDescriptorBuffer", {"vkGetDescriptorSetLayoutSizeEXT",
    "vkGetDescriptorSetLayoutBindingOffsetEXT", "vkGetDescriptorEXT",
    "vkCmdBindDescriptorBuffersEXT", "vkCmdSetDescriptorBufferOffsetsEXT",
    "vkCmdBindDescriptorBufferEmbeddedSamplersEXT", "vkGetBufferOpaqueCaptureDescriptorDataEXT",
    "vkGetImageOpaqueCaptureDescriptorDataEXT", "vkGetImageViewOpaqueCaptureDescriptorDataEXT",
    "vkGetSamplerOpaqueCaptureDescriptorDataEXT",
    "vkGetAccelerationStructureOpaqueCaptureDescriptorDataEXT"})
DeviceNVFragmentShadingRateEnums ==
  Through("NVFragmentShadingRateEnums", {"vkCmdSetFragmentShadingRateEnumNV"})
DeviceEXTImageCompressionControl ==
  Through("EXTImageCompressionControl", {"vkGetImageSubresourceLayout2EXT"})
DeviceEXTVertexInputDynamicState ==
  Through("EXTVertexInputDynamicState", {"vkCmdSetVertexInputEXT"})
DeviceFUCHSIAExternalMemory ==
  Through("FUCHSIAExternalMemory", {"vkGetMemoryZirconHandleFUCHSIA",
    "vkGetMemoryZirconHandlePropertiesFUCHSIA"})
DeviceFUCHSIAExternalSemaphore ==
  Through("FUCHSIAExternalSemaphore", {"vkImportSemaphoreZirconHandleFUCHSIA",
    "vkGetSemaphoreZirconHandleFUCHSIA"})
DeviceFUCHSIABufferCollection ==
  Through("FUCHSIABufferCollection", {"vkCreateBufferCollectionFUCHSIA",
    "vkSetBufferCollectionImageConstraintsFUCHSIA",
    "vkSetBufferCollectionBufferConstraintsFUCHSIA", "vkDestroyBufferCollectionFUCHSIA",
    "vkGetBufferCollectionPropertiesFUCHSIA"})
DeviceHUAWEISubpassShading ==
  Through("HUAWEISubpassShading", {"vkGetDeviceSubpassShadingMaxWorkgroupSizeHUAWEI",
    "vkCmdSubpassShadingHUAWEI"})
DeviceHUAWEIInvocationMask == Through("HUAWEIInvocationMask", {"vkCmdBindInvocationMaskHUAWEI"})
DeviceNVExternalMemoryRdma == Through("NVExternalMemoryRdma", {"vkGetMemoryRemoteAddressNV"})
DeviceEXTPipelineProperties == Through("EXTPipelineProperties", {"vkGetPipelinePropertiesEXT"})
DeviceEXTExtendedDynamicState2 ==
  Through("EXTExtendedDynamicState2", {"vkCmdSetPatchControlPointsEXT", "vkCmdSetLogicOpEXT"})
DeviceEXTColorWriteEnable == Through("EXTColorWriteEnable", {"vkCmdSetColorWriteEnableEXT"})
DeviceEXTMultiDraw == Through("EXTMultiDraw", {"vkCmdDrawMultiEXT", "vkCmdDrawMultiIndexedEXT"})
DeviceEXTOpacityMicromap ==
  Through("EXTOpacityMicromap", {"vkCreateMicromapEXT", "vkDestroyMicromapEXT",
    "vkCmdBuildMicromapsEXT", "vkBuildMicromapsEXT", "vkCopyMicromapEXT",
    "vkCopyMicromapToMemoryEXT", "vkCopyMemoryToMicromapEXT", "vkWriteMicromapsPropertiesEXT",
    "vkCmdCopyMicromapEXT", "vkCmdCopyMicromapToMemoryEXT", "vkCmdCopyMemoryToMicromapEXT",
    "vkCmdWriteMicromapsPropertiesEXT", "vkGetDeviceMicromapCompatibilityEXT",
    "vkGetMicromapBuildSizesEXT"})
DeviceEXTPageableDeviceLocalMemory ==
  Through("EXTPageableDeviceLocalMemory", {"vkSetDeviceMemoryPriorityEXT"})
DeviceVALVEDescriptorSetHostMapping ==
  Through("VALVEDescriptorSetHostMapping", {"vkGetDescriptorSetLayoutHostMappingInfoVALVE",
    "vkGetDescriptorSetHostMappingVALVE"})
DeviceNVCopyMemoryIndirect ==
  Through("NVCopyMemoryIndirect", {"vkCmdCopyMemoryIndirectNV",
    "vkCmdCopyMemoryToImageIndirectNV"})
DeviceNVMemoryDecompression ==
  Through("NVMemoryDecompression", {"vkCmdDecompressMemoryNV",
    "vkCmdDecompressMemoryIndirectCountNV"})
DeviceEXTExtendedDynamicState3 ==
  Through("EXTExtendedDynamicState3", {"vkCmdSetTessellationDomainOriginEXT",
    "vkCmdSetDepthClampEnableEXT", "vkCmdSetPolygonModeEXT", "vkCmdSetRasterizationSamplesEXT",
    "vkCmdSetSampleMaskEXT", "vkCmdSetAlphaToCoverageEnableEXT", "vkCmdSetAlphaToOneEnableEXT",
    "vkCmdSetLogicOpEnableEXT", "vkCmdSetColorBlendEnableEXT", "vkCmdSetColorBlendEquationEXT",
    "vkCmdSetColorWriteMaskEXT", "vkCmdSetRasterizationStreamEXT",
    "vkCmdSetConservativeRasterizationModeEXT", "vkCmdSetExtraPrimitiveOverestimationSizeEXT",
    "vkCmdSetDepthClipEnableEXT", "vkCmdSetSampleLocationsEnableEXT",
    "vkCmdSetColorBlendAdvancedEXT", "vkCmdSetProvokingVertexModeEXT",
    "vkCmdSetLineRasterizationModeEXT", "vkCmdSetLineStippleEnableEXT",
    "vkCmdSetDepthClipNegativeOneToOneEXT", "vkCmdSetViewportWScalingEnableNV",
    "vkCmdSetViewportSwizzleNV", "vkCmdSetCoverageToColorEnableNV",
    "vkCmdSetCoverageToColorLocationNV", "vkCmdSetCoverageModulationModeNV",
    "vkCmdSetCoverageModulationTableEnableNV", "vkCmdSetCoverageModulationTableNV",
    "vkCmdSetShadingRateImageEnableNV", "vkCmdSetRepresentativeFragmentTestEnableNV",
    "vkCmdSetCoverageReductionModeNV"})
DeviceEXTShaderModuleIdentifier ==
  Through("EXTShaderModuleIdentifier", {"vkGetShaderModuleIdentifierEXT",
    "vkGetShaderModuleCreateInfoIdentifierEXT"})
DeviceNVOpticalFlow ==
  Through("NVOpticalFlow", {"vkCreateOpticalFlowSessionNV", "vkDestroyOpticalFlowSessionNV",
    "vkBindOpticalFlowSessionImageNV", "vkCmdOpticalFlowExecuteNV"})
DeviceQCOMTileProperties ==
  Through("QCOMTileProperties", {"vkGetFramebufferTilePropertiesQCOM",
    "vkGetDynamicRenderingTilePropertiesQCOM"})
DeviceKHRAccelerationStructure ==
  Through("KHRAccelerationStructure", {"vkCreateAccelerationStructureKHR",
    "vkDestroyAccelerationStructureKHR", "vkCopyAccelerationStructureKHR",
    "vkCopyAccelerationStructureToMemoryKHR", "vkCopyMemoryToAccelerationStructureKHR",
    "vkWriteAccelerationStructuresPropertiesKHR", "vkCmdCopyAccelerationStructureKHR",
    "vkCmdCopyAccelerationStructureToMemoryKHR", "vkCmdCopyMemoryToAccelerationStructureKHR",
    "vkGetAccelerationStructureDeviceAddressKHR",
    "vkCmdWriteAccelerationStructuresPropertiesKHR",
    "vkGetDeviceAccelerationStructureCompatibilityKHR",
    "vkGetAccelerationStructureBuildSizesKHR"})
DeviceEXTMeshShader ==
  Through("EXTMeshShader", {"vkCmdDrawMeshTasksEXT", "vkCmdDrawMeshTasksIndirectEXT",
    "vkCmdDrawMeshTasksIndirectCountEXT"})

-----------------------------------------------------------------------------
(* The functions of lib.rs, which every layer intercepts.                  *)

GlobalEntries ==
  Through("1.0", {"vkDestroyInstance", "vkEnumeratePhysicalDevices", "vkCreateDevice",
    "vkDestroyDevice", "vkEnumerateDeviceExtensionProperties",
    "vkEnumerateDeviceLayerProperties", "vkGetInstanceProcAddr", "vkGetDeviceProcAddr"})
  @@ Through("1.1", {"vkEnumeratePhysicalDeviceGroups"})

\* DeviceDispatchTable.
DeviceEntries ==
  DeviceCore10 @@ DeviceCore11 @@ DeviceCore12 @@ DeviceCore13 @@ DeviceKHRSwapchain
     @@ DeviceKHRDisplaySwapchain @@ DeviceKHRVideoQueue @@ DeviceKHRVideoDecodeQueue
     @@ DeviceKHRExternalMemoryWin32 @@ DeviceKHRExternalMemoryFd
     @@ DeviceKHRExternalSemaphoreWin32 @@ DeviceKHRExternalSemaphoreFd
     @@ DeviceKHRPushDescriptor @@ DeviceKHRSharedPresentableImage
     @@ DeviceKHRExternalFenceWin32 @@ DeviceKHRExternalFenceFd @@ DeviceKHRPerformanceQuery
     @@ DeviceKHRFragmentShadingRate @@ DeviceKHRPresentWait @@ DeviceKHRDeferredHostOperations
     @@ DeviceKHRPipelineExecutableProperties @@ DeviceKHRVideoEncodeQueue
     @@ DeviceKHRSynchronization2 @@ DeviceKHRRayTracingMaintenance1
     @@ DeviceANDROIDNativeBuffer @@ DeviceEXTDebugMarker @@ DeviceEXTTransformFeedback
     @@ DeviceNVXBinaryImport @@ DeviceNVXImageViewHandle @@ DeviceAMDShaderInfo
     @@ DeviceNVExternalMemoryWin32 @@ DeviceEXTConditionalRendering
     @@ DeviceNVClipSpaceWScaling @@ DeviceEXTDisplayControl @@ DeviceGOOGLEDisplayTiming
     @@ DeviceEXTDiscardRectangles @@ DeviceEXTHdrMetadata @@ DeviceEXTDebugUtils
     @@ DeviceANDROIDExternalMemoryAndroidHardwareBuffer @@ DeviceEXTSampleLocations
     @@ DeviceEXTImageDrmFormatModifier @@ DeviceEXTValidationCache @@ DeviceNVShadingRateImage
     @@ DeviceNVRayTracing @@ DeviceKHRRayTracingPipeline @@ DeviceEXTExternalMemoryHost
     @@ DeviceAMDBufferMarker @@ DeviceEXTCalibratedTimestamps @@ DeviceNVMeshShader
     @@ DeviceNVScissorExclusive @@ DeviceNVDeviceDiagnosticCheckpoints
     @@ DeviceINTELPerformanceQuery @@ DeviceAMDDisplayNativeHdr @@ DeviceEXTFullScreenExclusive
     @@ DeviceEXTLineRasterization @@ DeviceEXTSwapchainMaintenance1
     @@ DeviceNVDeviceGeneratedCommands @@ DeviceEXTMetalObjects @@ DeviceEXTDescriptorBuffer
     @@ DeviceNVFragmentShadingRateEnums @@ DeviceEXTImageCompressionControl
     @@ DeviceEXTVertexInputDynamicState @@ DeviceFUCHSIAExternalMemory
     @@ DeviceFUCHSIAExternalSemaphore @@ DeviceFUCHSIABufferCollection
     @@ DeviceHUAWEISubpassShading @@ DeviceHUAWEIInvocationMask @@ DeviceNVExternalMemoryRdma
     @@ DeviceEXTPipelineProperties @@ DeviceEXTExtendedDynamicState2
     @@ DeviceEXTColorWriteEnable @@ DeviceEXTMultiDraw @@ DeviceEXTOpacityMicromap
     @@ DeviceEXTPageableDeviceLocalMemory @@ DeviceVALVEDescriptorSetHostMapping
     @@ DeviceNVCopyMemoryIndirect @@ DeviceNVMemoryDecompression
     @@ DeviceEXTExtendedDynamicState3 @@ DeviceEXTShaderModuleIdentifier @@ DeviceNVOpticalFlow
     @@ DeviceQCOMTileProperties @@ DeviceKHRAccelerationStructure @@ DeviceEXTMeshShader
=============================================================================
